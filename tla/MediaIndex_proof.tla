-------------------------- MODULE MediaIndex_proof --------------------------
(***************************************************************************)
(* Proofs about MediaIndex and the index that it keeps, for any library,   *)
(* page, batch and number of changes and faults: the types, the vectors of *)
(* the entries, what is on disk at rest, and that an index at rest is the  *)
(* library.                                                                *)
(***************************************************************************)
EXTENDS MediaIndex, FiniteSetTheorems, SequenceTheorems, Iterators_proof

-----------------------------------------------------------------------------
(* The inductive invariant. *)

(* What a full comparison or a live update still has to do is in its job.  *)
Working ==
    /\ task \in {"load", "off", "loop", "wait"} => job = Idle
    /\ task = "pages" => job.full
    /\ task = "lookup" => ~job.full
    /\ task # "lookup" => job.changes = NoChanges
    /\ task = "finish" => job.todo = <<>>
    /\ task = "load" => due

(* The lists in memory and on disk hold an item once.  A kill between the  *)
(* renames may leave lists of two lengths on disk.                         *)
Unique(seq) == \A j, k \in DOMAIN seq : seq[j].id = seq[k].id => j = k

Index(x) ==
    /\ x \in [entries: Seq(Doc), vectors: Seq(Doc)]
    /\ Len(x.vectors) = Len(x.entries)
    /\ Unique(x.entries)

Kept ==
    /\ Index(ix)
    /\ disk \in [entries: Seq(Doc), vectors: Seq(Doc)]
    /\ Unique(disk.entries)

(* The files are those of the index while run is at rest, or has called    *)
(* Jellyfin and not changed the index, and once both are renamed.          *)
Saved ==
    /\ task \in {"loop", "wait", "pages", "lookup", "finish"} /\ ~unsaved => disk = ix
    /\ task = "entries" => disk.vectors = ix.vectors

(* An item whose entry is not that of the library is known to be out of    *)
(* date: listen or run will ask for a full comparison,                     *)
Later == Reconnected \in ToSet(events) \/ (ws # "up" /\ tried)

(* one is due that has not begun,                                          *)
Due == due /\ ~job.full

(* its last change is announced,                                           *)
Tells(c, i) == IF lib[i] = Absent THEN i \in c.removed ELSE i \in c.changed

OnWay(i) == \E c \in ToSet(events) \cup {pending, job.changes} : Tells(c, i)

(* or it is among the documents at work: it is read, if it lies before the *)
(* offset of the next page, and then it is stored.                         *)
Agrees(i) == \A e \in Doc : e.id = i => (e \in ToSet(ix.entries) <=> e.text = lib[i])

Rank(s, i) == Cardinality({j \in s : j <= i})

Read(i) ==
    /\ \A d \in ToSet(job.docs) : d.id = i => d.text = lib[i]
    /\ lib[i] # Absent /\ Rank(Present, i) <= Len(job.docs)
           => [id |-> i, text |-> lib[i]] \in ToSet(job.docs)

Stored(i) ==
    /\ \A d \in ToSet(job.todo) : d.id = i => d.text = lib[i]
    /\ Agrees(i) \/ \E d \in ToSet(job.todo) : d.id = i

Storing == {"embed", "vectors", "entries", "finish"}

Known(i) ==
    /\ task = "pages" => Read(i)
    /\ task \in Storing => Stored(i)
    /\ task \notin Storing \cup {"pages"} => Agrees(i)

Followed == excuse = {} => \A i \in Items : Later \/ Due \/ OnWay(i) \/ Known(i)

Connected == ws = "up" => tried

(* The types of all but the lists, which Kept has.                         *)
Typed ==
    /\ lib \in [Items -> Texts \cup {Absent}]
    /\ ws \in {"down", "up", "broken"} /\ tried \in BOOLEAN
    /\ events \in Seq(Changes)
    /\ task \in {"load", "off", "loop", "wait", "pages", "lookup", "embed",
                 "vectors", "entries", "finish"}
    /\ due \in BOOLEAN
    /\ pending \in Changes
    /\ job \in Job
    /\ state \in {"LoadingModel", "Indexing", "Ready", "Failed"}
    /\ excuse \subseteq {"failed", "unannounced", "shifted", "outdated"}
    /\ torn \in BOOLEAN /\ unsaved \in BOOLEAN
    /\ changes \in 0..MaxChanges /\ trouble \in 0..MaxTrouble

IndInv ==
    /\ Typed /\ Working /\ Kept /\ Connected
    /\ OwnVectors /\ Saved /\ Followed

-----------------------------------------------------------------------------
(* The elements at positions. *)

(* g lists the r positions of 1..n that are in at, in their order.         *)
Lists(g, r, n, at) ==
    /\ g \in [1..r -> 1..n]
    /\ \A m \in 1..r : g[m] \in at
    /\ \A m, p \in 1..r : m < p => g[m] < g[p]
    /\ \A k \in 1..n : k \in at => \E m \in 1..r : g[m] = k

ListedBy(p, seq, g, r) == Len(p) = r /\ \A m \in 1..r : p[m] = seq[g[m]]

LEMMA ListsMore ==
  ASSUME NEW m \in Nat, NEW r \in Nat, NEW at, NEW g, Lists(g, r, m, at), m + 1 \in at,
         NEW q, q = [k \in 1..r + 1 |-> IF k = r + 1 THEN m + 1 ELSE g[k]]
  PROVE  Lists(q, r + 1, m + 1, at)
  <1>1. /\ g \in [1..r -> 1..m]
        /\ \A k \in 1..r : g[k] \in at
        /\ \A k, p \in 1..r : k < p => g[k] < g[p]
        /\ \A k \in 1..m : k \in at => \E p \in 1..r : g[p] = k
    BY DEF Lists
  <1>2. q[r + 1] = m + 1 /\ \A k \in 1..r : q[k] = g[k]
    OBVIOUS
  <1>3. q \in [1..r + 1 -> 1..m + 1]
    BY <1>1
  <1>4. \A k \in 1..r + 1 : q[k] \in at
    BY <1>1
  <1>5. \A k, p \in 1..r + 1 : k < p => q[k] < q[p]
    BY <1>1
  <1>6. ASSUME NEW k \in 1..m + 1, k \in at PROVE \E p \in 1..r + 1 : q[p] = k
    <2>1. CASE k = m + 1
      BY <1>2, <2>1
    <2>2. CASE k # m + 1
      <3>1. PICK p \in 1..r : g[p] = k
        BY <1>1, <1>6, <2>2
      <3> QED BY <1>2, <3>1
    <2> QED BY <2>1, <2>2
  <1> QED BY <1>3, <1>4, <1>5, <1>6 DEF Lists

LEMMA ListedMore ==
  ASSUME NEW T, NEW r \in Nat, NEW m \in Nat, NEW seq, seq[m + 1] \in T,
         NEW p \in Seq(T), NEW g, ListedBy(p, seq, g, r),
         NEW q, q = [k \in 1..r + 1 |-> IF k = r + 1 THEN m + 1 ELSE g[k]]
  PROVE  /\ Append(p, seq[m + 1]) \in Seq(T)
         /\ ListedBy(Append(p, seq[m + 1]), seq, q, r + 1)
  <1>1. Len(p) = r /\ \A k \in 1..r : p[k] = seq[g[k]]
    BY DEF ListedBy
  <1>2. PICK e \in T : e = seq[m + 1]
    OBVIOUS
  <1>3. /\ Append(p, e) \in Seq(T) /\ Len(Append(p, e)) = r + 1
        /\ Append(p, e)[r + 1] = e
        /\ \A k \in 1..r : Append(p, e)[k] = p[k]
    BY <1>1
  <1>4. \A k \in 1..r + 1 : Append(p, e)[k] = seq[q[k]]
    BY <1>1, <1>2, <1>3
  <1> QED BY <1>2, <1>3, <1>4 DEF ListedBy

LEMMA PickedBoth ==
  ASSUME NEW T, NEW a \in Seq(T), NEW b \in Seq(T), NEW at, Len(b) = Len(a)
  PROVE  /\ Picked(a, at) \in Seq(T) /\ Picked(b, at) \in Seq(T)
         /\ \E g : \E r \in Nat :
                /\ Lists(g, r, Len(a), at)
                /\ ListedBy(Picked(a, at), a, g, r)
                /\ ListedBy(Picked(b, at), b, g, r)
  <1>1. PICK n \in Nat : n = Len(a) /\ n = Len(b)
    OBVIOUS
  <1>2. PICK f : PicksTo(f, a, at, n) /\ Picked(a, at) = f[n]
    BY <1>1, PickedIs
  <1>3. PICK h : PicksTo(h, b, at, n) /\ Picked(b, at) = h[n]
    BY <1>1, PickedIs
  <1> DEFINE Both(m) == /\ f[m] \in Seq(T) /\ h[m] \in Seq(T)
                        /\ \E g : \E r \in Nat :
                               /\ Lists(g, r, m, at)
                               /\ ListedBy(f[m], a, g, r)
                               /\ ListedBy(h[m], b, g, r)
             S == {m \in Nat : m <= n => Both(m)}
  <1>4. 0 \in S
    <2>1. f[0] = <<>> /\ h[0] = <<>>
      BY <1>2, <1>3 DEF PicksTo
    <2>2. PICK g : g = [k \in 1..0 |-> 1]
      OBVIOUS
    <2>3. Lists(g, 0, 0, at) /\ ListedBy(f[0], a, g, 0) /\ ListedBy(h[0], b, g, 0)
      BY <2>1, <2>2 DEF Lists, ListedBy
    <2>4. f[0] \in Seq(T) /\ h[0] \in Seq(T)
      BY <2>1
    <2> QED BY <2>3, <2>4
  <1>5. ASSUME NEW m \in Nat, m \in S PROVE m + 1 \in S
    <2> SUFFICES ASSUME m + 1 <= n PROVE Both(m + 1)
      OBVIOUS
    <2>1. Both(m)
      BY <1>5
    <2>2. PICK g : \E r \in Nat :
              /\ Lists(g, r, m, at)
              /\ ListedBy(f[m], a, g, r)
              /\ ListedBy(h[m], b, g, r)
      BY <2>1
    <2>3. PICK r \in Nat :
              /\ Lists(g, r, m, at)
              /\ ListedBy(f[m], a, g, r)
              /\ ListedBy(h[m], b, g, r)
      BY <2>2
    <2>4. m + 1 \in 0..n /\ m + 1 # 0 /\ (m + 1) - 1 = m
      OBVIOUS
    <2>5. f[m + 1] = IF m + 1 \in at THEN Append(f[m], a[m + 1]) ELSE f[m]
      BY <1>2, <2>4 DEF PicksTo
    <2>6. h[m + 1] = IF m + 1 \in at THEN Append(h[m], b[m + 1]) ELSE h[m]
      BY <1>3, <2>4 DEF PicksTo
    <2>7. CASE m + 1 \notin at
      <3>1. Lists(g, r, m + 1, at)
        <4>1. /\ g \in [1..r -> 1..m]
              /\ \A k \in 1..r : g[k] \in at
              /\ \A k, p \in 1..r : k < p => g[k] < g[p]
              /\ \A k \in 1..m : k \in at => \E p \in 1..r : g[p] = k
          BY <2>3 DEF Lists
        <4>2. g \in [1..r -> 1..m + 1]
          BY <4>1
        <4>3. \A k \in 1..m + 1 : k \in at => k \in 1..m
          BY <2>7
        <4> QED BY <4>1, <4>2, <4>3 DEF Lists
      <3> QED BY <2>1, <2>3, <2>5, <2>6, <2>7, <3>1
    <2>8. CASE m + 1 \in at
      <3>1. PICK q : q = [k \in 1..r + 1 |-> IF k = r + 1 THEN m + 1 ELSE g[k]]
        OBVIOUS
      <3>2. Lists(q, r + 1, m + 1, at)
        BY <2>3, <2>8, <3>1, ListsMore
      <3>3. a[m + 1] \in T /\ b[m + 1] \in T
        BY <1>1
      <3>4. f[m + 1] \in Seq(T) /\ ListedBy(f[m + 1], a, q, r + 1)
        BY <2>1, <2>3, <2>5, <2>8, <3>1, <3>3, ListedMore
      <3>5. h[m + 1] \in Seq(T) /\ ListedBy(h[m + 1], b, q, r + 1)
        BY <2>1, <2>3, <2>6, <2>8, <3>1, <3>3, ListedMore
      <3> QED BY <3>2, <3>4, <3>5
    <2> QED BY <2>7, <2>8
  <1> HIDE DEF S
  <1>6. Nat \subseteq S
    BY <1>4, <1>5, Induct
  <1>7. Both(n)
    BY <1>6 DEF S
  <1> QED BY <1>1, <1>2, <1>3, <1>7

(* If all positions are in at, each stands at its own place.               *)
LEMMA ListsAll ==
  ASSUME NEW n \in Nat, NEW r \in Nat, NEW at, 1..n \subseteq at, NEW g, Lists(g, r, n, at)
  PROVE  r = n /\ \A m \in 1..n : g[m] = m
  <1>1. /\ \A m \in 1..r : g[m] \in 1..n
        /\ \A m, p \in 1..r : m < p => g[m] < g[p]
        /\ \A k \in 1..n : \E m \in 1..r : g[m] = k
    BY DEF Lists
  <1> DEFINE Moved == {m \in 1..r : g[m] # m}
  <1>2. Moved = {}
    <2>1. SUFFICES ASSUME Moved # {} PROVE FALSE
      OBVIOUS
    <2>2. PICK m \in Moved : \A y \in Moved : m <= y
      <3>1. Moved \in SUBSET Nat
        OBVIOUS
      <3> HIDE DEF Moved
      <3> QED BY <2>1, <3>1, Least
    <2>3. \A j \in 1..m - 1 : g[j] = j
      BY <2>2
    <2>4. g[m] > m
      <3>1. CASE m = 1
        BY <1>1, <2>2, <3>1
      <3>2. CASE m # 1
        <4>1. m - 1 \in 1..r /\ g[m - 1] = m - 1 /\ g[m - 1] < g[m] /\ g[m] \in 1..n
          BY <1>1, <2>2, <2>3, <3>2
        <4> QED BY <2>2, <4>1
      <3> QED BY <3>1, <3>2
    <2>5. m \in 1..n
      BY <1>1, <2>2, <2>4
    <2>6. PICK p \in 1..r : g[p] = m
      BY <1>1, <2>5
    <2>7. p < m \/ p = m \/ p > m
      BY <2>2
    <2>8. p > m
      BY <2>2, <2>3, <2>6, <2>7
    <2> QED BY <1>1, <2>2, <2>4, <2>6, <2>8
  <1>3. \A m \in 1..r : g[m] = m
    BY <1>2
  <1>4. r <= n
    BY <1>1, <1>3
  <1>5. n <= r
    BY <1>1, <1>3
  <1> QED BY <1>3, <1>4, <1>5
-----------------------------------------------------------------------------
(* The index: lists of one length, and one entry for an item at most. *)

LEMMA PickedElements ==
  ASSUME NEW T, NEW seq \in Seq(T), NEW at
  PROVE  /\ Picked(seq, at) \in Seq(T)
         /\ ToSet(Picked(seq, at)) = {seq[k] : k \in {j \in DOMAIN seq : j \in at}}
  <1>1. PICK n \in Nat : n = Len(seq) /\ DOMAIN seq = 1..n
    OBVIOUS
  <1>2. /\ Picked(seq, at) \in Seq(T)
        /\ \E g : \E r \in Nat :
               /\ Lists(g, r, n, at)
               /\ ListedBy(Picked(seq, at), seq, g, r)
    <2>1. Len(seq) = Len(seq)
      OBVIOUS
    <2> QED BY <1>1, <2>1, PickedBoth
  <1>3. PICK g : \E r \in Nat : Lists(g, r, n, at) /\ ListedBy(Picked(seq, at), seq, g, r)
    BY <1>2
  <1>4. PICK r \in Nat : Lists(g, r, n, at) /\ ListedBy(Picked(seq, at), seq, g, r)
    BY <1>3
  <1>5. PICK p \in Seq(T) : p = Picked(seq, at)
    BY <1>2
  <1>6. /\ DOMAIN p = 1..r
        /\ \A m \in 1..r : p[m] = seq[g[m]] /\ g[m] \in at /\ g[m] \in 1..n
        /\ \A k \in 1..n : k \in at => \E m \in 1..r : g[m] = k
    BY <1>4, <1>5 DEF Lists, ListedBy
  <1>7. ToSet(p) = {seq[k] : k \in {j \in DOMAIN seq : j \in at}}
    <2>1. ASSUME NEW m \in 1..r
          PROVE  p[m] \in {seq[k] : k \in {j \in DOMAIN seq : j \in at}}
      BY <1>1, <1>6
    <2>2. ASSUME NEW k \in DOMAIN seq, k \in at PROVE \E m \in DOMAIN p : p[m] = seq[k]
      BY <1>1, <1>6, <2>2
    <2> QED BY <1>6, <2>1, <2>2 DEF ToSet
  <1> QED BY <1>5, <1>7

LEMMA IndexParts ==
  ASSUME NEW x, Index(x)
  PROVE  \E n \in Nat, a \in Seq(Doc), b \in Seq(Doc) :
            /\ a = x.entries /\ b = x.vectors
            /\ n = Len(a) /\ n = Len(b) /\ DOMAIN a = 1..n /\ DOMAIN b = 1..n
            /\ \A j, k \in 1..n : a[j].id = a[k].id => j = k
            /\ x = [entries |-> a, vectors |-> b]
  <1>1. x \in [entries: Seq(Doc), vectors: Seq(Doc)]
    BY DEF Index
  <1>2. /\ x.entries \in Seq(Doc) /\ x.vectors \in Seq(Doc)
        /\ x = [entries |-> x.entries, vectors |-> x.vectors]
    BY <1>1
  <1>3. Len(x.entries) \in Nat /\ Len(x.vectors) = Len(x.entries)
    BY <1>2 DEF Index
  <1>4. \A j, k \in DOMAIN x.entries : x.entries[j].id = x.entries[k].id => j = k
    BY DEF Index, Unique
  <1> QED BY <1>2, <1>3, <1>4

LEMMA RemoveIs ==
  ASSUME NEW x, Index(x), NEW ids
  PROVE  /\ Index(RemoveIds(x, ids))
         /\ ToSet(RemoveIds(x, ids).entries) = {e \in ToSet(x.entries) : e.id \notin ids}
         /\ Matched(x) => Matched(RemoveIds(x, ids))
         /\ ~Removed(x, ids) => RemoveIds(x, ids) = x
  <1>1. PICK n \in Nat, a \in Seq(Doc), b \in Seq(Doc) :
            /\ a = x.entries /\ b = x.vectors
            /\ n = Len(a) /\ n = Len(b) /\ DOMAIN a = 1..n /\ DOMAIN b = 1..n
            /\ \A j, k \in 1..n : a[j].id = a[k].id => j = k
            /\ x = [entries |-> a, vectors |-> b]
    BY IndexParts
  <1>2. PICK at : at = {k \in DOMAIN a : a[k].id \notin ids} /\ at = Staying(x, ids)
    BY <1>1 DEF Staying
  <1>3. /\ Picked(a, at) \in Seq(Doc) /\ Picked(b, at) \in Seq(Doc)
        /\ \E g : \E r \in Nat :
               /\ Lists(g, r, n, at)
               /\ ListedBy(Picked(a, at), a, g, r)
               /\ ListedBy(Picked(b, at), b, g, r)
    <2>1. Len(b) = Len(a)
      BY <1>1
    <2> QED BY <1>1, <2>1, PickedBoth
  <1>4. PICK g : \E r \in Nat :
            /\ Lists(g, r, n, at)
            /\ ListedBy(Picked(a, at), a, g, r)
            /\ ListedBy(Picked(b, at), b, g, r)
    BY <1>3
  <1>5. PICK r \in Nat :
            /\ Lists(g, r, n, at)
            /\ ListedBy(Picked(a, at), a, g, r)
            /\ ListedBy(Picked(b, at), b, g, r)
    BY <1>4
  <1>6. PICK p \in Seq(Doc), v \in Seq(Doc) : p = Picked(a, at) /\ v = Picked(b, at)
    BY <1>3
  <1>7. RemoveIds(x, ids) = [entries |-> p, vectors |-> v]
    BY <1>1, <1>2, <1>6 DEF RemoveIds
  <1>8. /\ Len(p) = r /\ Len(v) = r /\ DOMAIN p = 1..r /\ DOMAIN v = 1..r
        /\ \A m \in 1..r : p[m] = a[g[m]] /\ v[m] = b[g[m]] /\ g[m] \in 1..n
        /\ \A m, k \in 1..r : m < k => g[m] < g[k]
    <2>1. /\ g \in [1..r -> 1..n]
          /\ \A m, k \in 1..r : m < k => g[m] < g[k]
      BY <1>5 DEF Lists
    <2>2. /\ Len(p) = r /\ Len(v) = r
          /\ \A m \in 1..r : p[m] = a[g[m]]
          /\ \A m \in 1..r : v[m] = b[g[m]]
      BY <1>5, <1>6 DEF ListedBy
    <2> QED BY <2>1, <2>2
  <1>9. Index(RemoveIds(x, ids))
    <2>1. \A m, k \in 1..r : p[m].id = p[k].id => m = k
      <3>1. SUFFICES ASSUME NEW m \in 1..r, NEW k \in 1..r, p[m].id = p[k].id PROVE m = k
        OBVIOUS
      <3>2. g[m] = g[k]
        <4>1. PICK j \in 1..n, i \in 1..n : j = g[m] /\ i = g[k]
          BY <1>8
        <4>2. a[j].id = a[i].id
          BY <1>8, <3>1, <4>1
        <4> QED BY <1>1, <4>1, <4>2
      <3>3. m < k \/ k < m \/ m = k
        OBVIOUS
      <3> QED BY <1>8, <3>2, <3>3
    <2> QED BY <1>7, <1>8, <2>1 DEF Index, Unique
  <1>10. ToSet(RemoveIds(x, ids).entries) = {e \in ToSet(x.entries) : e.id \notin ids}
    <2>1. ToSet(p) = {a[k] : k \in {j \in DOMAIN a : j \in at}}
      BY <1>6, PickedElements
    <2>2. {a[k] : k \in {j \in DOMAIN a : j \in at}} = {e \in ToSet(a) : e.id \notin ids}
      BY <1>2 DEF ToSet
    <2> QED BY <1>1, <1>7, <2>1, <2>2
  <1>11. Matched(x) => Matched(RemoveIds(x, ids))
    BY <1>1, <1>6, <1>7 DEF Matched
  <1>12. ASSUME ~Removed(x, ids) PROVE RemoveIds(x, ids) = x
    <2>1. 1..n \subseteq at
      <3>1. ASSUME NEW k \in 1..n PROVE k \in at
        <4>1. a[k] \in ToSet(a)
          BY <1>1 DEF ToSet
        <4>2. a[k].id \notin ids
          BY <1>1, <1>12, <4>1 DEF Removed
        <4> QED BY <1>1, <1>2, <4>2
      <3> QED BY <3>1
    <2>2. r = n /\ \A m \in 1..n : g[m] = m
      BY <1>5, <2>1, ListsAll
    <2>3. p = a /\ v = b
      <3>1. \A m \in 1..n : p[m] = a[m] /\ v[m] = b[m]
        BY <1>8, <2>2
      <3> QED BY <1>1, <1>8, <2>2, <3>1, SeqEqual
    <2> QED BY <1>1, <1>7, <2>3
  <1> QED BY <1>9, <1>10, <1>11, <1>12

LEMMA ChangedIs ==
  ASSUME NEW x, NEW docs \in Seq(Doc)
  PROVE  /\ Changed(x, docs) \in Seq(Doc)
         /\ ToSet(Changed(x, docs)) = ToSet(docs) \ ToSet(x.entries)
  <1>1. PICK at : at = {k \in DOMAIN docs : docs[k] \notin ToSet(x.entries)}
    OBVIOUS
  <1>2. Changed(x, docs) = Picked(docs, at)
    BY <1>1 DEF Changed
  <1>3. /\ Picked(docs, at) \in Seq(Doc)
        /\ ToSet(Picked(docs, at)) = {docs[k] : k \in {j \in DOMAIN docs : j \in at}}
    BY PickedElements
  <1>4. {docs[k] : k \in {j \in DOMAIN docs : j \in at}} = ToSet(docs) \ ToSet(x.entries)
    <2>1. \A K : {docs[k] : k \in {j \in DOMAIN docs : docs[j] \notin K}}
                   = {docs[k] : k \in DOMAIN docs} \ K
      OBVIOUS
    <2>2. {j \in DOMAIN docs : j \in at} = {j \in DOMAIN docs : docs[j] \notin ToSet(x.entries)}
      BY <1>1
    <2>3. ToSet(docs) = {docs[k] : k \in DOMAIN docs}
      BY DEF ToSet
    <2> QED BY <2>1, <2>2, <2>3
  <1> QED BY <1>2, <1>3, <1>4
(* One entry for each document of docs, and the others as they were.       *)
Merged(new, old, docs) ==
    /\ \A e \in new : e \in docs \/ (e \in old /\ \A d \in docs : d.id # e.id)
    /\ \A e \in old : (\A d \in docs : d.id # e.id) => e \in new
    /\ \A d \in docs : \E e \in new : e.id = d.id

LEMMA UpsertIs ==
  ASSUME NEW x, Index(x), NEW d \in Doc
  PROVE  /\ Index(Upsert(x, d))
         /\ ToSet(Upsert(x, d).entries) = {e \in ToSet(x.entries) : e.id # d.id} \cup {d}
         /\ Matched(x) => Matched(Upsert(x, d))
  <1>1. PICK n \in Nat, a \in Seq(Doc), b \in Seq(Doc) :
            /\ a = x.entries /\ b = x.vectors
            /\ n = Len(a) /\ n = Len(b) /\ DOMAIN a = 1..n /\ DOMAIN b = 1..n
            /\ \A j, k \in 1..n : a[j].id = a[k].id => j = k
            /\ x = [entries |-> a, vectors |-> b]
    BY IndexParts
  <1>2. PICK at : at = {k \in 1..n : a[k].id = d.id} /\ at = Position(x, d.id)
    BY <1>1 DEF Position
  <1>3. CASE at = {}
    <2>1. PICK p, v : p = Append(a, d) /\ v = Append(b, d)
      OBVIOUS
    <2>2. Upsert(x, d) = [entries |-> p, vectors |-> v]
      BY <1>1, <1>2, <1>3, <2>1 DEF Upsert
    <2>3. /\ p \in Seq(Doc) /\ Len(p) = n + 1 /\ DOMAIN p = 1..n + 1
          /\ p[n + 1] = d /\ \A k \in 1..n : p[k] = a[k]
      BY <1>1, <2>1
    <2>4. v \in Seq(Doc) /\ Len(v) = n + 1
      BY <1>1, <2>1
    <2>5. \A k \in 1..n : a[k].id # d.id
      BY <1>2, <1>3
    <2>6. Unique(p)
      <3>1. SUFFICES ASSUME NEW j \in 1..n + 1, NEW k \in 1..n + 1, p[j].id = p[k].id PROVE j = k
        BY <2>3 DEF Unique
      <3>2. CASE j \in 1..n /\ k \in 1..n
        BY <1>1, <2>3, <3>1, <3>2
      <3>3. CASE j = n + 1 /\ k \in 1..n
        BY <2>3, <2>5, <3>1, <3>3
      <3>4. CASE j \in 1..n /\ k = n + 1
        BY <2>3, <2>5, <3>1, <3>4
      <3>5. CASE j = n + 1 /\ k = n + 1
        BY <3>5
      <3> QED BY <3>2, <3>3, <3>4, <3>5
    <2>7. Index(Upsert(x, d))
      BY <2>2, <2>3, <2>4, <2>6 DEF Index
    <2>8. ToSet(p) = {e \in ToSet(a) : e.id # d.id} \cup {d}
      <3>1. ToSet(p) = {p[k] : k \in 1..n + 1}
        BY <2>3 DEF ToSet
      <3>2. ToSet(a) = {a[k] : k \in 1..n}
        BY <1>1 DEF ToSet
      <3>3. ASSUME NEW e \in ToSet(p) PROVE e \in {e2 \in ToSet(a) : e2.id # d.id} \cup {d}
        <4>1. PICK k \in 1..n + 1 : e = p[k]
          BY <3>1
        <4> QED BY <2>3, <2>5, <3>2, <4>1
      <3>4. ASSUME NEW e \in ToSet(a) PROVE e \in ToSet(p)
        <4>1. PICK k \in 1..n : e = a[k]
          BY <3>2
        <4> QED BY <2>3, <3>1, <4>1
      <3>5. d \in ToSet(p)
        BY <2>3, <3>1
      <3> QED BY <3>3, <3>4, <3>5
    <2>9. Matched(x) => Matched(Upsert(x, d))
      <3>1. ASSUME Matched(x) PROVE p = v
        <4>1. a = b
          BY <1>1, <3>1 DEF Matched
        <4> QED BY <2>1, <4>1
      <3> QED BY <2>2, <3>1 DEF Matched
    <2> QED BY <1>1, <2>2, <2>7, <2>8, <2>9
  <1>4. CASE at # {}
    <2>1. PICK i \in 1..n : at = {i} /\ a[i].id = d.id
      BY <1>1, <1>2, <1>4
    <2>2. PICK p, v : /\ p = [k \in 1..n |-> IF k \in at THEN d ELSE a[k]]
                      /\ v = [k \in 1..n |-> IF k \in at THEN d ELSE b[k]]
      OBVIOUS
    <2>3. Upsert(x, d) = [entries |-> p, vectors |-> v]
      BY <1>1, <1>2, <1>4, <2>2 DEF Upsert, Put
    <2>4. /\ p \in Seq(Doc) /\ Len(p) = n /\ DOMAIN p = 1..n
          /\ p[i] = d /\ \A k \in 1..n : k # i => p[k] = a[k]
      BY <1>1, <2>1, <2>2
    <2>5. v \in Seq(Doc) /\ Len(v) = n
      BY <1>1, <2>1, <2>2
    <2>6. \A k \in 1..n : p[k].id = a[k].id
      BY <2>1, <2>4
    <2>7. Index(Upsert(x, d))
      <3>1. Unique(p)
        BY <1>1, <2>4, <2>6 DEF Unique
      <3> QED BY <2>3, <2>4, <2>5, <3>1 DEF Index
    <2>8. ToSet(p) = {e \in ToSet(a) : e.id # d.id} \cup {d}
      <3>1. ToSet(p) = {p[k] : k \in 1..n}
        BY <2>4 DEF ToSet
      <3>2. ToSet(a) = {a[k] : k \in 1..n}
        BY <1>1 DEF ToSet
      <3>3. ASSUME NEW e \in ToSet(p) PROVE e \in {e2 \in ToSet(a) : e2.id # d.id} \cup {d}
        <4>1. PICK k \in 1..n : e = p[k]
          BY <3>1
        <4>2. CASE k = i
          BY <2>4, <4>1, <4>2
        <4>3. CASE k # i
          <5>1. a[k].id # d.id
            BY <1>1, <2>1, <4>3
          <5> QED BY <2>4, <3>2, <4>1, <4>3, <5>1
        <4> QED BY <4>2, <4>3
      <3>4. ASSUME NEW e \in ToSet(a), e.id # d.id PROVE e \in ToSet(p)
        <4>1. PICK k \in 1..n : e = a[k]
          BY <3>2
        <4>2. k # i
          BY <2>1, <3>4, <4>1
        <4> QED BY <2>4, <3>1, <4>1, <4>2
      <3>5. d \in ToSet(p)
        BY <2>4, <3>1
      <3> QED BY <3>3, <3>4, <3>5
    <2>9. Matched(x) => Matched(Upsert(x, d))
      BY <1>1, <2>2, <2>3 DEF Matched
    <2> QED BY <1>1, <2>3, <2>7, <2>8, <2>9
  <1> QED BY <1>3, <1>4

UpsertsTo(f, x, docs, n) ==
    f = [k \in 0..n |-> IF k = 0 THEN x ELSE Upsert(f[k-1], docs[k])]

LEMMA UpsertsExist ==
  ASSUME NEW x, NEW docs, NEW n \in Nat
  PROVE  \E f : UpsertsTo(f, x, docs, n)
  <1> DEFINE S == {m \in Nat : \E f : UpsertsTo(f, x, docs, m)}
  <1>1. 0 \in S
    <2>1. PICK f : f = [k \in 0..0 |-> x]
      OBVIOUS
    <2>2. UpsertsTo(f, x, docs, 0)
      BY <2>1 DEF UpsertsTo
    <2> QED BY <2>2
  <1>2. ASSUME NEW m \in Nat, m \in S PROVE m + 1 \in S
    <2>1. PICK f : UpsertsTo(f, x, docs, m)
      BY <1>2
    <2>2. PICK e : e = Upsert(f[m], docs[m + 1])
      OBVIOUS
    <2>3. PICK g : g = [k \in 0..m + 1 |-> IF k = m + 1 THEN e ELSE f[k]]
      OBVIOUS
    <2>4. \A k \in 0..m + 1 : g[k] = IF k = 0 THEN x ELSE Upsert(g[k-1], docs[k])
      <3>1. TAKE k \in 0..m + 1
      <3>2. CASE k = m + 1
        BY <2>2, <2>3, <3>2
      <3>3. CASE k # m + 1
        <4>1. k \in 0..m /\ g[k] = f[k] /\ (k # 0 => g[k-1] = f[k-1])
          BY <2>3, <3>3
        <4>2. f[k] = IF k = 0 THEN x ELSE Upsert(f[k-1], docs[k])
          BY <2>1, <4>1 DEF UpsertsTo
        <4> QED BY <4>1, <4>2
      <3> QED BY <3>2, <3>3
    <2>5. UpsertsTo(g, x, docs, m + 1)
      <3>1. g = [k \in 0..m + 1 |-> g[k]]
        BY <2>3
      <3> QED BY <2>4, <3>1 DEF UpsertsTo
    <2> QED BY <2>5
  <1> HIDE DEF S
  <1>3. Nat \subseteq S
    BY <1>1, <1>2, Induct
  <1> QED BY <1>3 DEF S

LEMMA UpsertAllIs ==
  ASSUME NEW x, Index(x), NEW docs \in Seq(Doc)
  PROVE  /\ Index(UpsertAll(x, docs))
         /\ Merged(ToSet(UpsertAll(x, docs).entries), ToSet(x.entries), ToSet(docs))
         /\ Matched(x) => Matched(UpsertAll(x, docs))
  <1>1. PICK n \in Nat : n = Len(docs) /\ DOMAIN docs = 1..n
    OBVIOUS
  <1>2. PICK f : UpsertsTo(f, x, docs, n) /\ UpsertAll(x, docs) = f[n]
    <2>1. \E f : UpsertsTo(f, x, docs, n)
      BY UpsertsExist
    <2>2. \E f : f = [k \in 0..Len(docs) |-> IF k = 0 THEN x ELSE Upsert(f[k-1], docs[k])]
      BY <1>1, <2>1 DEF UpsertsTo
    <2> DEFINE upto == CHOOSE f : f = [k \in 0..Len(docs) |->
                                        IF k = 0 THEN x ELSE Upsert(f[k-1], docs[k])]
    <2>3. upto = [k \in 0..Len(docs) |-> IF k = 0 THEN x ELSE Upsert(upto[k-1], docs[k])]
      BY <2>2, Zenon
    <2>4. UpsertAll(x, docs) = upto[Len(docs)]
      BY Zenon DEF UpsertAll
    <2> QED BY <1>1, <2>3, <2>4 DEF UpsertsTo
  <1> DEFINE Upto(m) == {docs[k] : k \in 1..m}
             Good(m) == /\ Index(f[m])
                        /\ Merged(ToSet(f[m].entries), ToSet(x.entries), Upto(m))
                        /\ Matched(x) => Matched(f[m])
             S == {m \in Nat : m <= n => Good(m)}
  <1>3. 0 \in S
    <2>1. f[0] = x
      BY <1>2 DEF UpsertsTo
    <2>2. Merged(ToSet(x.entries), ToSet(x.entries), Upto(0))
      BY DEF Merged
    <2> QED BY <2>1, <2>2
  <1>4. ASSUME NEW m \in Nat, m \in S PROVE m + 1 \in S
    <2> SUFFICES ASSUME m + 1 <= n PROVE Good(m + 1)
      OBVIOUS
    <2>1. Good(m)
      BY <1>4
    <2>2. m + 1 \in 0..n /\ m + 1 # 0 /\ (m + 1) - 1 = m /\ m + 1 \in 1..n
      OBVIOUS
    <2>3. PICK d \in Doc : d = docs[m + 1]
      BY <1>1, <2>2
    <2>4. f[m + 1] = Upsert(f[m], d)
      BY <1>2, <2>2, <2>3 DEF UpsertsTo
    <2>5. /\ Index(f[m + 1])
          /\ ToSet(f[m + 1].entries) = {e \in ToSet(f[m].entries) : e.id # d.id} \cup {d}
          /\ Matched(f[m]) => Matched(f[m + 1])
      <3>1. PICK y : y = f[m]
        OBVIOUS
      <3>2. Index(y)
        BY <2>1, <3>1
      <3>3. /\ Index(Upsert(y, d))
            /\ ToSet(Upsert(y, d).entries) = {e \in ToSet(y.entries) : e.id # d.id} \cup {d}
            /\ Matched(y) => Matched(Upsert(y, d))
        BY <3>2, UpsertIs
      <3> QED BY <2>4, <3>1, <3>3
    <2>6. Upto(m + 1) = Upto(m) \cup {d}
      <3>1. 1..m + 1 = 1..m \cup {m + 1}
        OBVIOUS
      <3> QED BY <2>3, <3>1
    <2> HIDE DEF Upto
    <2>7. Merged(ToSet(f[m + 1].entries), ToSet(x.entries), Upto(m + 1))
      <3>1. Merged(ToSet(f[m].entries), ToSet(x.entries), Upto(m))
        BY <2>1
      <3> QED BY <2>5, <2>6, <3>1 DEF Merged
    <2> QED BY <2>1, <2>5, <2>7
  <1> HIDE DEF S
  <1>5. Nat \subseteq S
    BY <1>3, <1>4, Induct
  <1>6. Good(n)
    <2>1. n \in S
      BY <1>5
    <2> HIDE DEF Good
    <2> QED BY <2>1 DEF S
  <1>7. Upto(n) = ToSet(docs)
    BY <1>1 DEF ToSet
  <1> QED BY <1>2, <1>6, <1>7
-----------------------------------------------------------------------------
(* Items in their order, and slices of sequences. *)

Sorted(q, n, s) == q \in [1..n -> s] /\ \A j, k \in 1..n : j < k => q[j] < q[k]

LEMMA SortedExists ==
  ASSUME NEW s \in SUBSET Nat, IsFiniteSet(s)
  PROVE  \E q : Sorted(q, Cardinality(s), s)
  <1> DEFINE Sortable(t) == \E q : Sorted(q, Cardinality(t), t)
             S == {m \in Nat : \A t \in SUBSET Nat :
                                   IsFiniteSet(t) /\ Cardinality(t) = m => Sortable(t)}
  <1>1. 0 \in S
    <2>1. ASSUME NEW t \in SUBSET Nat, Cardinality(t) = 0 PROVE Sortable(t)
      <3>1. PICK q : q = [k \in 1..0 |-> 0]
        OBVIOUS
      <3>2. Sorted(q, 0, t)
        BY <3>1 DEF Sorted
      <3> QED BY <2>1, <3>2
    <2> HIDE DEF Sortable
    <2> QED BY <2>1
  <1>2. ASSUME NEW m \in Nat, m \in S PROVE m + 1 \in S
    <2>1. ASSUME NEW t \in SUBSET Nat, IsFiniteSet(t), Cardinality(t) = m + 1 PROVE Sortable(t)
      <3>1. t # {}
        BY <2>1, FS_EmptySet
      <3>2. PICK x \in t : \A y \in t : x <= y
        BY <3>1, Least
      <3>3. PICK u \in SUBSET Nat : u = t \ {x}
        OBVIOUS
      <3>4. IsFiniteSet(u) /\ Cardinality(u) = m
        <4>1. /\ IsFiniteSet(t \ {x})
              /\ Cardinality(t \ {x}) = IF x \in t THEN Cardinality(t) - 1 ELSE Cardinality(t)
          BY <2>1, FS_RemoveElement
        <4> QED BY <2>1, <3>2, <3>3, <4>1
      <3>5. Sortable(u)
        <4> HIDE DEF Sortable
        <4> QED BY <1>2, <3>4
      <3>6. PICK q : Sorted(q, m, u)
        BY <3>4, <3>5
      <3>7. PICK p : p = [k \in 1..m + 1 |-> IF k = 1 THEN x ELSE q[k - 1]]
        OBVIOUS
      <3>8. q \in [1..m -> u] /\ \A j, k \in 1..m : j < k => q[j] < q[k]
        BY <3>6 DEF Sorted
      <3>9. \A k \in 1..m + 1 : k = 1 \/ (k - 1 \in 1..m /\ p[k] = q[k - 1] /\ p[k] \in u)
        BY <3>7, <3>8
      <3>10. p[1] = x /\ \A y \in u : y \in t /\ y \in Nat /\ x < y
        BY <3>2, <3>3, <3>7
      <3>11. p \in [1..m + 1 -> t]
        BY <3>2, <3>7, <3>9, <3>10
      <3>12. ASSUME NEW j \in 1..m + 1, NEW k \in 1..m + 1, j < k PROVE p[j] < p[k]
        <4>1. k - 1 \in 1..m /\ p[k] = q[k - 1] /\ p[k] \in u
          BY <3>9, <3>12
        <4>2. CASE j = 1
          BY <3>10, <4>1, <4>2
        <4>3. CASE j # 1
          <5>1. j - 1 \in 1..m /\ p[j] = q[j - 1] /\ j - 1 < k - 1
            BY <3>9, <3>12, <4>3
          <5> QED BY <3>8, <4>1, <5>1
        <4> QED BY <4>2, <4>3
      <3>13. Sorted(p, m + 1, t)
        BY <3>11, <3>12 DEF Sorted
      <3> QED BY <2>1, <3>13
    <2> HIDE DEF Sortable
    <2> QED BY <2>1
  <1>3. Cardinality(s) \in Nat
    BY FS_CardinalityType
  <1> HIDE DEF S
  <1>4. Nat \subseteq S
    BY <1>1, <1>2, Induct
  <1>5. Cardinality(s) \in S
    BY <1>3, <1>4
  <1>6. Sortable(s)
    <2> HIDE DEF Sortable
    <2> QED BY <1>5 DEF S
  <1> QED BY <1>6

LEMMA AscendingIs ==
  ASSUME NEW s \in SUBSET Items
  PROVE  /\ IsFiniteSet(s) /\ Cardinality(s) \in Nat
         /\ Sorted(Ascending[s], Cardinality(s), s)
         /\ \A i \in s : \E k \in 1..Cardinality(s) : Ascending[s][k] = i
  <1>1. IsFiniteSet(s) /\ s \in SUBSET Nat
    BY ItemsAssumption, FS_Subset
  <1>2. PICK n \in Nat : n = Cardinality(s)
    BY <1>1, FS_CardinalityType
  <1>3. PICK p : Sorted(p, n, s)
    BY <1>1, <1>2, SortedExists
  <1> DEFINE Order(q) == \A j, k \in DOMAIN q : j < k => q[j] < q[k]
  <1>4. Ascending[s] = CHOOSE q \in [1..n -> s] : Order(q)
    BY <1>2 DEF Ascending
  <1>5. p \in [1..n -> s] /\ Order(p)
    BY <1>3 DEF Sorted
  <1>6. Ascending[s] \in [1..n -> s] /\ Order(Ascending[s])
    <2> HIDE DEF Order
    <2> QED BY <1>4, <1>5
  <1>7. PICK q : q = Ascending[s] /\ q \in [1..n -> s] /\ Sorted(q, n, s)
    BY <1>6 DEF Sorted
  <1>8. \A j, k \in 1..n : j < k => q[j] < q[k]
    BY <1>7 DEF Sorted
  <1>9. q \in Injection(1..n, s)
    <2>1. ASSUME NEW j \in 1..n, NEW k \in 1..n, q[j] = q[k] PROVE j = k
      <3>1. j < k \/ k < j \/ j = k
        OBVIOUS
      <3>2. q[j] \in Nat
        BY <1>1, <1>7
      <3> QED BY <1>8, <2>1, <3>1, <3>2
    <2> QED BY <1>7, <2>1 DEF Injection, IsInjective
  <1>10. Cardinality(1..n) = n
    BY FS_Interval
  <1>11. q \in Surjection(1..n, s)
    BY <1>1, <1>2, <1>9, <1>10, FS_Injection
  <1>12. \A i \in s : \E k \in 1..n : q[k] = i
    BY <1>11 DEF Surjection
  <1> QED BY <1>1, <1>2, <1>7, <1>12

LEMMA RankIs ==
  ASSUME NEW s \in SUBSET Items, NEW k \in 1..Cardinality(s)
  PROVE  Rank(s, Ascending[s][k]) = k
  <1>q. PICK n \in Nat : n = Cardinality(s)
    BY AscendingIs
  <1>1. PICK q : n = Cardinality(s) /\ q = Ascending[s]
    BY <1>q
  <1>2. /\ q \in [1..n -> s]
        /\ \A j, m \in 1..n : j < m => q[j] < q[m]
        /\ \A i \in s : \E m \in 1..n : q[m] = i
    BY <1>1, AscendingIs DEF Sorted
  <1>3. k \in 1..n /\ s \subseteq Nat
    BY <1>1, ItemsAssumption
  <1> DEFINE t == {j \in s : j <= q[k]}
  <1>4. PICK g : g = [m \in 1..k |-> q[m]]
    OBVIOUS
  <1>5. \A m \in 1..k : g[m] = q[m] /\ m \in 1..n /\ q[m] \in Nat /\ q[m] \in s
    <2>1. \A m \in 1..k : m \in 1..n
      BY <1>3
    <2>2. \A m \in 1..n : q[m] \in s
      BY <1>2
    <2> QED BY <1>3, <1>4, <2>1, <2>2
  <1>6. \A m \in 1..k : q[m] <= q[k]
    <2>1. ASSUME NEW m \in 1..k PROVE q[m] <= q[k]
      <3>1. m = k \/ m < k
        OBVIOUS
      <3> QED BY <1>2, <1>3, <1>5, <2>1, <3>1
    <2> QED BY <2>1
  <1>7. g \in [1..k -> t]
    BY <1>4, <1>5, <1>6
  <1>8. g \in Injection(1..k, t)
    <2>1. ASSUME NEW j \in 1..k, NEW m \in 1..k, g[j] = g[m] PROVE j = m
      <3>1. j < m \/ m < j \/ j = m
        OBVIOUS
      <3>2. q[j] = q[m] /\ q[j] \in Nat /\ j \in 1..n /\ m \in 1..n
        BY <1>5, <2>1
      <3> QED BY <1>2, <3>1, <3>2
    <2> QED BY <1>7, <2>1 DEF Injection, IsInjective
  <1>9. g \in Surjection(1..k, t)
    <2>1. ASSUME NEW i \in t PROVE \E m \in 1..k : g[m] = i
      <3>1. PICK m \in 1..n : q[m] = i
        BY <1>2
      <3>2. ~(k < m)
        <4>1. q[m] <= q[k] /\ q[m] \in Nat /\ q[k] \in Nat
          BY <1>2, <1>3, <2>1, <3>1
        <4> QED BY <1>2, <1>3, <4>1
      <3>3. m \in 1..k
        BY <1>3, <3>2
      <3> QED BY <1>5, <3>1, <3>3
    <2> QED BY <1>7, <2>1 DEF Surjection
  <1>10. ExistsBijection(1..k, t)
    BY <1>8, <1>9 DEF ExistsBijection, Bijection
  <1>11. IsFiniteSet(1..k) /\ Cardinality(1..k) = k
    BY FS_Interval
  <1>12. Cardinality(t) = k
    BY <1>10, <1>11, FS_Bijection
  <1> QED BY <1>1, <1>12 DEF Rank

LEMMA ListedIs ==
  ASSUME lib \in [Items -> Texts \cup {Absent}], NEW s \in SUBSET Present
  PROVE  /\ Listed(s) \in Seq(Doc) /\ Unique(Listed(s))
         /\ Cardinality(s) \in Nat /\ Len(Listed(s)) = Cardinality(s)
         /\ ToSet(Listed(s)) = {[id |-> i, text |-> lib[i]] : i \in s}
         /\ \A i \in s : /\ Rank(s, i) \in 1..Cardinality(s)
                         /\ Listed(s)[Rank(s, i)] = [id |-> i, text |-> lib[i]]
  <1>1. s \in SUBSET Items /\ \A i \in s : lib[i] \in Texts
    BY DEF Present
  <1>q. PICK n \in Nat : n = Cardinality(s)
    BY <1>1, AscendingIs
  <1>2. PICK q : n = Cardinality(s) /\ q = Ascending[s]
    BY <1>q
  <1>3. /\ q \in [1..n -> s]
        /\ \A j, m \in 1..n : j < m => q[j] < q[m]
        /\ \A i \in s : \E m \in 1..n : q[m] = i
    BY <1>1, <1>2, AscendingIs DEF Sorted
  <1>4. PICK l : l = [k \in 1..n |-> [id |-> q[k], text |-> lib[q[k]]]]
    OBVIOUS
  <1>5. Listed(s) = l
    BY <1>2, <1>4 DEF Listed
  <1>6. \A i \in s : [id |-> i, text |-> lib[i]] \in Doc
    BY <1>1 DEF Doc
  <1>7. \A k \in 1..n : l[k] = [id |-> q[k], text |-> lib[q[k]]] /\ q[k] \in s /\ q[k] \in Nat
    BY <1>1, <1>3, <1>4, ItemsAssumption
  <1>8. l \in Seq(Doc) /\ Len(l) = n /\ DOMAIN l = 1..n
    BY <1>4, <1>6, <1>7
  <1>9. Unique(l)
    <2>1. ASSUME NEW j \in 1..n, NEW k \in 1..n, l[j].id = l[k].id PROVE j = k
      <3>1. q[j] = q[k] /\ q[j] \in Nat
        <4>1. /\ l[j] = [id |-> q[j], text |-> lib[q[j]]]
              /\ l[k] = [id |-> q[k], text |-> lib[q[k]]]
              /\ q[j] \in Nat
          BY <1>7
        <4>2. l[j].id = q[j] /\ l[k].id = q[k]
          BY <4>1
        <4> QED BY <2>1, <4>1, <4>2
      <3>2. j < k \/ k < j \/ j = k
        OBVIOUS
      <3> QED BY <1>3, <3>1, <3>2
    <2> QED BY <1>8, <2>1 DEF Unique
  <1>10. ToSet(l) = {[id |-> i, text |-> lib[i]] : i \in s}
    <2>1. \A k \in 1..n : l[k] \in {[id |-> i, text |-> lib[i]] : i \in s}
      BY <1>7
    <2>2. ASSUME NEW i \in s PROVE [id |-> i, text |-> lib[i]] \in ToSet(l)
      <3>1. PICK k \in 1..n : q[k] = i
        BY <1>3
      <3>2. l[k] = [id |-> i, text |-> lib[i]]
        BY <1>7, <3>1
      <3> QED BY <1>8, <3>2 DEF ToSet
    <2> QED BY <1>8, <2>1, <2>2 DEF ToSet
  <1>11. ASSUME NEW i \in s
         PROVE  Rank(s, i) \in 1..n /\ l[Rank(s, i)] = [id |-> i, text |-> lib[i]]
    <2>1. PICK k \in 1..n : q[k] = i
      BY <1>3
    <2>2. Rank(s, i) = k
      BY <1>1, <1>2, <2>1, RankIs
    <2> QED BY <1>7, <2>1, <2>2
  <1> QED BY <1>2, <1>5, <1>8, <1>9, <1>10, <1>11

LEMMA PageOf ==
  ASSUME NEW s \in Seq(Doc), NEW k \in Nat, k >= 1
  PROVE  /\ Slice(s, k, Page) \in Seq(Doc)
         /\ k > Len(s) => Slice(s, k, Page) = <<>>
         /\ k <= Len(s) => Len(Slice(s, k, Page)) \in 1..Len(s) - k + 1
         /\ k <= Len(s) => \A j \in 1..Len(Slice(s, k, Page)) : Slice(s, k, Page)[j] = s[k + j - 1]
  <1>1. PICK l \in Nat : l = Len(s)
    OBVIOUS
  <1>2. PICK n \in Nat \ {0} : n = Page
    BY SizesAssumption
  <1>3. PICK m \in Nat : m = IF l <= k + n - 1 THEN l ELSE k + n - 1
    OBVIOUS
  <1>4. Slice(s, k, Page) = SubSeq(s, k, m)
    BY <1>1, <1>2, <1>3, MinOfTwo DEF Slice
  <1>5. \A j \in k..m : s[j] \in Doc
    BY <1>1, <1>3
  <1>6. CASE k > l
    <2>1. SubSeq(s, k, m) = <<>>
      BY <1>1, <1>3, <1>6
    <2> QED BY <1>1, <1>4, <1>6, <2>1
  <1>7. CASE k <= l
    <2>1. PICK p : p = SubSeq(s, k, m)
      OBVIOUS
    <2>2. /\ p \in Seq(Doc) /\ Len(p) = m - k + 1
          /\ \A j \in 1..m - k + 1 : p[j] = s[k + j - 1]
      BY <1>1, <1>3, <1>5, <1>7, <2>1
    <2> QED BY <1>1, <1>3, <1>4, <1>7, <2>1, <2>2
  <1> QED BY <1>1, <1>6, <1>7

LEMMA SplitIs ==
  ASSUME NEW s \in Seq(Doc)
  PROVE  /\ Slice(s, 1, Batch) \in Seq(Doc)
         /\ SubSeq(s, Batch + 1, Len(s)) \in Seq(Doc)
         /\ ToSet(s) = ToSet(Slice(s, 1, Batch)) \cup ToSet(SubSeq(s, Batch + 1, Len(s)))
  <1>1. PICK l \in Nat : l = Len(s) /\ DOMAIN s = 1..l
    OBVIOUS
  <1>2. Batch \in Nat \ {0}
    BY SizesAssumption
  <1>3. PICK m \in Nat : m = IF l <= Batch THEN l ELSE Batch
    BY <1>2
  <1>4. Slice(s, 1, Batch) = SubSeq(s, 1, m)
    <2>1. Min({l, 1 + Batch - 1}) = m
      BY <1>2, <1>3, MinOfTwo
    <2> QED BY <1>1, <2>1 DEF Slice
  <1>5. PICK p, r : p = SubSeq(s, 1, m) /\ r = SubSeq(s, Batch + 1, l)
    OBVIOUS
  <1>6. /\ p \in Seq(Doc) /\ DOMAIN p = 1..m
        /\ \A j \in 1..m : p[j] = s[j]
    BY <1>1, <1>2, <1>3, <1>5
  <1>7. /\ r \in Seq(Doc) /\ DOMAIN r = 1..(IF l <= Batch THEN 0 ELSE l - Batch)
        /\ \A j \in DOMAIN r : r[j] = s[Batch + j]
    BY <1>1, <1>2, <1>5
  <1>8. ToSet(p) \cup ToSet(r) \subseteq ToSet(s)
    <2>1. \A j \in 1..m : j \in 1..l
      BY <1>2, <1>3
    <2>2. \A j \in DOMAIN r : Batch + j \in 1..l
      BY <1>2, <1>7
    <2> QED BY <1>1, <1>6, <1>7, <2>1, <2>2 DEF ToSet
  <1>9. ASSUME NEW j \in 1..l PROVE s[j] \in ToSet(p) \cup ToSet(r)
    <2>1. CASE j <= Batch
      <3>1. j \in 1..m
        BY <1>2, <1>3, <2>1
      <3> QED BY <1>6, <3>1 DEF ToSet
    <2>2. CASE j > Batch
      <3>1. j - Batch \in DOMAIN r /\ Batch + (j - Batch) = j
        BY <1>2, <1>7, <2>2
      <3>2. r[j - Batch] = s[j]
        BY <1>7, <3>1
      <3> QED BY <3>1, <3>2 DEF ToSet
    <2> QED BY <1>2, <2>1, <2>2
  <1>10. ToSet(s) = {s[j] : j \in 1..l}
    BY <1>1 DEF ToSet
  <1>11. ToSet(s) = ToSet(p) \cup ToSet(r)
    BY <1>8, <1>9, <1>10
  <1> QED BY <1>1, <1>4, <1>5, <1>6, <1>7, <1>11
-----------------------------------------------------------------------------
(* What the steps do to the job and the lists. *)

LEMMA KeptTypes ==
  ASSUME Kept
  PROVE  /\ {ix.entries, ix.vectors, disk.entries, disk.vectors} \subseteq Seq(Doc)
         /\ \A i \in Items : Cardinality(Position(ix, i)) <= 1 /\ Cardinality(Position(disk, i)) <= 1
  <1>1. {ix.entries, ix.vectors, disk.entries, disk.vectors} \subseteq Seq(Doc)
    BY DEF Kept, Index
  <1>2. ASSUME NEW x, Unique(x.entries), NEW i PROVE Cardinality(Position(x, i)) <= 1
    <2>1. CASE Position(x, i) = {}
      BY <2>1, FS_EmptySet
    <2>2. CASE Position(x, i) # {}
      <3>1. PICK k : k \in Position(x, i)
        BY <2>2
      <3>2. Position(x, i) = {k}
        BY <1>2, <3>1 DEF Position, Unique
      <3> QED BY <3>2, FS_Singleton
    <2> QED BY <2>1, <2>2
  <1> QED BY <1>1, <1>2 DEF Kept, Index

LEMMA EmptyIs == Index(Empty) /\ Matched(Empty) /\ ToSet(Empty.entries) = {} /\ Unique(Empty.entries)
  BY DEF Empty, Index, Unique, Matched, ToSet

LEMMA IdleIs == Idle \in Job /\ NoChanges \in Changes
  BY DEF Idle, Job, NoChanges, Changes

LEMMA CompareIs ==
  ASSUME Index(ix), job \in Job, state \in {"LoadingModel", "Indexing", "Ready", "Failed"},
         NEW docs \in Seq(Doc), NEW ids, Compare(docs, ids)
  PROVE  /\ Index(ix')
         /\ ToSet(ix'.entries) = {e \in ToSet(ix.entries) : e.id \notin ids}
         /\ Matched(ix) => Matched(ix')
         /\ job' \in Job /\ job'.full = job.full /\ job'.changes = NoChanges
         /\ job'.todo \in Seq(Doc)
         /\ ToSet(job'.todo) = ToSet(docs) \ ToSet(ix'.entries)
         /\ task' \in {"embed", "vectors", "finish"}
         /\ task' = "finish" => job'.todo = <<>> /\ ix' = ix
         /\ state' \in {"LoadingModel", "Indexing", "Ready", "Failed"}
  <1>1. /\ Index(ix')
        /\ ToSet(ix'.entries) = {e \in ToSet(ix.entries) : e.id \notin ids}
        /\ Matched(ix) => Matched(ix')
        /\ ~Removed(ix, ids) => ix' = ix
    BY RemoveIs DEF Compare
  <1>2. PICK todo \in Seq(Doc) :
            /\ ToSet(todo) = ToSet(docs) \ ToSet(ix'.entries)
            /\ Proceed(todo, Removed(ix, ids))
    <2>1. PICK todo : todo = Changed(ix', docs) /\ Proceed(todo, Removed(ix, ids))
      BY DEF Compare
    <2> QED BY <2>1, ChangedIs
  <1>3. PICK b \in BOOLEAN : b = (todo = <<>>)
    OBVIOUS
  <1>4. job' = [job EXCEPT !.todo = todo, !.docs = <<>>, !.changes = NoChanges, !.last = b]
    BY <1>2, <1>3, Zenon DEF Proceed
  <1>5. job' \in Job /\ job'.full = job.full /\ job'.changes = NoChanges /\ job'.todo = todo
    <2>1. PICK e \in Seq(Doc), c \in Changes : e = <<>> /\ c = NoChanges
      <3>1. <<>> \in Seq(Doc)
        OBVIOUS
      <3> QED BY <3>1, IdleIs, Zenon
    <2>2. job' = [job EXCEPT !.todo = todo, !.docs = e, !.changes = c, !.last = b]
      BY <1>4, <2>1
    <2>3. job' \in Job
      BY <2>2 DEF Job
    <2>4. job'.full = job.full /\ job'.changes = c /\ job'.todo = todo
      BY <2>2 DEF Job
    <2> QED BY <2>1, <2>3, <2>4
  <1>6. /\ task' \in {"embed", "vectors", "finish"}
        /\ task' = "finish" => todo = <<>> /\ ~Removed(ix, ids)
        /\ state' \in {"LoadingModel", "Indexing", "Ready", "Failed"}
    BY <1>2 DEF Proceed
  <1> QED BY <1>1, <1>2, <1>5, <1>6

LEMMA PageIs ==
  ASSUME IndInv, FetchPage
  PROVE  \E docs \in Seq(Doc) :
            /\ Len(job.docs) <= Len(docs)
            /\ ToSet(docs) \subseteq ToSet(job.docs) \cup {[id |-> i, text |-> lib[i]] : i \in Present}
            /\ ToSet(job.docs) \subseteq ToSet(docs)
            /\ \A i \in Present :
                  Rank(Present, i) <= Len(docs) /\ Rank(Present, i) > Len(job.docs)
                      => [id |-> i, text |-> lib[i]] \in ToSet(docs)
            /\ \/ /\ Compare(docs, Gone(docs))
                  /\ \A i \in Present : Rank(Present, i) <= Len(docs)
               \/ job' = [job EXCEPT !.docs = docs] /\ UNCHANGED <<task, ix, state>>
  <1>1. lib \in [Items -> Texts \cup {Absent}] /\ Present \in SUBSET Present /\ job.docs \in Seq(Doc)
    BY DEF IndInv, Typed, Job
  <1>2. PICK n \in Nat, list \in Seq(Doc) :
            /\ list = Listed(Present) /\ Len(list) = n /\ DOMAIN list = 1..n
            /\ ToSet(list) = {[id |-> i, text |-> lib[i]] : i \in Present}
            /\ \A i \in Present : /\ Rank(Present, i) \in 1..n
                                  /\ list[Rank(Present, i)] = [id |-> i, text |-> lib[i]]
    BY <1>1, ListedIs
  <1>3. PICK r \in Nat, read \in Seq(Doc) : read = job.docs /\ r = Len(read) /\ DOMAIN read = 1..r
    BY <1>1
  <1>4. PICK page : page = Slice(list, r + 1, Page)
    OBVIOUS
  <1>5. /\ page \in Seq(Doc)
        /\ r + 1 > n => page = <<>>
        /\ r + 1 <= n => /\ Len(page) \in 1..n - r
                         /\ \A j \in 1..Len(page) : page[j] = list[r + j]
    <2>1. PICK k \in Nat : k = r + 1 /\ k >= 1
      OBVIOUS
    <2>2. /\ page \in Seq(Doc)
          /\ k > n => page = <<>>
          /\ k <= n => Len(page) \in 1..n - k + 1
          /\ k <= n => \A j \in 1..Len(page) : page[j] = list[k + j - 1]
      <3>1. page = Slice(list, k, Page)
        BY <1>4, <2>1
      <3>2. list \in Seq(Doc) /\ k >= 1 /\ n = Len(list)
        BY <1>2, <2>1
      <3> QED BY <3>1, <3>2, PageOf
    <2>3. n - k + 1 = n - r /\ \A j \in Int : k + j - 1 = r + j
      BY <2>1
    <2>4. \A j \in 1..Len(page) : j \in Int
      OBVIOUS
    <2> QED BY <2>1, <2>2, <2>3, <2>4
  <1>6. PICK m \in Nat : m = Len(page) /\ DOMAIN page = 1..m
    BY <1>5
  <1>7. PICK docs \in Seq(Doc) : docs = read \o page
    <2>1. page \in Seq(Doc)
      BY <1>5
    <2>2. read \o page \in Seq(Doc)
      BY <2>1
    <2> QED BY <2>2
  <1>8. /\ Len(docs) = r + m /\ DOMAIN docs = 1..r + m
        /\ \A j \in 1..r : docs[j] = read[j]
        /\ \A j \in 1..m : docs[r + j] = page[j]
    BY <1>3, <1>5, <1>6, <1>7
  <1>9. ToSet(read) \subseteq ToSet(docs)
    BY <1>3, <1>8 DEF ToSet
  <1>10. \A j \in 1..m : page[j] \in ToSet(list) /\ page[j] = list[r + j] /\ r + j \in 1..n
    <2>1. ASSUME NEW j \in 1..m PROVE page[j] = list[r + j] /\ r + j \in 1..n
      <3>1. r + 1 <= n
        BY <1>5, <1>6, <2>1
      <3> QED BY <1>5, <1>6, <2>1, <3>1
    <2> QED BY <1>2, <2>1 DEF ToSet
  <1>11. ToSet(docs) \subseteq ToSet(read) \cup ToSet(list)
    <2>1. ASSUME NEW k \in 1..r + m PROVE docs[k] \in ToSet(read) \cup ToSet(list)
      <3>1. CASE k <= r
        <4>1. k \in 1..r /\ docs[k] = read[k]
          BY <1>8, <3>1
        <4> QED BY <1>3, <4>1 DEF ToSet
      <3>2. CASE k > r
        <4>1. k - r \in 1..m /\ r + (k - r) = k
          BY <3>2
        <4>2. docs[k] = page[k - r]
          BY <1>8, <4>1
        <4> QED BY <1>10, <4>1, <4>2
      <3> QED BY <3>1, <3>2
    <2> QED BY <1>8, <2>1 DEF ToSet
  <1>12. ASSUME NEW i \in Present, Rank(Present, i) <= Len(docs), Rank(Present, i) > r
         PROVE  [id |-> i, text |-> lib[i]] \in ToSet(docs)
    <2>1. PICK k \in 1..n : k = Rank(Present, i) /\ list[k] = [id |-> i, text |-> lib[i]]
      BY <1>2
    <2>2. k - r \in 1..m /\ r + (k - r) = k
      BY <1>8, <1>12, <2>1
    <2>3. docs[r + (k - r)] = page[k - r] /\ page[k - r] = list[r + (k - r)]
      BY <1>8, <1>10, <2>2
    <2>4. docs[k] = [id |-> i, text |-> lib[i]] /\ k \in DOMAIN docs
      BY <1>8, <2>1, <2>2, <2>3
    <2> QED BY <2>4 DEF ToSet
  <1>13. \/ (page = <<>> \/ Len(docs) >= n) /\ Compare(docs, Gone(docs))
         \/ job' = [job EXCEPT !.docs = docs] /\ UNCHANGED <<task, ix, state>>
    BY <1>2, <1>3, <1>4, <1>7, Zenon DEF FetchPage
  <1>14. ASSUME page = <<>> \/ Len(docs) >= n
         PROVE  \A i \in Present : Rank(Present, i) <= Len(docs)
    <2>1. n <= r + m
      <3>1. CASE page = <<>>
        <4>1. m = 0
          BY <1>6, <3>1
        <4>2. ~(r + 1 <= n)
          BY <1>5, <1>6, <4>1
        <4> QED BY <4>2
      <3>2. CASE Len(docs) >= n
        BY <1>8, <3>2
      <3> QED BY <1>14, <3>1, <3>2
    <2>2. Len(docs) = r + m
      BY <1>8
    <2>3. \A i \in Present : Rank(Present, i) \in 1..n
      BY <1>2
    <2> QED BY <2>1, <2>2, <2>3
  <1>15. Len(job.docs) <= Len(docs)
    BY <1>3, <1>8
  <1> QED BY <1>2, <1>3, <1>9, <1>11, <1>12, <1>13, <1>14, <1>15
-----------------------------------------------------------------------------
(* Types, and what the job holds at each place of run. *)

LEMMA TypedInv ==
  ASSUME IndInv, [Next]_vars
  PROVE  Typed' /\ Working'
  <1> USE DEF Typed, Working, jellyfin, listener, history
  <1>a. Typed /\ Working /\ Index(ix)
    BY DEF IndInv, Kept
  <1>b. Idle \in Job /\ NoChanges \in Changes /\ Idle.full = FALSE /\ Idle.changes = NoChanges
    BY IdleIs DEF Idle
  <1>c. job.docs \in Seq(Doc) /\ job.todo \in Seq(Doc) /\ job.changes \in Changes /\ job.since \in Nat
    BY <1>a DEF Job
  <1>d. Trouble => trouble' \in 0..MaxTrouble
    BY <1>a, BoundsAssumption DEF Trouble
  <1>1. CASE Load
    BY <1>a, <1>d, <1>1 DEF Load
  <1>2. CASE ModelFails
    BY <1>a, <1>d, <1>2 DEF ModelFails
  <1>3. CASE Loop
    <2>1. CASE due
      <3>1. job' = [Idle EXCEPT !.full = TRUE] /\ task' = "pages" /\ excuse' = {}
        BY <1>3, <2>1 DEF Loop
      <3>2. job' \in Job /\ job'.full = TRUE /\ job'.changes = NoChanges
        BY <1>b, <3>1 DEF Job
      <3> QED BY <1>a, <1>3, <3>1, <3>2 DEF Loop
    <2>2. CASE ~due
      BY <1>a, <1>3, <2>2 DEF Loop
    <2> QED BY <2>1, <2>2
  <1>4. CASE Receive
    <2>1. Head(events) \in Changes /\ Tail(events) \in Seq(Changes)
      BY <1>a, <1>4 DEF Receive
    <2>2. pending' \in Changes
      <3>1. pending' = Extend(pending, Head(events))
        BY <1>4 DEF Receive
      <3> QED BY <1>a, <2>1, <3>1 DEF Extend, Changes
    <2>3. due' \in BOOLEAN
      BY <1>a, <1>4 DEF Receive, DueAfter
    <2> QED BY <1>a, <1>4, <2>1, <2>2, <2>3 DEF Receive
  <1>5. CASE QuietOver
    <2>1. job' = [Idle EXCEPT !.changes = pending]
      BY <1>5 DEF QuietOver
    <2>2. job' \in Job /\ job'.full = FALSE
      BY <1>a, <1>b, <2>1 DEF Job
    <2> QED BY <1>a, <1>b, <1>5, <2>2 DEF QuietOver
  <1>6. CASE WakeUp
    BY <1>a, <1>6 DEF WakeUp
  <1>7. CASE SixHours
    BY <1>a, <1>7 DEF SixHours
  <1>8. CASE FetchPage
    <2>1. PICK docs \in Seq(Doc) :
              \/ Compare(docs, Gone(docs))
              \/ job' = [job EXCEPT !.docs = docs] /\ UNCHANGED <<task, ix, state>>
      BY <1>8, PageIs
    <2>2. task = "pages" /\ UNCHANGED <<jellyfin, listener, events, due, pending, disk, history, trouble>>
      BY <1>8 DEF FetchPage
    <2>3. CASE Compare(docs, Gone(docs))
      <3>1. /\ job' \in Job /\ job'.changes = NoChanges
            /\ task' \in {"embed", "vectors", "finish"}
            /\ task' = "finish" => job'.todo = <<>>
            /\ state' \in {"LoadingModel", "Indexing", "Ready", "Failed"}
        BY <1>a, <2>3, CompareIs
      <3> QED BY <1>a, <2>2, <3>1
    <2>4. CASE job' = [job EXCEPT !.docs = docs] /\ UNCHANGED <<task, ix, state>>
      <3>1. job' \in Job /\ job'.full = job.full /\ job'.changes = job.changes
        BY <1>a, <2>4 DEF Job
      <3> QED BY <1>a, <2>2, <2>4, <3>1
    <2> QED BY <2>1, <2>3, <2>4
  <1>9. CASE Lookup
    <2>1. /\ Compare(Listed(job.changes.changed \cap Present), job.changes.removed)
          /\ task = "lookup" /\ UNCHANGED <<jellyfin, listener, events, due, pending, disk, torn, unsaved, trouble>>
          /\ excuse' \subseteq excuse \cup {"outdated"}
      BY <1>9 DEF Lookup
    <2>2. Listed(job.changes.changed \cap Present) \in Seq(Doc)
      BY <1>a, ListedIs
    <2>3. /\ job' \in Job /\ job'.changes = NoChanges
          /\ task' \in {"embed", "vectors", "finish"}
          /\ task' = "finish" => job'.todo = <<>>
          /\ state' \in {"LoadingModel", "Indexing", "Ready", "Failed"}
      BY <1>a, <2>1, <2>2, CompareIs
    <2> QED BY <1>a, <2>1, <2>3
  <1>10. CASE Embed
    <2>1. PICK batch, rest, since :
              /\ batch = Slice(job.todo, 1, Batch)
              /\ rest = SubSeq(job.todo, Batch + 1, Len(job.todo))
              /\ since = job.since + Len(batch)
      OBVIOUS
    <2>2. batch \in Seq(Doc) /\ rest \in Seq(Doc)
      BY <1>c, <2>1, SplitIs
    <2>3. since \in Nat
      BY <1>c, <2>1, <2>2
    <2>4. PICK b \in BOOLEAN : b = (rest = <<>>)
      OBVIOUS
    <2>5. \/ job' = [job EXCEPT !.todo = rest, !.since = 0] /\ task' = "vectors"
          \/ /\ job' = [job EXCEPT !.todo = rest, !.since = since, !.last = b]
             /\ task' = IF rest = <<>> THEN "vectors" ELSE "embed"
      BY <1>10, <2>1, <2>4, Zenon DEF Embed
    <2>6. job' \in Job /\ job'.changes = job.changes /\ task' \in {"vectors", "embed"}
      <3>1. CASE job' = [job EXCEPT !.todo = rest, !.since = 0] /\ task' = "vectors"
        BY <1>a, <2>2, <3>1 DEF Job
      <3>2. CASE /\ job' = [job EXCEPT !.todo = rest, !.since = since, !.last = b]
                 /\ task' = IF rest = <<>> THEN "vectors" ELSE "embed"
        BY <1>a, <2>2, <2>3, <3>2 DEF Job
      <3> QED BY <2>5, <3>1, <3>2
    <2> QED BY <1>a, <1>10, <2>6 DEF Embed
  <1>11. CASE RenameVectors
    BY <1>a, <1>11 DEF RenameVectors
  <1>12. CASE RenameEntries
    <2>1. PICK b \in BOOLEAN : b = (job.todo = <<>>)
      OBVIOUS
    <2>2. job' = [job EXCEPT !.last = b]
      BY <1>12, <2>1, Zenon DEF RenameEntries
    <2>3. job' \in Job /\ job'.changes = job.changes /\ job'.todo = job.todo
      BY <1>a, <2>2 DEF Job
    <2>4. /\ task = "entries" /\ unsaved' = FALSE
          /\ task' \in {"embed", "finish", "vectors"}
          /\ task' = "finish" => job.todo = <<>>
          /\ state' \in {"Indexing", state}
      BY <1>12 DEF RenameEntries
    <2> QED BY <1>a, <1>12, <2>3, <2>4 DEF RenameEntries
  <1>13. CASE Finish
    BY <1>a, <1>b, <1>13 DEF Finish
  <1>14. CASE Fails
    <2>1. due' \in BOOLEAN /\ unsaved' \in BOOLEAN
      BY <1>a, <1>14 DEF Fails
    <2>2. state' \in {"Failed", state}
      BY <1>14 DEF Fails, StateAfterFailure
    <2> QED BY <1>a, <1>b, <1>d, <1>14, <2>1, <2>2 DEF Fails
  <1>15. CASE Connect
    <2>1. Append(events, Reconnected) \in Seq(Changes)
      BY <1>a, <1>b DEF Reconnected
    <2> QED BY <1>a, <1>15, <2>1 DEF Connect
  <1>16. CASE ConnectFails
    BY <1>a, <1>16 DEF ConnectFails
  <1>17. CASE Break
    BY <1>a, <1>d, <1>17 DEF Break
  <1>18. CASE Notice
    BY <1>a, <1>18 DEF Notice
  <1>19. CASE LibraryChanges
    <2>1. PICK i \in Items, text \in Texts \cup {Absent} :
              /\ lib' = [lib EXCEPT ![i] = text]
              /\ events' = IF ws = "up" THEN Append(events, Announce(i, text)) ELSE events
              /\ excuse' \subseteq excuse \cup {"unannounced", "shifted"}
      BY <1>19 DEF LibraryChanges
    <2>2. Announce(i, text) \in Changes
      BY DEF Announce, Changes
    <2>3. events' \in Seq(Changes)
      BY <1>a, <2>1, <2>2
    <2>4. lib' \in [Items -> Texts \cup {Absent}]
      BY <1>a, <2>1
    <2>5. changes' \in 0..MaxChanges
      BY <1>a, <1>19, BoundsAssumption DEF LibraryChanges
    <2> QED BY <1>a, <1>19, <2>1, <2>3, <2>4, <2>5 DEF LibraryChanges
  <1>20. CASE Restart
    <2>1. /\ ws' = "down" /\ tried' = FALSE /\ events' = <<>>
          /\ task' = "load" /\ due' = TRUE /\ pending' = NoChanges /\ job' = Idle
          /\ state' = "LoadingModel" /\ excuse' = {}
          /\ UNCHANGED <<jellyfin, disk, torn, unsaved>>
          /\ trouble' \in 0..MaxTrouble
      BY <1>d, <1>20 DEF Restart, Started
    <2>2. events' \in Seq(Changes)
      BY <2>1
    <2>3. Typed'
      BY <1>a, <1>b, <2>1, <2>2
    <2>4. Working'
      BY <1>b, <2>1
    <2> QED BY <2>3, <2>4
  <1>21. CASE UNCHANGED vars
    BY <1>a, <1>21 DEF vars
  <1> QED BY <1>1, <1>2, <1>3, <1>4, <1>5, <1>6, <1>7, <1>8, <1>9, <1>10, <1>11, <1>12,
             <1>13, <1>14, <1>15, <1>16, <1>17, <1>18, <1>19, <1>20, <1>21
          DEF Next, Run, Listen
-----------------------------------------------------------------------------
(* The lists in memory and on disk. *)

LEMMA ListsInv ==
  ASSUME IndInv, [Next]_vars
  PROVE  Kept' /\ OwnVectors' /\ Saved' /\ Connected'
  <1> USE DEF jellyfin, listener, history
  <1>a. /\ Kept /\ OwnVectors /\ Saved /\ Connected
        /\ Typed /\ Index(ix)
    BY DEF IndInv, Kept
  <1>1. CASE /\ UNCHANGED <<ix, disk, torn>> /\ Connected'
             /\ \/ task' \notin {"loop", "wait", "pages", "lookup", "finish", "entries"}
                \/ task' # "entries" /\ unsaved'
                \/ /\ task \in {"loop", "wait", "pages", "lookup", "finish"}
                   /\ task' # "entries" /\ unsaved' = unsaved
                \/ task' = task /\ unsaved' = unsaved
    BY <1>a, <1>1 DEF Kept, OwnVectors, Saved, Matched, Index, Unique
  <1>2. CASE Load
    <2>1. PICK saved \in {Loaded(disk), Empty} :
              /\ ix' = saved
              /\ torn' = (torn \/ ~Matched(saved))
              /\ unsaved' = (unsaved \/ saved # disk)
      BY <1>2 DEF Load
    <2>2. task' = "loop" /\ UNCHANGED <<listener, disk>>
      BY <1>2 DEF Load
    <2>3. Index(saved)
      BY <1>a, <2>1, EmptyIs DEF Loaded, Kept, Index
    <2>4. Kept'
      BY <1>a, <2>1, <2>2, <2>3 DEF Kept, Index, Unique
    <2>5. OwnVectors'
      BY <2>1 DEF OwnVectors, Matched
    <2>6. Saved' /\ Connected'
      BY <1>a, <2>1, <2>2 DEF Saved, Connected
    <2> QED BY <2>4, <2>5, <2>6
  <1>3. CASE FetchPage
    <2>1. PICK docs \in Seq(Doc) :
              \/ Compare(docs, Gone(docs))
              \/ job' = [job EXCEPT !.docs = docs] /\ UNCHANGED <<task, ix, state>>
      BY <1>3, PageIs
    <2>2. task = "pages" /\ UNCHANGED <<jellyfin, listener, events, due, pending, disk, history, trouble>>
      BY <1>3 DEF FetchPage
    <2>3. CASE Compare(docs, Gone(docs))
      <3>1. /\ Index(ix') /\ (Matched(ix) => Matched(ix'))
            /\ task' \in {"embed", "vectors", "finish"}
            /\ task' = "finish" => ix' = ix
        BY <1>a, <2>3, CompareIs DEF Typed
      <3>2. Kept' /\ OwnVectors'
        BY <1>a, <2>2, <3>1 DEF Kept, OwnVectors, Matched, Index, Unique
      <3>3. Saved' /\ Connected'
        BY <1>a, <2>2, <3>1 DEF Saved, Connected
      <3> QED BY <3>2, <3>3
    <2>4. CASE UNCHANGED <<task, ix, state>>
      BY <1>a, <1>1, <2>2, <2>4 DEF Connected
    <2> QED BY <2>1, <2>3, <2>4
  <1>4. CASE Lookup
    <2>1. /\ Compare(Listed(job.changes.changed \cap Present), job.changes.removed)
          /\ task = "lookup" /\ UNCHANGED <<jellyfin, listener, events, due, pending, disk, torn, unsaved, trouble>>
      BY <1>4 DEF Lookup
    <2>2. Listed(job.changes.changed \cap Present) \in Seq(Doc)
      BY <1>a, ListedIs DEF Typed
    <2>3. /\ Index(ix') /\ (Matched(ix) => Matched(ix'))
          /\ task' \in {"embed", "vectors", "finish"}
          /\ task' = "finish" => ix' = ix
      BY <1>a, <2>1, <2>2, CompareIs DEF Typed
    <2>4. Kept' /\ OwnVectors'
      BY <1>a, <2>1, <2>3 DEF Kept, OwnVectors, Matched, Index, Unique
    <2>5. Saved' /\ Connected'
      BY <1>a, <2>1, <2>3 DEF Saved, Connected
    <2> QED BY <2>4, <2>5
  <1>5. CASE Embed
    <2>1. ix' = UpsertAll(ix, Slice(job.todo, 1, Batch)) /\ task' \in {"vectors", "embed"}
      BY <1>5 DEF Embed
    <2>2. Slice(job.todo, 1, Batch) \in Seq(Doc)
      BY <1>a, SplitIs DEF Typed, Job
    <2>3. Index(ix') /\ (Matched(ix) => Matched(ix'))
      BY <1>a, <2>1, <2>2, UpsertAllIs
    <2>4. UNCHANGED <<listener, disk, history>>
      BY <1>5 DEF Embed
    <2>5. Kept' /\ OwnVectors'
      BY <1>a, <2>3, <2>4 DEF Kept, OwnVectors, Matched, Index, Unique
    <2>6. Saved' /\ Connected'
      BY <1>a, <2>1, <2>4 DEF Saved, Connected
    <2> QED BY <2>5, <2>6
  <1>6. CASE RenameVectors
    <2>1. /\ disk' = [disk EXCEPT !.vectors = ix.vectors] /\ task' = "entries"
          /\ UNCHANGED <<listener, ix, history>>
      BY <1>6 DEF RenameVectors
    <2>2. disk \in [entries: Seq(Doc), vectors: Seq(Doc)] /\ ix.vectors \in Seq(Doc)
      BY <1>a DEF Kept, Index
    <2>3. /\ disk' \in [entries: Seq(Doc), vectors: Seq(Doc)]
          /\ disk'.vectors = ix.vectors /\ disk'.entries = disk.entries
      BY <2>1, <2>2
    <2>4. Kept' /\ OwnVectors'
      BY <1>a, <2>1, <2>3 DEF Kept, OwnVectors, Matched, Index, Unique
    <2>5. Saved' /\ Connected'
      BY <1>a, <2>1, <2>3 DEF Saved, Connected
    <2> QED BY <2>4, <2>5
  <1>7. CASE RenameEntries
    <2>1. /\ disk' = [disk EXCEPT !.entries = ix.entries] /\ task = "entries"
          /\ task' \in {"embed", "finish", "vectors"}
          /\ UNCHANGED <<listener, ix, torn>>
      BY <1>7 DEF RenameEntries
    <2>2. PICK a \in Seq(Doc), b \in Seq(Doc), c \in Seq(Doc) :
              ix = [entries |-> a, vectors |-> b] /\ disk = [entries |-> c, vectors |-> b]
      <3>1. ix \in [entries: Seq(Doc), vectors: Seq(Doc)] /\ disk \in [entries: Seq(Doc), vectors: Seq(Doc)]
        BY <1>a DEF Kept, Index
      <3>2. disk.vectors = ix.vectors
        BY <1>a, <2>1 DEF Saved
      <3> QED BY <3>1, <3>2
    <2>3. disk' = ix
      BY <2>1, <2>2
    <2>4. Kept' /\ OwnVectors'
      BY <1>a, <2>1, <2>3 DEF Kept, OwnVectors, Matched, Index, Unique
    <2>5. Saved' /\ Connected'
      BY <1>a, <2>1, <2>3 DEF Saved, Connected
    <2> QED BY <2>4, <2>5
  <1>8. CASE Restart
    <2>1. ix' = Empty /\ task' = "load" /\ ws' = "down" /\ UNCHANGED <<disk, torn, unsaved>>
      BY <1>8 DEF Restart, Started
    <2>2. Kept' /\ OwnVectors'
      BY <1>a, <2>1, EmptyIs DEF Kept, OwnVectors, Matched, Index, Unique
    <2>3. Saved' /\ Connected'
      BY <2>1 DEF Saved, Connected
    <2> QED BY <2>2, <2>3
  <1>9. CASE ModelFails
    BY <1>a, <1>1, <1>9 DEF ModelFails, Connected
  <1>10. CASE Loop
    BY <1>a, <1>1, <1>10 DEF Loop, Connected
  <1>11. CASE Receive
    BY <1>a, <1>1, <1>11 DEF Receive, Connected
  <1>12. CASE QuietOver
    BY <1>a, <1>1, <1>12 DEF QuietOver, Connected
  <1>13. CASE WakeUp
    BY <1>a, <1>1, <1>13 DEF WakeUp, Connected
  <1>14. CASE SixHours
    BY <1>a, <1>1, <1>14 DEF SixHours, Connected
  <1>15. CASE Finish
    BY <1>a, <1>1, <1>15 DEF Finish, Connected
  <1>16. CASE Fails
    <2>1. task' = "loop" /\ UNCHANGED <<ix, disk, torn, listener>>
      BY <1>16 DEF Fails
    <2>2. CASE task \in {"pages", "lookup"}
      <3>1. unsaved' = unsaved
        BY <1>a, <1>16, <2>2 DEF Fails, Typed
      <3> QED BY <1>a, <1>1, <2>1, <2>2, <3>1 DEF Connected
    <2>3. CASE task \notin {"pages", "lookup"}
      <3>1. unsaved'
        BY <1>16, <2>3 DEF Fails
      <3> QED BY <1>a, <1>1, <2>1, <3>1 DEF Connected
    <2> QED BY <2>2, <2>3
  <1>17. CASE Connect
    BY <1>a, <1>1, <1>17 DEF Connect, Connected
  <1>18. CASE ConnectFails
    BY <1>a, <1>1, <1>18 DEF ConnectFails, Connected
  <1>19. CASE Break
    BY <1>a, <1>1, <1>19 DEF Break, Connected
  <1>20. CASE Notice
    BY <1>a, <1>1, <1>20 DEF Notice, Connected
  <1>21. CASE LibraryChanges
    BY <1>a, <1>1, <1>21 DEF LibraryChanges, Connected
  <1>22. CASE UNCHANGED vars
    BY <1>a, <1>1, <1>22 DEF vars, Connected
  <1> QED BY <1>2, <1>3, <1>4, <1>5, <1>6, <1>7, <1>8, <1>9, <1>10, <1>11, <1>12,
             <1>13, <1>14, <1>15, <1>16, <1>17, <1>18, <1>19, <1>20, <1>21, <1>22
          DEF Next, Run, Listen
-----------------------------------------------------------------------------
(* No change of the library is lost. *)

LEMMA AppendIs ==
  ASSUME NEW s \in Seq(Changes), NEW c \in Changes
  PROVE  ToSet(Append(s, c)) = ToSet(s) \cup {c}
  <1>1. PICK n \in Nat : n = Len(s) /\ DOMAIN s = 1..n
    OBVIOUS
  <1>2. PICK t \in Seq(Changes) : t = Append(s, c)
    <2>1. Append(s, c) \in Seq(Changes)
      OBVIOUS
    <2> QED BY <2>1
  <1>3. DOMAIN t = 1..n + 1 /\ t[n + 1] = c /\ \A k \in 1..n : t[k] = s[k]
    BY <1>1, <1>2
  <1>4. 1..n + 1 = 1..n \cup {n + 1}
    OBVIOUS
  <1> QED BY <1>1, <1>2, <1>3, <1>4 DEF ToSet

LEMMA HeadTailIs ==
  ASSUME NEW s \in Seq(Changes), s # <<>>
  PROVE  ToSet(s) = {Head(s)} \cup ToSet(Tail(s))
  <1>1. PICK n \in Nat : n = Len(s) /\ DOMAIN s = 1..n
    OBVIOUS
  <1>2. PICK t \in Seq(Changes) : t = Tail(s)
    <2>1. Tail(s) \in Seq(Changes)
      OBVIOUS
    <2> QED BY <2>1
  <1>3. n >= 1 /\ Head(s) = s[1] /\ DOMAIN t = 1..n - 1 /\ \A k \in 1..n - 1 : t[k] = s[k + 1]
    BY <1>1, <1>2
  <1>4. ASSUME NEW k \in 1..n PROVE s[k] \in {Head(s)} \cup ToSet(t)
    <2>1. CASE k = 1
      BY <1>3, <2>1
    <2>2. CASE k # 1
      <3>1. k - 1 \in 1..n - 1 /\ (k - 1) + 1 = k
        BY <2>2
      <3>2. t[k - 1] = s[k]
        BY <1>3, <3>1
      <3> QED BY <1>3, <3>1, <3>2 DEF ToSet
    <2> QED BY <2>1, <2>2
  <1>5. \A k \in 1..n - 1 : t[k] = s[k + 1] /\ k + 1 \in 1..n
    BY <1>3
  <1>6. 1 \in 1..n
    BY <1>3
  <1> QED BY <1>1, <1>2, <1>3, <1>4, <1>5, <1>6 DEF ToSet

(* What a comparison leaves to do is enough for an item that was read as   *)
(* it is, or of which the index keeps nothing.                             *)
LEMMA ComparedIs ==
  ASSUME NEW i \in Items, NEW text \in Texts \cup {Absent}, NEW x, Index(x),
         NEW docs \in SUBSET Doc, NEW todo, todo = docs \ ToSet(x.entries),
         \A d \in docs : d.id = i => d.text = text,
         text # Absent => [id |-> i, text |-> text] \in docs,
         text = Absent => \A e \in ToSet(x.entries) : e.id # i
  PROVE  /\ \A d \in todo : d.id = i => d.text = text
         /\ \/ \A e \in Doc : e.id = i => (e \in ToSet(x.entries) <=> e.text = text)
            \/ \E d \in todo : d.id = i
  <1>1. CASE text = Absent
    BY <1>1, TextsAssumption DEF Doc
  <1>2. CASE text # Absent
    <2>1. PICK d \in docs : d = [id |-> i, text |-> text]
      BY <1>2
    <2>2. CASE d \notin ToSet(x.entries)
      BY <2>1, <2>2
    <2>3. CASE d \in ToSet(x.entries)
      <3>1. \A e \in ToSet(x.entries) : e.id = i => e = d
        BY <2>1, <2>3 DEF Index, Unique, ToSet
      <3>2. \A e \in Doc : e.id = i /\ e.text = text => e = d
        BY <2>1 DEF Doc
      <3>3. \A e \in Doc : e.id = i => (e \in ToSet(x.entries) <=> e.text = text)
        BY <2>1, <2>3, <3>1, <3>2
      <3> QED BY <3>3
    <2> QED BY <2>2, <2>3
  <1> QED BY <1>1, <1>2

(* The items at most i of a library that loses j.                          *)
LEMMA RankAfter ==
  ASSUME NEW s \in SUBSET Items, NEW j \in Items, NEW i \in s, i # j
  PROVE  /\ Rank(s, i) \in Nat /\ Rank(s \cup {j}, i) \in Nat /\ Rank(s \ {j}, i) \in Nat
         /\ Rank(s, i) <= Rank(s \cup {j}, i)
         /\ j \in s => Rank(s \ {j}, i) = Rank(s, i) \/ Rank(s, j) <= Rank(s \ {j}, i)
  <1> DEFINE Upto(t, k) == {m \in t : m <= k}
  <1>1. /\ IsFiniteSet(Items) /\ Items \subseteq Nat
    BY ItemsAssumption
  <1>2. \A t \in SUBSET Items : \A k : IsFiniteSet(Upto(t, k)) /\ Cardinality(Upto(t, k)) \in Nat
    BY <1>1, FS_Subset, FS_CardinalityType
  <1>3. Cardinality(Upto(s, i)) <= Cardinality(Upto(s \cup {j}, i))
    <2>1. Upto(s, i) \in SUBSET Upto(s \cup {j}, i) /\ IsFiniteSet(Upto(s \cup {j}, i))
      BY <1>2
    <2> QED BY <2>1, FS_Subset
  <1>4. ASSUME j \in s, j > i PROVE Upto(s \ {j}, i) = Upto(s, i)
    BY <1>1, <1>4
  <1>5. ASSUME j \in s, j < i
        PROVE  Cardinality(Upto(s, j)) <= Cardinality(Upto(s \ {j}, i))
    <2>1. PICK a, b, c : a = Upto(s, i) /\ b = Upto(s, i) \ {i} /\ c = Upto(s, i) \ {j}
      OBVIOUS
    <2>a. i \in Nat /\ j \in Nat /\ s \subseteq Nat /\ i <= i /\ j <= i
      BY <1>1, <1>5
    <2>2. IsFiniteSet(a) /\ Cardinality(a) \in Nat /\ i \in a /\ j \in a
      <3>1. IsFiniteSet(a) /\ Cardinality(a) \in Nat
        BY <1>2, <2>1
      <3> QED BY <1>5, <2>a, <2>1, <3>1
    <2>3. /\ IsFiniteSet(b) /\ IsFiniteSet(c)
          /\ Cardinality(b) = Cardinality(a) - 1 /\ Cardinality(c) = Cardinality(a) - 1
      <3>1. /\ IsFiniteSet(a \ {i})
            /\ Cardinality(a \ {i}) = IF i \in a THEN Cardinality(a) - 1 ELSE Cardinality(a)
        BY <2>2, FS_RemoveElement
      <3>2. /\ IsFiniteSet(a \ {j})
            /\ Cardinality(a \ {j}) = IF j \in a THEN Cardinality(a) - 1 ELSE Cardinality(a)
        BY <2>2, FS_RemoveElement
      <3> QED BY <2>1, <2>2, <3>1, <3>2
    <2>4. Upto(s, j) \in SUBSET b
      <3>1. ASSUME NEW m \in s, m <= j PROVE m <= i /\ m # i
        BY <1>5, <2>a, <3>1
      <3> QED BY <2>1, <3>1
    <2>5. Cardinality(Upto(s, j)) <= Cardinality(b)
      BY <2>3, <2>4, FS_Subset
    <2>6. c = Upto(s \ {j}, i)
      BY <2>1
    <2> QED BY <2>3, <2>5, <2>6
  <1>6. j > i \/ j < i
    BY <1>1
  <1> QED BY <1>2, <1>3, <1>4, <1>5, <1>6 DEF Rank

LEMMA FollowedByRun ==
  ASSUME IndInv,
         \/ Load \/ Loop \/ Receive \/ QuietOver \/ WakeUp \/ SixHours \/ Finish
         \/ ModelFails \/ Fails \/ RenameVectors \/ RenameEntries \/ Embed
  PROVE  Followed'
  <1> USE DEF jellyfin, listener, history, Storing
  <1>a. Typed /\ Working /\ Index(ix)
    BY DEF IndInv, Kept
  <1>b. job.docs \in Seq(Doc) /\ job.todo \in Seq(Doc) /\ job.full \in BOOLEAN /\ job.changes \in Changes
    BY <1>a DEF Typed, Job
  <1>c. Idle.full = FALSE /\ Idle.changes = NoChanges /\ Idle.docs = <<>> /\ Idle.todo = <<>>
    BY DEF Idle
  <1>d. \A i : ~Tells(NoChanges, i)
    BY DEF Tells, NoChanges
  <1>e. ToSet(<<>>) = {}
    BY DEF ToSet
  <1> SUFFICES ASSUME excuse' = {}, NEW i \in Items
               PROVE  Later' \/ Due' \/ OnWay(i)' \/ Known(i)'
    BY DEF Followed
  <1>f. excuse = {} => Later \/ Due \/ OnWay(i) \/ Known(i)
    BY DEF IndInv, Followed
  <1>1. CASE Load
    BY <1>a, <1>c, <1>1 DEF Load, Working, Due
  <1>2. CASE Loop
    <2>1. CASE due
      <3>1. job' = [Idle EXCEPT !.full = TRUE] /\ task' = "pages" /\ lib' = lib
        BY <1>2, <2>1 DEF Loop
      <3>2. job'.docs = <<>>
        BY <3>1 DEF Idle
      <3>3. ToSet(job'.docs) = {} /\ Len(job'.docs) = 0
        BY <1>e, <3>2
      <3>4. lib[i] # Absent => ~(Rank(Present, i) <= 0)
        <4>1. Present \in SUBSET Present /\ lib \in [Items -> Texts \cup {Absent}]
          BY <1>a DEF Typed
        <4>2. Cardinality(Present) \in Nat /\ \A j \in Present : Rank(Present, j) \in 1..Cardinality(Present)
          BY <4>1, ListedIs
        <4>3. lib[i] # Absent => i \in Present
          BY DEF Present
        <4> QED BY <4>2, <4>3
      <3>5. Read(i)'
        BY <3>1, <3>3, <3>4 DEF Read, Present, Rank
      <3> QED BY <3>1, <3>5 DEF Known
    <2>2. CASE ~due
      BY <1>f, <1>2, <2>2 DEF Loop, Later, Due, OnWay, Tells, Known, Agrees
    <2> QED BY <2>1, <2>2
  <1>3. CASE Receive
    <2>1. /\ task = "wait" /\ task' = "loop" /\ events # <<>> /\ events' = Tail(events)
          /\ due' = DueAfter(Head(events)) /\ pending' = Extend(pending, Head(events))
          /\ UNCHANGED <<jellyfin, listener, job, ix, excuse>>
      BY <1>3 DEF Receive
    <2>2. job.full = FALSE
      BY <1>a, <1>c, <2>1 DEF Working
    <2>3. ToSet(events) = {Head(events)} \cup ToSet(events')
      BY <1>a, <2>1, HeadTailIs DEF Typed
    <2>4. Due => Due'
      BY <2>1 DEF Due, DueAfter
    <2>5. Later => Later' \/ Due'
      BY <2>1, <2>2, <2>3 DEF Later, Due, DueAfter
    <2>6. \A c : Tells(c, i)' <=> Tells(c, i)
      BY <2>1 DEF Tells
    <2>7. Tells(Head(events), i) \/ Tells(pending, i) => Tells(pending', i)
      BY <2>1 DEF Tells, Extend
    <2>8. OnWay(i) => OnWay(i)'
      <3>1. ASSUME NEW c \in ToSet(events) \cup {pending, job.changes}, Tells(c, i)
            PROVE  \E e \in ToSet(events') \cup {pending', job.changes} : Tells(e, i)
        BY <2>3, <2>7, <3>1
      <3>2. OnWay(i) => \E e \in ToSet(events') \cup {pending', job.changes} : Tells(e, i)
        BY <3>1 DEF OnWay
      <3> QED BY <2>1, <3>2 DEF OnWay, Tells
    <2>9. Known(i) => Known(i)'
      BY <2>1 DEF Known, Agrees
    <2> QED BY <1>f, <2>1, <2>4, <2>5, <2>8, <2>9
  <1>4. CASE QuietOver
    <2>1. /\ task = "wait" /\ task' = "lookup" /\ job' = [Idle EXCEPT !.changes = pending]
          /\ UNCHANGED <<jellyfin, listener, events, due, ix, excuse>>
      BY <1>4 DEF QuietOver
    <2>2. job'.full = FALSE /\ job'.changes = pending
      BY <2>1 DEF Idle
    <2>3. job.changes = NoChanges
      BY <1>a, <1>c, <2>1 DEF Working
    <2>4. OnWay(i) => OnWay(i)'
      <3>1. OnWay(i) => \E e \in ToSet(events) \cup {pending', job'.changes} : Tells(e, i)
        BY <1>d, <2>2, <2>3 DEF OnWay
      <3> QED BY <2>1, <3>1 DEF OnWay, Tells
    <2>5. (Due => Due') /\ (Later => Later') /\ (Known(i) => Known(i)')
      BY <2>1, <2>2 DEF Due, Later, Known, Agrees
    <2> QED BY <1>f, <2>1, <2>4, <2>5
  <1>5. CASE WakeUp
    BY <1>f, <1>5 DEF WakeUp, Later, Due, OnWay, Tells, Known, Agrees
  <1>6. CASE SixHours
    BY <1>f, <1>6 DEF SixHours, Later, Due, OnWay, Tells, Known, Agrees, Stored, Read, Rank, Present
  <1>7. CASE Finish
    <2>1. /\ task = "finish" /\ task' = "loop" /\ job' = Idle
          /\ due' = IF job.full THEN FALSE ELSE due
          /\ UNCHANGED <<jellyfin, listener, events, pending, ix, excuse>>
      BY <1>7 DEF Finish
    <2>2. job.todo = <<>> /\ job.changes = NoChanges
      BY <1>a, <2>1 DEF Working
    <2>3. OnWay(i) => OnWay(i)'
      BY <1>c, <2>1, <2>2 DEF OnWay, Tells
    <2>4. Known(i) => Agrees(i)
      BY <1>e, <2>1, <2>2 DEF Known, Stored
    <2>5. Known(i) => Known(i)'
      BY <2>1, <2>4 DEF Known, Agrees
    <2>6. (Later => Later') /\ (Due => Due')
      BY <1>c, <2>1 DEF Later, Due
    <2> QED BY <1>f, <2>1, <2>3, <2>5, <2>6
  <1>8. CASE ModelFails
    BY <1>f, <1>8 DEF ModelFails, Later, Due, OnWay, Tells, Known, Agrees
  <1>9. CASE Fails
    BY <1>9 DEF Fails
  <1>10. CASE RenameVectors
    BY <1>f, <1>10 DEF RenameVectors, Later, Due, OnWay, Tells, Known, Stored, Agrees
  <1>11. CASE RenameEntries
    <2>1. /\ task = "entries" /\ task' \in {"embed", "finish", "vectors"}
          /\ UNCHANGED <<jellyfin, listener, events, due, pending, ix, excuse>>
      BY <1>11 DEF RenameEntries
    <2>2. job'.full = job.full /\ job'.changes = job.changes /\ job'.todo = job.todo
      <3>1. PICK b \in BOOLEAN : b = (job.todo = <<>>)
        OBVIOUS
      <3>2. job' = [job EXCEPT !.last = b]
        BY <1>11, <3>1, Zenon DEF RenameEntries
      <3> QED BY <1>a, <3>2 DEF Typed, Job
    <2> QED BY <1>f, <2>1, <2>2 DEF Later, Due, OnWay, Tells, Known, Stored, Agrees
  <1>12. CASE Embed
    <2>1. PICK batch \in Seq(Doc), rest \in Seq(Doc) :
              /\ batch = Slice(job.todo, 1, Batch)
              /\ rest = SubSeq(job.todo, Batch + 1, Len(job.todo))
              /\ ToSet(job.todo) = ToSet(batch) \cup ToSet(rest)
      <3>1. /\ Slice(job.todo, 1, Batch) \in Seq(Doc)
            /\ SubSeq(job.todo, Batch + 1, Len(job.todo)) \in Seq(Doc)
            /\ ToSet(job.todo) = ToSet(Slice(job.todo, 1, Batch))
                                      \cup ToSet(SubSeq(job.todo, Batch + 1, Len(job.todo)))
        BY <1>b, SplitIs
      <3> QED BY <3>1, Zenon
    <2>2. /\ task = "embed" /\ task' \in {"embed", "vectors"}
          /\ ix' = UpsertAll(ix, batch)
          /\ UNCHANGED <<jellyfin, listener, events, due, pending, excuse>>
      BY <1>12, <2>1 DEF Embed
    <2>3. job'.full = job.full /\ job'.changes = job.changes /\ job'.todo = rest
      <3>1. PICK since \in Nat : since = job.since + Len(batch)
        <4>1. job.since + Len(batch) \in Nat
          BY <1>a DEF Typed, Job
        <4> QED BY <4>1
      <3>2. PICK b \in BOOLEAN : b = (rest = <<>>)
        OBVIOUS
      <3>3. \/ job' = [job EXCEPT !.todo = rest, !.since = 0]
            \/ job' = [job EXCEPT !.todo = rest, !.since = since, !.last = b]
        BY <1>12, <2>1, <3>1, <3>2, Zenon DEF Embed
      <3>4. CASE job' = [job EXCEPT !.todo = rest, !.since = 0]
        BY <1>a, <3>4 DEF Typed, Job
      <3>5. CASE job' = [job EXCEPT !.todo = rest, !.since = since, !.last = b]
        BY <1>a, <3>5 DEF Typed, Job
      <3> QED BY <3>3, <3>4, <3>5
    <2>4. Merged(ToSet(ix'.entries), ToSet(ix.entries), ToSet(batch))
      BY <1>a, <2>1, <2>2, UpsertAllIs
    <2>5. Index(ix')
      BY <1>a, <2>1, <2>2, UpsertAllIs
    <2>6. ToSet(batch) \subseteq Doc /\ ToSet(ix'.entries) \subseteq Doc
      BY <2>1, <2>5 DEF Index, ToSet
    <2>7. Stored(i) => Stored(i)'
      <3> SUFFICES ASSUME Stored(i) PROVE Stored(i)'
        OBVIOUS
      <3>1. \A d \in ToSet(batch) \cup ToSet(rest) : d.id = i => d.text = lib[i]
        BY <2>1 DEF Stored
      <3>2. CASE \E d \in ToSet(batch) : d.id = i
        <4>1. PICK d \in ToSet(batch) : d.id = i
          BY <3>2
        <4>2. \A e \in ToSet(ix'.entries) : e.id = i => e \in ToSet(batch)
          BY <2>4, <4>1 DEF Merged
        <4>3. PICK e \in ToSet(ix'.entries) : e.id = i /\ e \in ToSet(batch) /\ e.text = lib[i]
          BY <2>4, <3>1, <4>1, <4>2 DEF Merged
        <4>4. \A g \in Doc : g.id = i /\ g.text = lib[i] => g = e
          BY <2>6, <4>3 DEF Doc
        <4>5. \A g \in Doc : g.id = i => (g \in ToSet(ix'.entries) <=> g.text = lib[i])
          BY <3>1, <4>2, <4>3, <4>4
        <4>6. Agrees(i)'
          BY <2>2, <4>5 DEF Agrees
        <4> QED BY <2>2, <2>3, <3>1, <4>6 DEF Stored
      <3>3. CASE ~\E d \in ToSet(batch) : d.id = i
        <4>1. \A e : e.id = i => (e \in ToSet(ix'.entries) <=> e \in ToSet(ix.entries))
          BY <2>4, <3>3 DEF Merged
        <4>2. Agrees(i) => Agrees(i)'
          BY <2>2, <4>1 DEF Agrees
        <4>3. (\E d \in ToSet(job.todo) : d.id = i) => \E d \in ToSet(job'.todo) : d.id = i
          BY <2>1, <2>3, <3>3
        <4> QED BY <2>2, <2>3, <3>1, <4>2, <4>3 DEF Stored
      <3> QED BY <3>2, <3>3
    <2>8. Known(i) => Known(i)'
      BY <2>2, <2>7 DEF Known
    <2>9. (Later => Later') /\ (Due => Due') /\ (OnWay(i) => OnWay(i)')
      BY <2>2, <2>3 DEF Later, Due, OnWay, Tells
    <2> QED BY <1>f, <2>2, <2>8, <2>9
  <1> QED BY <1>1, <1>2, <1>3, <1>4, <1>5, <1>6, <1>7, <1>8, <1>9, <1>10, <1>11, <1>12

LEMMA FollowedByCompare ==
  ASSUME IndInv, FetchPage \/ Lookup
  PROVE  Followed'
  <1> USE DEF jellyfin, listener, history, Storing
  <1>a. Typed /\ Working /\ Index(ix)
    BY DEF IndInv, Kept
  <1>b. /\ job.docs \in Seq(Doc) /\ job.changes \in Changes /\ lib \in [Items -> Texts \cup {Absent}]
        /\ state \in {"LoadingModel", "Indexing", "Ready", "Failed"} /\ job \in Job
    BY <1>a DEF Typed, Job
  <1>c. ToSet(ix.entries) \subseteq Doc
    BY <1>a DEF Index, ToSet
  <1>d. \A i : ~Tells(NoChanges, i)
    BY DEF Tells, NoChanges
  <1> SUFFICES ASSUME excuse' = {}, NEW i \in Items
               PROVE  Later' \/ Due' \/ OnWay(i)' \/ Known(i)'
    BY DEF Followed
  <1>f. excuse = {} => Later \/ Due \/ OnWay(i) \/ Known(i)
    BY DEF IndInv, Followed
  <1>g. ASSUME NEW docs \in Seq(Doc), lib' = lib, Index(ix'),
               ToSet(job'.todo) = ToSet(docs) \ ToSet(ix'.entries),
               \A d \in ToSet(docs) : d.id = i => d.text = lib[i],
               lib[i] # Absent => [id |-> i, text |-> lib[i]] \in ToSet(docs),
               lib[i] = Absent => \A e \in ToSet(ix'.entries) : e.id # i
        PROVE  Stored(i)'
    <2>1. ToSet(docs) \in SUBSET Doc /\ lib[i] \in Texts \cup {Absent}
      BY <1>b DEF ToSet
    <2>2. /\ \A d \in ToSet(job'.todo) : d.id = i => d.text = lib[i]
          /\ \/ \A e \in Doc : e.id = i => (e \in ToSet(ix'.entries) <=> e.text = lib[i])
             \/ \E d \in ToSet(job'.todo) : d.id = i
      BY <1>g, <2>1, ComparedIs
    <2> QED BY <1>g, <2>2 DEF Stored, Agrees
  <1>1. CASE FetchPage
    <2>1. /\ task = "pages" /\ UNCHANGED <<jellyfin, listener, events, due, pending, excuse>>
          /\ job.full
      BY <1>a, <1>1 DEF FetchPage, Working
    <2>2. PICK docs \in Seq(Doc) :
            /\ Len(job.docs) <= Len(docs)
            /\ ToSet(docs) \subseteq ToSet(job.docs) \cup {[id |-> j, text |-> lib[j]] : j \in Present}
            /\ ToSet(job.docs) \subseteq ToSet(docs)
            /\ \A j \in Present :
                  Rank(Present, j) <= Len(docs) /\ Rank(Present, j) > Len(job.docs)
                      => [id |-> j, text |-> lib[j]] \in ToSet(docs)
            /\ \/ /\ Compare(docs, Gone(docs))
                  /\ \A j \in Present : Rank(Present, j) <= Len(docs)
               \/ job' = [job EXCEPT !.docs = docs] /\ UNCHANGED <<task, ix, state>>
      BY <1>1, PageIs
    <2>3. ~Due /\ (OnWay(i) => OnWay(i)')
      <3>1. job.changes = NoChanges
        BY <1>a, <2>1 DEF Working
      <3> QED BY <1>d, <2>1, <3>1 DEF Due, OnWay, Tells
    <2>4. Later => Later'
      BY <2>1 DEF Later
    <2> SUFFICES ASSUME Read(i) PROVE Known(i)'
      BY <1>f, <2>1, <2>3, <2>4 DEF Known, Due
    <2>5. \A d \in ToSet(docs) : d.id = i => d.text = lib[i]
      BY <2>2 DEF Read
    <2>6. lib[i] # Absent /\ Rank(Present, i) <= Len(docs) => [id |-> i, text |-> lib[i]] \in ToSet(docs)
      <3> SUFFICES ASSUME lib[i] # Absent, Rank(Present, i) <= Len(docs)
                   PROVE  [id |-> i, text |-> lib[i]] \in ToSet(docs)
        OBVIOUS
      <3>1. i \in Present /\ Present \in SUBSET Present
        BY DEF Present
      <3>2. Cardinality(Present) \in Nat /\ Rank(Present, i) \in 1..Cardinality(Present)
        BY <1>b, <3>1, ListedIs
      <3>3. Rank(Present, i) \in Nat /\ Len(job.docs) \in Nat
        BY <1>b, <3>2
      <3>4. CASE Rank(Present, i) <= Len(job.docs)
        BY <2>2, <3>4 DEF Read
      <3>5. CASE Rank(Present, i) > Len(job.docs)
        BY <2>2, <3>1, <3>5
      <3> QED BY <3>3, <3>4, <3>5
    <2>7. CASE job' = [job EXCEPT !.docs = docs] /\ UNCHANGED <<task, ix, state>>
      <3>1. job'.docs = docs
        BY <1>b, <2>7 DEF Job
      <3>2. Read(i)'
        BY <2>1, <2>5, <2>6, <3>1 DEF Read, Rank, Present
      <3> QED BY <2>1, <2>7, <3>2 DEF Known
    <2>8. CASE Compare(docs, Gone(docs)) /\ \A j \in Present : Rank(Present, j) <= Len(docs)
      <3>1. /\ Index(ix')
            /\ ToSet(ix'.entries) = {e \in ToSet(ix.entries) : e.id \notin Gone(docs)}
            /\ ToSet(job'.todo) = ToSet(docs) \ ToSet(ix'.entries)
            /\ task' \in {"embed", "vectors", "finish"}
        BY <1>a, <1>b, <2>8, CompareIs
      <3>2. lib[i] # Absent => [id |-> i, text |-> lib[i]] \in ToSet(docs)
        BY <2>6, <2>8 DEF Present
      <3>3. lib[i] = Absent => \A e \in ToSet(ix'.entries) : e.id # i
        <4> SUFFICES ASSUME lib[i] = Absent, NEW e \in ToSet(ix'.entries), e.id = i PROVE FALSE
          OBVIOUS
        <4>1. \A d \in ToSet(docs) : d.id # i
          <5>1. \A d \in ToSet(docs) : d.text \in Texts
            <6>1. ToSet(docs) \in SUBSET Doc
              BY DEF ToSet
            <6> QED BY <6>1 DEF Doc
          <5> QED BY <2>5, <5>1, TextsAssumption
        <4>2. i \in Gone(docs)
          BY <3>1, <4>1 DEF Gone, Indexed
        <4> QED BY <3>1, <4>2
      <3>4. Stored(i)'
        BY <1>g, <2>1, <2>5, <3>1, <3>2, <3>3
      <3> QED BY <3>1, <3>4 DEF Known
    <2> QED BY <2>2, <2>7, <2>8
  <1>2. CASE Lookup
    <2>1. /\ task = "lookup" /\ UNCHANGED <<jellyfin, listener, events, due, pending>>
          /\ Compare(Listed(job.changes.changed \cap Present), job.changes.removed)
          /\ excuse' = IF Outdated THEN excuse \cup {"outdated"} ELSE excuse
      BY <1>2 DEF Lookup
    <2>2. excuse = {} /\ ~Outdated
      BY <2>1
    <2>3. PICK docs \in Seq(Doc) :
              /\ docs = Listed(job.changes.changed \cap Present)
              /\ ToSet(docs) = {[id |-> j, text |-> lib[j]] : j \in job.changes.changed \cap Present}
      BY <1>b, ListedIs
    <2>4. /\ Index(ix')
          /\ ToSet(ix'.entries) = {e \in ToSet(ix.entries) : e.id \notin job.changes.removed}
          /\ ToSet(job'.todo) = ToSet(docs) \ ToSet(ix'.entries)
          /\ task' \in {"embed", "vectors", "finish"}
          /\ job'.full = job.full /\ job'.changes = NoChanges
      BY <1>a, <1>b, <2>1, <2>3, CompareIs
    <2>5. (Later => Later') /\ (Due => Due')
      BY <2>1, <2>4 DEF Later, Due
    <2>6. OnWay(i) => OnWay(i)' \/ Tells(job.changes, i)
      BY <2>1 DEF OnWay, Tells
    <2>7. Known(i) => Agrees(i)
      BY <2>1 DEF Known
    <2> SUFFICES ASSUME Tells(job.changes, i) \/ Agrees(i) PROVE OnWay(i)' \/ Stored(i)'
      BY <1>f, <2>2, <2>4, <2>5, <2>6, <2>7 DEF Known
    <2>8. \A d \in ToSet(docs) : d.id = i => d.text = lib[i] /\ i \in job.changes.changed \cap Present
      <3>1. ASSUME NEW d \in ToSet(docs), d.id = i
            PROVE  d.text = lib[i] /\ i \in job.changes.changed \cap Present
        <4>1. PICK j \in job.changes.changed \cap Present : d = [id |-> j, text |-> lib[j]]
          BY <2>3
        <4> QED BY <3>1, <4>1
      <3> QED BY <3>1
    <2>9. CASE lib[i] = Absent
      <3>1. \A e \in ToSet(ix'.entries) : e.id # i
        <4>1. CASE Tells(job.changes, i)
          BY <2>4, <2>9, <4>1 DEF Tells
        <4>2. CASE Agrees(i)
          <5>1. \A e \in ToSet(ix.entries) : e.text # Absent
            BY <1>c, TextsAssumption DEF Doc
          <5> QED BY <1>c, <2>4, <2>9, <4>2, <5>1 DEF Agrees
        <4> QED BY <4>1, <4>2
      <3> QED BY <1>g, <2>1, <2>4, <2>8, <2>9, <3>1
    <2>10. CASE lib[i] # Absent /\ i \in job.changes.changed
      <3>1. [id |-> i, text |-> lib[i]] \in ToSet(docs)
        BY <2>3, <2>10 DEF Present
      <3> QED BY <1>g, <2>1, <2>4, <2>8, <2>10, <3>1
    <2>11. CASE lib[i] # Absent /\ i \notin job.changes.changed
      <3>1. Agrees(i) /\ i \in Present
        BY <2>11 DEF Tells, Present
      <3>2. CASE i \notin job.changes.removed
        <4>1. Agrees(i)'
          BY <2>1, <2>4, <3>1, <3>2 DEF Agrees
        <4> QED BY <2>4, <2>8, <2>11, <4>1 DEF Stored
      <3>3. CASE i \in job.changes.removed
        <4>1. i \in pending.changed \/ i \in UNION {e.changed : e \in ToSet(events)}
          BY <2>2, <2>11, <3>1, <3>3 DEF Outdated
        <4>2. \E c \in ToSet(events) \cup {pending} : i \in c.changed
          BY <4>1
        <4> QED BY <2>1, <2>11, <4>2 DEF OnWay, Tells
      <3> QED BY <3>2, <3>3
    <2> QED BY <2>9, <2>10, <2>11
  <1> QED BY <1>1, <1>2

LEMMA FollowedByListen ==
  ASSUME IndInv, Connect \/ ConnectFails \/ Break \/ Notice \/ LibraryChanges \/ Restart
  PROVE  Followed'
  <1> USE DEF jellyfin, listener, history, Storing
  <1>a. Typed /\ Working /\ Connected
    BY DEF IndInv
  <1>b. Idle.full = FALSE /\ Reconnected \in Changes
    BY IdleIs DEF Idle, Reconnected
  <1> SUFFICES ASSUME excuse' = {}, NEW i \in Items
               PROVE  Later' \/ Due' \/ OnWay(i)' \/ Known(i)'
    BY DEF Followed
  <1>f. excuse = {} => Later \/ Due \/ OnWay(i) \/ Known(i)
    BY DEF IndInv, Followed
  <1>1. CASE Connect
    <2>1. /\ ws = "down" /\ ws' = "up"
          /\ events' = IF tried THEN Append(events, Reconnected) ELSE events
          /\ UNCHANGED <<jellyfin, task, due, pending, job, ix, excuse>>
      BY <1>1 DEF Connect
    <2>2. CASE tried
      <3>1. ToSet(events') = ToSet(events) \cup {Reconnected}
        BY <1>a, <1>b, <2>1, <2>2, AppendIs DEF Typed
      <3> QED BY <3>1 DEF Later
    <2>3. CASE ~tried
      <3>1. Later => Later'
        BY <2>1, <2>3 DEF Later
      <3>2. (Due => Due') /\ (OnWay(i) => OnWay(i)')
        BY <2>1, <2>3 DEF Due, OnWay, Tells
      <3>3. Known(i) => Known(i)'
        BY <2>1 DEF Known, Agrees, Stored, Read, Rank, Present
      <3> QED BY <1>f, <2>1, <3>1, <3>2, <3>3
    <2> QED BY <2>2, <2>3
  <1>2. CASE ConnectFails
    BY <1>2 DEF ConnectFails, Later
  <1>3. CASE Break
    BY <1>a, <1>3 DEF Break, Later, Connected
  <1>4. CASE Notice
    <2>1. /\ ws = "broken" /\ ws' = "down"
          /\ UNCHANGED <<jellyfin, tried, events, task, due, pending, job, ix, excuse>>
      BY <1>4 DEF Notice
    <2>2. (Later => Later') /\ (Due => Due') /\ (OnWay(i) => OnWay(i)')
      BY <2>1 DEF Later, Due, OnWay, Tells
    <2>3. Known(i) => Known(i)'
      BY <2>1 DEF Known, Agrees, Stored, Read, Rank, Present
    <2> QED BY <1>f, <2>1, <2>2, <2>3
  <1>5. CASE LibraryChanges
    <2>1. PICK j \in Items, text \in Texts \cup {Absent} :
              /\ lib[j] # text /\ lib' = [lib EXCEPT ![j] = text]
              /\ events' = IF ws = "up" THEN Append(events, Announce(j, text)) ELSE events
              /\ excuse' = excuse
                     \cup (IF ws = "up" \/ tried THEN {} ELSE {"unannounced"})
                     \cup (IF /\ text = Absent /\ task = "pages"
                              /\ Cardinality({m \in Present : m <= j}) <= Len(job.docs)
                           THEN {"shifted"} ELSE {})
      BY <1>5 DEF LibraryChanges
    <2>2. UNCHANGED <<listener, task, due, pending, job, ix>>
      BY <1>5 DEF LibraryChanges
    <2>3. /\ excuse = {} /\ (ws = "up" \/ tried)
          /\ text = Absent /\ task = "pages" => ~(Rank(Present, j) <= Len(job.docs))
      BY <2>1 DEF Rank
    <2>4. Announce(j, text) \in Changes
      BY DEF Announce, Changes
    <2>5. /\ ws = "up" => ToSet(events') = ToSet(events) \cup {Announce(j, text)}
          /\ ws # "up" => ToSet(events') = ToSet(events)
      BY <1>a, <2>1, <2>4, AppendIs DEF Typed
    <2>6. CASE i = j
      <3>1. CASE ws = "up"
        <4>1. lib'[i] = text
          BY <1>a, <2>1, <2>6 DEF Typed
        <4>2. Tells(Announce(j, text), i)'
          BY <2>6, <4>1 DEF Tells, Announce
        <4> QED BY <2>5, <3>1, <4>2 DEF OnWay
      <3>2. CASE ws # "up"
        BY <2>2, <2>3, <3>2 DEF Later
      <3> QED BY <3>1, <3>2
    <2>7. CASE i # j
      <3>1. lib'[i] = lib[i]
        BY <1>a, <2>1, <2>7 DEF Typed
      <3>2. ToSet(events) \subseteq ToSet(events')
        BY <2>5
      <3>3. (Later => Later') /\ (Due => Due') /\ (OnWay(i) => OnWay(i)')
        BY <2>2, <3>1, <3>2 DEF Later, Due, OnWay, Tells
      <3>4. (Agrees(i) => Agrees(i)') /\ (Stored(i) => Stored(i)')
        BY <2>2, <3>1 DEF Agrees, Stored
      <3>5. task = "pages" /\ Read(i) => Read(i)'
        <4> SUFFICES ASSUME task = "pages", Read(i) PROVE Read(i)'
          OBVIOUS
        <4>1. SUFFICES ASSUME lib[i] # Absent, Rank(Present', i) <= Len(job.docs)
                       PROVE  Rank(Present, i) <= Len(job.docs)
          BY <2>2, <3>1 DEF Read, Rank
        <4>2. i \in Present /\ Present \in SUBSET Items
          BY <4>1 DEF Present
        <4>3. /\ Rank(Present, i) \in Nat /\ Rank(Present \cup {j}, i) \in Nat
              /\ Rank(Present \ {j}, i) \in Nat
              /\ Rank(Present, i) <= Rank(Present \cup {j}, i)
              /\ j \in Present => \/ Rank(Present \ {j}, i) = Rank(Present, i)
                                  \/ Rank(Present, j) <= Rank(Present \ {j}, i)
          BY <2>7, <4>2, RankAfter
        <4>4. Len(job.docs) \in Nat
          BY <1>a DEF Typed, Job
        <4>5. CASE text # Absent
          <5>1. Present' = Present \cup {j}
            BY <1>a, <2>1, <4>5 DEF Present, Typed
          <5> QED BY <4>1, <4>3, <4>4, <5>1
        <4>6. CASE text = Absent
          <5>1. Present' = Present \ {j} /\ j \in Present
            BY <1>a, <2>1, <4>6 DEF Present, Typed
          <5>2. Rank(Present, j) \in Nat
            <6>1. Present \in SUBSET Present /\ lib \in [Items -> Texts \cup {Absent}]
              BY <1>a DEF Typed
            <6>2. Cardinality(Present) \in Nat /\ Rank(Present, j) \in 1..Cardinality(Present)
              BY <5>1, <6>1, ListedIs
            <6> QED BY <6>2
          <5> QED BY <2>3, <4>1, <4>3, <4>4, <4>6, <5>1, <5>2
        <4> QED BY <4>5, <4>6
      <3>6. Known(i) => Known(i)'
        BY <2>2, <3>4, <3>5 DEF Known
      <3> QED BY <1>f, <2>3, <3>3, <3>6
    <2> QED BY <2>6, <2>7
  <1>6. CASE Restart
    BY <1>b, <1>6 DEF Restart, Started, Due
  <1> QED BY <1>1, <1>2, <1>3, <1>4, <1>5, <1>6
-----------------------------------------------------------------------------
(* The theorems. *)

LEMMA InitInv == Init => IndInv
  <1> SUFFICES ASSUME Init PROVE IndInv
    OBVIOUS
  <1>1. lib \in [Items -> Texts \cup {Absent}]
    <2>1. AnyText \in Texts
      BY TextsAssumption DEF AnyText
    <2> QED BY <2>1 DEF Init
  <1>2. <<>> \in Seq(Changes) /\ <<>> \in Seq(Doc)
    OBVIOUS
  <1>3. Typed
    <2>1. changes \in 0..MaxChanges /\ trouble \in 0..MaxTrouble
      BY BoundsAssumption DEF Init
    <2>2. events \in Seq(Changes)
      BY <1>2, Zenon DEF Init
    <2>3. job \in Job /\ pending \in Changes
      BY IdleIs DEF Init
    <2> QED BY <1>1, <2>1, <2>2, <2>3 DEF Init, Typed
  <1>4. Working
    BY DEF Init, Working, Idle
  <1>5. Index(ix) /\ Matched(ix)
    BY EmptyIs DEF Init
  <1>6. disk \in [entries: Seq(Doc), vectors: Seq(Doc)] /\ Unique(disk.entries)
    <2>1. CASE disk = Empty
      BY <2>1, EmptyIs DEF Index
    <2>2. CASE disk = [entries |-> Listed(Present), vectors |-> Listed(Present)]
      <3>1. Present \in SUBSET Present
        OBVIOUS
      <3>2. Listed(Present) \in Seq(Doc) /\ Unique(Listed(Present))
        BY <1>1, <3>1, ListedIs
      <3> QED BY <2>2, <3>2
    <2> QED BY <2>1, <2>2 DEF Init
  <1>7. Kept /\ OwnVectors
    BY <1>5, <1>6 DEF Kept, OwnVectors
  <1>8. Saved /\ Connected
    BY DEF Init, Saved, Connected
  <1>9. Followed
    BY DEF Init, Followed, Due, Idle
  <1> QED BY <1>3, <1>4, <1>7, <1>8, <1>9 DEF IndInv

LEMMA NextInv == IndInv /\ [Next]_vars => IndInv'
  <1> SUFFICES ASSUME IndInv, [Next]_vars PROVE IndInv'
    OBVIOUS
  <1>1. Typed' /\ Working'
    BY TypedInv
  <1>2. Kept' /\ OwnVectors' /\ Saved' /\ Connected'
    BY ListsInv
  <1>3. Followed'
    <2>1. CASE Next
      BY <2>1, FollowedByRun, FollowedByCompare, FollowedByListen DEF Next, Run, Listen
    <2>2. CASE UNCHANGED vars
      <3>1. Followed
        BY DEF IndInv
      <3> QED BY <2>2, <3>1
              DEF vars, jellyfin, listener, history, Followed, Later, Due, OnWay, Tells,
                  Known, Agrees, Stored, Read, Rank, Present
    <2> QED BY <2>1, <2>2
  <1> QED BY <1>1, <1>2, <1>3 DEF IndInv

LEMMA Invariant == Spec => []IndInv
  BY InitInv, NextInv, PTL DEF Spec

(* The variables keep their types, and no item stands twice in the index   *)
(* or in the saved list, whatever is read twice, renumbered or announced   *)
(* while it is read.                                                       *)
THEOREM TypeCorrect == Spec => []TypeOK
  <1>1. IndInv => TypeOK
    BY KeptTypes DEF IndInv, Typed, TypeOK
  <1> QED BY <1>1, Invariant, PTL

(* Every entry of the index has the vector of its own text, unless files   *)
(* of two saves of equal length were loaded as one index (index.rs).       *)
THEOREM OwnVectorsKept == Spec => []OwnVectors
  <1>1. IndInv => OwnVectors
    BY DEF IndInv
  <1> QED BY <1>1, Invariant, PTL

(* At rest the files are the index, removals included, unless a save has   *)
(* failed and none has ended since: no job ends before its last save.      *)
THEOREM SavedAtRest == Spec => []SavedWhenIdle
  <1>1. IndInv => SavedWhenIdle
    BY DEF IndInv, Saved, SavedWhenIdle
  <1> QED BY <1>1, Invariant, PTL

(* When nothing is on its way, the index is the library, whatever order    *)
(* changes, pages, reconnects, comparisons and restarts came in, outside   *)
(* the four cases in which the code waits for a full comparison.           *)
THEOREM IndexAtRest == Spec => []Settled
  <1>1. IndInv => Settled
    <2> SUFFICES ASSUME IndInv, Quiet, excuse = {} PROVE Mirrored
      BY DEF Settled
    <2>1. /\ task = "wait" /\ ws = "up" /\ events = <<>> /\ pending = NoChanges /\ ~due
          /\ lib \in [Items -> Texts \cup {Absent}] /\ Index(ix)
      BY DEF Quiet, IndInv, Typed, Kept
    <2>2. job = Idle
      BY <2>1 DEF IndInv, Working
    <2>3. ASSUME NEW i \in Items PROVE Agrees(i)
      <3>1. ToSet(events) = {}
        BY <2>1 DEF ToSet
      <3>2. ~Later /\ ~Due
        BY <2>1, <3>1 DEF Later, Due
      <3>3. ~OnWay(i)
        BY <2>1, <2>2, <3>1 DEF OnWay, Tells, Idle, NoChanges
      <3>4. Known(i)
        BY <3>2, <3>3 DEF IndInv, Followed
      <3> QED BY <2>1, <3>4 DEF Known, Storing
    <2>4. ToSet(ix.entries) \subseteq Doc
      BY <2>1 DEF Index, ToSet
    <2>5. ASSUME NEW e \in ToSet(ix.entries)
          PROVE  e \in {[id |-> i, text |-> lib[i]] : i \in Present}
      <3>1. PICK i \in Items, t \in Texts : e = [id |-> i, text |-> t]
        BY <2>4 DEF Doc
      <3>2. t = lib[i]
        BY <2>3, <2>4, <3>1 DEF Agrees
      <3>3. i \in Present
        BY <3>2, TextsAssumption DEF Present
      <3> QED BY <3>1, <3>2, <3>3
    <2>6. ASSUME NEW i \in Present PROVE [id |-> i, text |-> lib[i]] \in ToSet(ix.entries)
      <3>1. i \in Items /\ lib[i] \in Texts
        BY <2>1 DEF Present
      <3>2. [id |-> i, text |-> lib[i]] \in Doc
        BY <3>1 DEF Doc
      <3> QED BY <2>3, <3>1, <3>2 DEF Agrees
    <2> QED BY <2>5, <2>6 DEF Mirrored
  <1> QED BY <1>1, Invariant, PTL
=============================================================================
