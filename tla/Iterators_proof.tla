---------------------------- MODULE Iterators_proof ----------------------------
(***************************************************************************)
(* Lemmas about lists that the other proofs share: what filter, sum and    *)
(* FlattenSeq, which are recursive functions, make of a list of any        *)
(* length.  What such a function computes is proved by a set of naturals   *)
(* that has no least element outside it (Induct).                          *)
(***************************************************************************)
EXTENDS Iterators, SequencesExt, WellFoundedInduction, SequenceTheorems, TLAPS

-----------------------------------------------------------------------------
(* Induction. *)

LEMMA Least ==
  ASSUME NEW T \in SUBSET Nat, T # {}
  PROVE  \E x \in T : \A y \in T : x <= y
  <1>1. IsWellFoundedOn({ss \in Nat \X Nat : ss[1] < ss[2]}, Nat)
    BY NatLessThanWellFounded DEF OpToRel
  <1>2. \E x \in T : \A y \in T : ~(<<y, x>> \in {ss \in Nat \X Nat : ss[1] < ss[2]})
    BY <1>1, WFMin
  <1>3. \E x \in T : \A y \in T : ~(y < x)
    BY <1>2
  <1> QED BY <1>3

LEMMA Induct ==
  ASSUME NEW S, 0 \in S, \A n \in Nat : n \in S => n + 1 \in S
  PROVE  Nat \subseteq S
  <1>1. SUFFICES ASSUME Nat \ S # {} PROVE FALSE
    OBVIOUS
  <1>2. PICK x \in Nat \ S : \A y \in Nat \ S : x <= y
    BY <1>1, Least
  <1>3. x - 1 \in Nat /\ x - 1 \notin Nat \ S
    BY <1>2
  <1> QED BY <1>2, <1>3

-----------------------------------------------------------------------------
(* Any list, whatever is in it. *)
IsList(s) == s \in Seq({s[k] : k \in DOMAIN s})

LEMMA ListIs ==
  ASSUME NEW s, IsList(s)
  PROVE  Len(s) \in Nat /\ DOMAIN s = 1..Len(s)
  BY LenProperties DEF IsList

LEMMA SeqIsList ==
  ASSUME NEW T, NEW s \in Seq(T)
  PROVE  IsList(s)
  <1>1. /\ Len(s) \in Nat /\ DOMAIN s = 1..Len(s)
        /\ s = [k \in 1..Len(s) |-> s[k]]
    BY LenProperties
  <1>2. \A k \in 1..Len(s) : s[k] \in {s[j] : j \in DOMAIN s}
    BY <1>1
  <1> QED BY <1>1, <1>2, SeqDef DEF IsList

LEMMA ListAppend ==
  ASSUME NEW s, IsList(s), NEW e
  PROVE  /\ IsList(Append(s, e))
         /\ Len(Append(s, e)) = Len(s) + 1
         /\ Append(s, e)[Len(s) + 1] = e
         /\ \A k \in 1..Len(s) : Append(s, e)[k] = s[k]
  <1> DEFINE T == {s[k] : k \in DOMAIN s} \cup {e}
  <1>1. s \in Seq(T)
    BY DEF IsList
  <1> HIDE DEF T
  <1>2. e \in T
    BY DEF T
  <1>3. Append(s, e) \in Seq(T)
    BY <1>1, <1>2, AppendProperties
  <1>4. IsList(Append(s, e))
    BY <1>3, SeqIsList
  <1>5. /\ Len(s) \in Nat
        /\ Len(Append(s, e)) = Len(s) + 1
        /\ \A k \in 1..Len(s) : Append(s, e)[k] = s[k]
        /\ Append(s, e)[Len(s) + 1] = e
    BY <1>1, <1>2, AppendProperties, LenProperties
  <1> QED BY <1>4, <1>5

-----------------------------------------------------------------------------
(* filter: the elements at positions. *)

PicksTo(f, seq, at, n) ==
    f = [k \in 0..n |->
            IF k = 0 THEN <<>>
            ELSE IF k \in at THEN Append(f[k-1], seq[k]) ELSE f[k-1]]

LEMMA PicksExist ==
  ASSUME NEW seq, NEW at, NEW n \in Nat
  PROVE  \E f : PicksTo(f, seq, at, n)
  <1> DEFINE S == {m \in Nat : \E f : PicksTo(f, seq, at, m)}
  <1>1. 0 \in S
    <2>1. PICK f : f = [k \in 0..0 |-> <<>>]
      OBVIOUS
    <2>2. PicksTo(f, seq, at, 0)
      BY <2>1 DEF PicksTo
    <2> QED BY <2>2
  <1>2. ASSUME NEW m \in Nat, m \in S PROVE m + 1 \in S
    <2>1. PICK f : PicksTo(f, seq, at, m)
      BY <1>2
    <2>2. PICK e : e = IF m + 1 \in at THEN Append(f[m], seq[m + 1]) ELSE f[m]
      OBVIOUS
    <2>3. PICK g : g = [k \in 0..m + 1 |-> IF k = m + 1 THEN e ELSE f[k]]
      OBVIOUS
    <2>4. \A k \in 0..m + 1 :
            g[k] = IF k = 0 THEN <<>>
                   ELSE IF k \in at THEN Append(g[k-1], seq[k]) ELSE g[k-1]
      <3>1. TAKE k \in 0..m + 1
      <3>2. CASE k = m + 1
        BY <2>2, <2>3, <3>2
      <3>3. CASE k # m + 1
        <4>1. k \in 0..m /\ g[k] = f[k] /\ (k # 0 => g[k-1] = f[k-1])
          BY <2>3, <3>3
        <4>2. f[k] = IF k = 0 THEN <<>>
                     ELSE IF k \in at THEN Append(f[k-1], seq[k]) ELSE f[k-1]
          BY <2>1, <4>1 DEF PicksTo
        <4> QED BY <4>1, <4>2
      <3> QED BY <3>2, <3>3
    <2>5. PicksTo(g, seq, at, m + 1)
      <3>1. g = [k \in 0..m + 1 |-> g[k]]
        BY <2>3
      <3> QED BY <2>4, <3>1 DEF PicksTo
    <2> QED BY <2>5
  <1> HIDE DEF S
  <1>3. Nat \subseteq S
    BY <1>1, <1>2, Induct
  <1> QED BY <1>3 DEF S

LEMMA UptoIs ==
  ASSUME NEW seq, NEW at, Len(seq) \in Nat
  PROVE  PicksTo(PickedUpto(seq, at), seq, at, Len(seq))
  <1>1. PICK n \in Nat : n = Len(seq)
    OBVIOUS
  <1>2. \E f : PicksTo(f, seq, at, n)
    BY PicksExist
  <1>3. \E f : f = [k \in 0..Len(seq) |->
                      IF k = 0 THEN <<>>
                      ELSE IF k \in at THEN Append(f[k-1], seq[k]) ELSE f[k-1]]
    BY <1>1, <1>2 DEF PicksTo
  <1> DEFINE upto == CHOOSE f : f = [k \in 0..Len(seq) |->
                      IF k = 0 THEN <<>>
                      ELSE IF k \in at THEN Append(f[k-1], seq[k]) ELSE f[k-1]]
  <1>4. upto = [k \in 0..Len(seq) |->
                  IF k = 0 THEN <<>>
                  ELSE IF k \in at THEN Append(upto[k-1], seq[k]) ELSE upto[k-1]]
    BY <1>3, Zenon
  <1>5. PickedUpto(seq, at) = upto
    BY Zenon DEF PickedUpto
  <1> QED BY <1>4, <1>5 DEF PicksTo

LEMMA PickedIs ==
  ASSUME NEW seq, NEW at, Len(seq) \in Nat
  PROVE  \E f : PicksTo(f, seq, at, Len(seq)) /\ Picked(seq, at) = f[Len(seq)]
  <1>1. PICK n \in Nat : n = Len(seq)
    OBVIOUS
  <1>2. \E f : PicksTo(f, seq, at, n)
    BY PicksExist
  <1>3. \E f : f = [k \in 0..Len(seq) |->
                      IF k = 0 THEN <<>>
                      ELSE IF k \in at THEN Append(f[k-1], seq[k]) ELSE f[k-1]]
    BY <1>1, <1>2 DEF PicksTo
  <1> DEFINE upto == CHOOSE f : f = [k \in 0..Len(seq) |->
                      IF k = 0 THEN <<>>
                      ELSE IF k \in at THEN Append(f[k-1], seq[k]) ELSE f[k-1]]
  <1>4. upto = [k \in 0..Len(seq) |->
                  IF k = 0 THEN <<>>
                  ELSE IF k \in at THEN Append(upto[k-1], seq[k]) ELSE upto[k-1]]
    BY <1>3, Zenon
  <1>5. Picked(seq, at) = upto[Len(seq)]
    BY Zenon DEF Picked, PickedUpto
  <1> QED BY <1>4, <1>5 DEF PicksTo

LEMMA UptoHas ==
  ASSUME NEW T, NEW seq \in Seq(T), NEW at, NEW R,
         \A k \in DOMAIN seq : k \in at => seq[k] \in R
  PROVE  /\ PickedUpto(seq, at)[0] = <<>>
         /\ \A n \in 1..Len(seq) :
                PickedUpto(seq, at)[n] =
                    IF n \in at THEN Append(PickedUpto(seq, at)[n - 1], seq[n])
                    ELSE PickedUpto(seq, at)[n - 1]
         /\ \A n \in 0..Len(seq) : PickedUpto(seq, at)[n] \in Seq(R)
  <1>1. PICK l \in Nat : l = Len(seq) /\ DOMAIN seq = 1..l
    OBVIOUS
  <1>2. PICK f : f = PickedUpto(seq, at) /\ PicksTo(f, seq, at, l)
    BY <1>1, UptoIs
  <1>3. f[0] = <<>>
    BY <1>2 DEF PicksTo
  <1>4. \A n \in 1..l : f[n] = IF n \in at THEN Append(f[n - 1], seq[n]) ELSE f[n - 1]
    <2>1. TAKE n \in 1..l
    <2>2. n \in 0..l /\ n # 0
      OBVIOUS
    <2> QED BY <1>2, <2>2 DEF PicksTo
  <1> DEFINE S == {n \in Nat : n <= l => f[n] \in Seq(R)}
  <1>5. 0 \in S
    <2>1. <<>> \in Seq(R)
      OBVIOUS
    <2> QED BY <1>3, <2>1
  <1>6. ASSUME NEW n \in Nat, n \in S PROVE n + 1 \in S
    <2> SUFFICES ASSUME n + 1 <= l PROVE f[n + 1] \in Seq(R)
      OBVIOUS
    <2>1. f[n] \in Seq(R)
      BY <1>6
    <2>2. n + 1 \in 1..l /\ (n + 1) - 1 = n
      OBVIOUS
    <2>3. f[n + 1] = IF n + 1 \in at THEN Append(f[n], seq[n + 1]) ELSE f[n]
      BY <1>4, <2>2
    <2>4. CASE n + 1 \in at
      <3>1. seq[n + 1] \in R
        BY <1>1, <2>2, <2>4
      <3>2. Append(f[n], seq[n + 1]) \in Seq(R)
        BY <2>1, <3>1
      <3> QED BY <2>3, <2>4, <3>2
    <2>5. CASE n + 1 \notin at
      BY <2>1, <2>3, <2>5
    <2> QED BY <2>4, <2>5
  <1> HIDE DEF S
  <1>7. Nat \subseteq S
    BY <1>5, <1>6, Induct
  <1>8. \A n \in 0..l : f[n] \in Seq(R)
    BY <1>7 DEF S
  <1> QED BY <1>1, <1>2, <1>3, <1>4, <1>8
-----------------------------------------------------------------------------
(* A function by recursion on the first n numbers. *)
Recurs(f, z, n, G) == f[0] = z /\ \A k \in 1..n : f[k] = G[<<k, f[k-1]>>]

LEMMA Recursion ==
  ASSUME NEW D, NEW z \in D, NEW n \in Nat, NEW G \in [(1..n) \X D -> D]
  PROVE  \E f \in [0..n -> D] : Recurs(f, z, n, G)
  <1> DEFINE S == {m \in Nat : m <= n => \E f \in [0..m -> D] : Recurs(f, z, m, G)}
  <1>1. 0 \in S
    <2>1. PICK f \in [0..0 -> D] : f[0] = z
      <3>1. [k \in 0..0 |-> z] \in [0..0 -> D] /\ [k \in 0..0 |-> z][0] = z
        OBVIOUS
      <3> QED BY <3>1
    <2>2. Recurs(f, z, 0, G)
      BY <2>1 DEF Recurs
    <2> QED BY <2>2
  <1>2. ASSUME NEW m \in Nat, m \in S PROVE m + 1 \in S
    <2> SUFFICES ASSUME m + 1 <= n PROVE \E f \in [0..m + 1 -> D] : Recurs(f, z, m + 1, G)
      OBVIOUS
    <2>1. PICK f \in [0..m -> D] : Recurs(f, z, m, G)
      BY <1>2
    <2>2. PICK e \in D : e = G[<<m + 1, f[m]>>]
      <3>1. m + 1 \in 1..n /\ f[m] \in D
        OBVIOUS
      <3> QED BY <3>1
    <2>3. PICK g : g = [k \in 0..m + 1 |-> IF k = m + 1 THEN e ELSE f[k]]
      OBVIOUS
    <2>4. g \in [0..m + 1 -> D]
      BY <2>3
    <2>5. g[0] = z
      BY <2>1, <2>3 DEF Recurs
    <2>6. ASSUME NEW k \in 1..m + 1 PROVE g[k] = G[<<k, g[k-1]>>]
      <3>1. CASE k = m + 1
        <4>1. k - 1 = m /\ g[k] = e /\ g[m] = f[m]
          BY <2>3, <3>1
        <4> QED BY <2>2, <3>1, <4>1
      <3>2. CASE k # m + 1
        <4>1. k \in 1..m /\ g[k] = f[k] /\ g[k-1] = f[k-1]
          BY <2>3, <3>2
        <4> QED BY <2>1, <4>1 DEF Recurs
      <3> QED BY <3>1, <3>2
    <2> QED BY <2>4, <2>5, <2>6 DEF Recurs
  <1> HIDE DEF S
  <1>3. Nat \subseteq S
    BY <1>1, <1>2, Induct
  <1>4. n \in S
    BY <1>3
  <1> QED BY <1>4 DEF S

-----------------------------------------------------------------------------
(* sum. *)

LEMMA UptoTotals ==
  ASSUME NEW s \in Seq(Int)
  PROVE  /\ TotalUpto(s) \in [0..Len(s) -> Int]
         /\ TotalUpto(s)[0] = 0
         /\ \A k \in 1..Len(s) : TotalUpto(s)[k] = TotalUpto(s)[k-1] + s[k]
         /\ Total(s) = TotalUpto(s)[Len(s)]
  <1>1. PICK n \in Nat : n = Len(s) /\ \A k \in 1..n : s[k] \in Int
    OBVIOUS
  <1>2. \E f : f \in [0..n -> Int] /\ f = [k \in 0..n |-> IF k = 0 THEN 0 ELSE f[k-1] + s[k]]
    <2>1. PICK G : G = [x \in (1..n) \X Int |-> x[2] + s[x[1]]]
      OBVIOUS
    <2>2. G \in [(1..n) \X Int -> Int]
      BY <1>1, <2>1
    <2>3. PICK f \in [0..n -> Int] : f[0] = 0 /\ \A k \in 1..n : f[k] = G[<<k, f[k-1]>>]
      <3>1. PICK D : D = Int
        OBVIOUS
      <3>2. PICK z \in D : z = 0
        BY <3>1
      <3>3. G \in [(1..n) \X D -> D]
        BY <2>2, <3>1
      <3>4. \E f \in [0..n -> D] : Recurs(f, z, n, G)
        BY <3>3, Recursion
      <3> QED BY <3>1, <3>2, <3>4 DEF Recurs
    <2>4. ASSUME NEW k \in 1..n PROVE G[<<k, f[k-1]>>] = f[k-1] + s[k]
      <3>1. PICK v \in Int : v = f[k-1]
        <4>1. k - 1 \in 0..n
          OBVIOUS
        <4> QED BY <4>1
      <3>2. <<k, v>> \in (1..n) \X Int
        OBVIOUS
      <3> QED BY <2>1, <3>1, <3>2
    <2>5. ASSUME NEW k \in 0..n PROVE f[k] = IF k = 0 THEN 0 ELSE f[k-1] + s[k]
      <3>1. CASE k = 0
        BY <2>3, <3>1
      <3>2. CASE k # 0
        <4>1. k \in 1..n
          BY <3>2
        <4> QED BY <2>3, <2>4, <3>2, <4>1
      <3> QED BY <3>1, <3>2
    <2>6. f = [k \in 0..n |-> IF k = 0 THEN 0 ELSE f[k-1] + s[k]]
      BY <2>5
    <2> QED BY <2>6
  <1> DEFINE upto == CHOOSE f : f = [k \in 0..Len(s) |-> IF k = 0 THEN 0 ELSE f[k-1] + s[k]]
  <1>3. \E f : f = [k \in 0..Len(s) |-> IF k = 0 THEN 0 ELSE f[k-1] + s[k]]
    BY <1>1, <1>2
  <1>4. upto = [k \in 0..Len(s) |-> IF k = 0 THEN 0 ELSE upto[k-1] + s[k]]
    BY <1>3, Zenon
  <1>5. TotalUpto(s) = upto
    BY Zenon DEF TotalUpto
  <1>6. PICK f : f = TotalUpto(s)
    OBVIOUS
  <1>7. f = [k \in 0..n |-> IF k = 0 THEN 0 ELSE f[k-1] + s[k]]
    BY <1>1, <1>4, <1>5, <1>6
  <1> HIDE DEF upto
  <1>8. f[0] = 0 /\ \A k \in 1..n : f[k] = f[k-1] + s[k]
    BY <1>7
  <1> DEFINE S == {k \in Nat : k <= n => f[k] \in Int}
  <1>9. 0 \in S
    BY <1>8
  <1>10. ASSUME NEW k \in Nat, k \in S PROVE k + 1 \in S
    <2> SUFFICES ASSUME k + 1 <= n PROVE f[k + 1] \in Int
      OBVIOUS
    <2>1. k + 1 \in 1..n /\ (k + 1) - 1 = k /\ f[k] \in Int
      BY <1>10
    <2> QED BY <1>1, <1>8, <2>1
  <1> HIDE DEF S
  <1>11. Nat \subseteq S
    BY <1>9, <1>10, Induct
  <1>12. \A k \in 0..n : f[k] \in Int
    BY <1>11 DEF S
  <1>13. f \in [0..n -> Int]
    BY <1>7, <1>12
  <1> QED BY <1>1, <1>6, <1>8, <1>13 DEF Total

(* Two lists that agree but for what is added to one element of the first. *)
LEMMA UptosDiffer ==
  ASSUME NEW s \in Seq(Int), NEW t \in Seq(Int), NEW n \in Nat, n <= Len(s), n <= Len(t),
         NEW i \in Nat, NEW d \in Int,
         \A k \in 1..n : k # i => t[k] = s[k],
         i \in 1..n => t[i] = s[i] + d
  PROVE  /\ i \in 1..n => TotalUpto(t)[n] = TotalUpto(s)[n] + d
         /\ i \notin 1..n => TotalUpto(t)[n] = TotalUpto(s)[n]
  <1>1. PICK f : f = TotalUpto(s)
    OBVIOUS
  <1>2. /\ f[0] = 0 /\ \A k \in 0..n : f[k] \in Int
        /\ \A k \in 1..n : f[k] = f[k-1] + s[k] /\ s[k] \in Int
    <2>1. \A k \in 0..n : k \in 0..Len(s)
      OBVIOUS
    <2>2. \A k \in 1..n : k \in 1..Len(s) /\ s[k] \in Int
      OBVIOUS
    <2>3. f \in [0..Len(s) -> Int] /\ f[0] = 0 /\ \A k \in 1..Len(s) : f[k] = f[k-1] + s[k]
      BY <1>1, UptoTotals
    <2> QED BY <2>1, <2>2, <2>3
  <1>3. PICK g : g = TotalUpto(t)
    OBVIOUS
  <1>4. g[0] = 0 /\ \A k \in 1..n : g[k] = g[k-1] + t[k]
    <2>1. \A k \in 1..n : k \in 1..Len(t)
      OBVIOUS
    <2>2. g[0] = 0 /\ \A k \in 1..Len(t) : g[k] = g[k-1] + t[k]
      BY <1>3, UptoTotals
    <2> QED BY <2>1, <2>2
  <1> DEFINE Differ(k) == /\ i \in 1..k => g[k] = f[k] + d
                          /\ i \notin 1..k => g[k] = f[k]
             S == {k \in Nat : k <= n => Differ(k)}
  <1>5. 0 \in S
    <2>1. i \notin 1..0
      OBVIOUS
    <2> QED BY <1>2, <1>4, <2>1
  <1>6. ASSUME NEW k \in Nat, k \in S PROVE k + 1 \in S
    <2> SUFFICES ASSUME k + 1 <= n
                 PROVE  /\ i \in 1..k + 1 => g[k + 1] = f[k + 1] + d
                        /\ i \notin 1..k + 1 => g[k + 1] = f[k + 1]
      OBVIOUS
    <2>1. /\ k + 1 \in 1..n /\ (k + 1) - 1 = k /\ k \in 0..n
          /\ i \in 1..k => g[k] = f[k] + d
          /\ i \notin 1..k => g[k] = f[k]
      BY <1>6
    <2>2. /\ g[k + 1] = g[k] + t[k + 1] /\ f[k + 1] = f[k] + s[k + 1]
          /\ f[k] \in Int /\ s[k + 1] \in Int
      BY <1>2, <1>4, <2>1
    <2>3. CASE i = k + 1
      <3>1. i \notin 1..k /\ t[k + 1] = s[k + 1] + d
        BY <2>1, <2>3
      <3> QED BY <2>1, <2>2, <2>3, <3>1
    <2>4. CASE i # k + 1
      <3>1. i \in 1..k + 1 <=> i \in 1..k
        BY <2>4
      <3>2. t[k + 1] = s[k + 1]
        BY <2>1, <2>4
      <3>3. PICK x \in Int, y \in Int : x = f[k] /\ y = s[k + 1]
        BY <2>2
      <3>4. f[k + 1] = x + y /\ g[k + 1] = g[k] + y
        BY <2>2, <3>2, <3>3
      <3>5. CASE i \in 1..k
        <4>1. g[k] = x + d
          BY <2>1, <3>3, <3>5
        <4> QED BY <3>1, <3>4, <3>5, <4>1
      <3>6. CASE i \notin 1..k
        <4>1. g[k] = x
          BY <2>1, <3>3, <3>6
        <4> QED BY <3>1, <3>4, <3>6, <4>1
      <3> QED BY <3>5, <3>6
    <2> QED BY <2>3, <2>4
  <1> HIDE DEF S
  <1>7. Nat \subseteq S
    BY <1>5, <1>6, Induct
  <1>8. Differ(n)
    BY <1>7 DEF S
  <1> QED BY <1>1, <1>3, <1>8

LEMMA TotalAppend ==
  ASSUME NEW s \in Seq(Int), NEW e \in Int
  PROVE  Total(Append(s, e)) = Total(s) + e
  <1>1. PICK n \in Nat : n = Len(s)
    OBVIOUS
  <1>2. PICK t \in Seq(Int) : t = Append(s, e)
    BY AppendProperties
  <1>3. Len(t) = n + 1 /\ t[n + 1] = e /\ \A k \in 1..n : t[k] = s[k] /\ s[k] \in Int
    BY <1>1, <1>2
  <1>4. TotalUpto(t)[n] = TotalUpto(s)[n]
    <2>1. 0 \notin 1..n /\ n <= Len(s) /\ n <= Len(t) /\ \A k \in 1..n : k # 0 => t[k] = s[k]
      BY <1>1, <1>3
    <2> QED BY <2>1, UptosDiffer
  <1>5. Total(t) = TotalUpto(t)[n] + e
    <2>1. n + 1 \in 1..Len(t) /\ (n + 1) - 1 = n
      BY <1>3
    <2> QED BY <1>3, <2>1, UptoTotals
  <1> QED BY <1>1, <1>2, <1>4, <1>5, UptoTotals

LEMMA TotalGrows ==
  ASSUME NEW s \in Seq(Int), NEW t \in Seq(Int), NEW n \in Nat, n = Len(s), Len(t) = n + 1,
         \A k \in 1..n : t[k] = s[k]
  PROVE  Total(t) = Total(s) + t[n + 1]
  <1>1. PICK e \in Int : e = t[n + 1]
    OBVIOUS
  <1>2. t = Append(s, e)
    BY <1>1
  <1> QED BY <1>1, <1>2, TotalAppend

LEMMA TotalChanged ==
  ASSUME NEW s \in Seq(Int), NEW t \in Seq(Int), Len(t) = Len(s), NEW i \in DOMAIN s,
         \A k \in DOMAIN s : k # i => t[k] = s[k]
  PROVE  Total(t) = Total(s) + (t[i] - s[i])
  <1>1. PICK n \in Nat : n = Len(s) /\ DOMAIN s = 1..n
    OBVIOUS
  <1>2. PICK d \in Int : d = t[i] - s[i]
    BY <1>1
  <1>3. t[i] = s[i] + d
    BY <1>1, <1>2
  <1>4. i \in Nat /\ i \in 1..n
    BY <1>1
  <1>5. n <= Len(s) /\ n <= Len(t) /\ \A k \in 1..n : k # i => t[k] = s[k]
    BY <1>1
  <1>6. TotalUpto(t)[n] = TotalUpto(s)[n] + d
    BY <1>3, <1>4, <1>5, UptosDiffer
  <1> QED BY <1>1, <1>2, <1>6, UptoTotals

(* The sum of numbers that are none below 0. *)
LEMMA TotalNat ==
  ASSUME NEW s \in Seq(Nat)
  PROVE  Total(s) \in Nat
  <1>1. PICK n \in Nat : n = Len(s) /\ \A k \in 1..n : s[k] \in Nat
    OBVIOUS
  <1>2. s \in Seq(Int)
    OBVIOUS
  <1>3. PICK f : f = TotalUpto(s) /\ f[0] = 0 /\ \A k \in 1..n : f[k] = f[k-1] + s[k]
    BY <1>1, <1>2, UptoTotals
  <1> DEFINE S == {k \in Nat : k <= n => f[k] \in Nat}
  <1>4. 0 \in S
    BY <1>3
  <1>5. ASSUME NEW k \in Nat, k \in S PROVE k + 1 \in S
    <2> SUFFICES ASSUME k + 1 <= n PROVE f[k + 1] \in Nat
      OBVIOUS
    <2>1. k + 1 \in 1..n /\ (k + 1) - 1 = k /\ f[k] \in Nat
      BY <1>5
    <2> QED BY <1>1, <1>3, <2>1
  <1> HIDE DEF S
  <1>6. Nat \subseteq S
    BY <1>4, <1>5, Induct
  <1> QED BY <1>1, <1>2, <1>3, <1>6, UptoTotals DEF S

LEMMA TotalIs0 ==
  ASSUME NEW s \in Seq(Int), \A k \in DOMAIN s : s[k] = 0
  PROVE  Total(s) = 0
  <1>1. PICK n \in Nat : n = Len(s) /\ DOMAIN s = 1..n
    OBVIOUS
  <1>2. PICK f : f = TotalUpto(s) /\ f[0] = 0 /\ \A k \in 1..n : f[k] = f[k-1] + s[k]
    BY <1>1, UptoTotals
  <1> DEFINE S == {k \in Nat : k <= n => f[k] = 0}
  <1>3. 0 \in S
    BY <1>2
  <1>4. ASSUME NEW k \in Nat, k \in S PROVE k + 1 \in S
    <2> SUFFICES ASSUME k + 1 <= n PROVE f[k + 1] = 0
      OBVIOUS
    <2>1. k + 1 \in 1..n /\ (k + 1) - 1 = k /\ f[k] = 0
      BY <1>4
    <2> QED BY <1>1, <1>2, <2>1
  <1> HIDE DEF S
  <1>5. Nat \subseteq S
    BY <1>3, <1>4, Induct
  <1> QED BY <1>1, <1>2, <1>5, UptoTotals DEF S

-----------------------------------------------------------------------------
(* FlattenSeq. *)

FlattensTo(f, seqs) ==
    /\ \A i \in 1..Len(seqs) : f[i] = IF i = 1 THEN seqs[i] ELSE f[i-1] \o seqs[i]
    /\ FlattenSeq(seqs) = IF Len(seqs) = 0 THEN seqs ELSE f[Len(seqs)]

LEMMA Flattens ==
  ASSUME NEW T, NEW seqs \in Seq(Seq(T))
  PROVE  \E f : FlattensTo(f, seqs) /\ \A i \in 1..Len(seqs) : f[i] \in Seq(T)
  <1>1. PICK n \in Nat : n = Len(seqs) /\ \A k \in 1..n : seqs[k] \in Seq(T)
    OBVIOUS
  <1>2. \E f : f = [i \in 1..n |-> IF i = 1 THEN seqs[i] ELSE f[i-1] \o seqs[i]]
    <2>1. PICK G : G = [x \in (1..n) \X Seq(T) |-> x[2] \o seqs[x[1]]]
      OBVIOUS
    <2>2. G \in [(1..n) \X Seq(T) -> Seq(T)]
      <3>1. \A x \in (1..n) \X Seq(T) : x[2] \in Seq(T) /\ seqs[x[1]] \in Seq(T)
        BY <1>1
      <3>2. \A x \in (1..n) \X Seq(T) : x[2] \o seqs[x[1]] \in Seq(T)
        BY <3>1
      <3> QED BY <2>1, <3>2
    <2>3. <<>> \in Seq(T)
      OBVIOUS
    <2>4. PICK h \in [0..n -> Seq(T)] : h[0] = <<>> /\ \A k \in 1..n : h[k] = G[<<k, h[k-1]>>]
      <3>1. PICK D : D = Seq(T)
        OBVIOUS
      <3>2. PICK z \in D : z = <<>>
        BY <2>3, <3>1
      <3>3. G \in [(1..n) \X D -> D]
        BY <2>2, <3>1
      <3>4. \E h \in [0..n -> D] : Recurs(h, z, n, G)
        BY <3>3, Recursion
      <3> QED BY <3>1, <3>2, <3>4 DEF Recurs
    <2>5. ASSUME NEW k \in 1..n PROVE h[k] = h[k-1] \o seqs[k]
      <3>1. PICK v \in Seq(T) : v = h[k-1]
        <4>1. k - 1 \in 0..n
          OBVIOUS
        <4> QED BY <4>1
      <3>2. <<k, v>> \in (1..n) \X Seq(T)
        OBVIOUS
      <3>3. h[k] = G[<<k, v>>]
        BY <2>4, <3>1, <3>2
      <3>4. G[<<k, v>>] = v \o seqs[k]
        BY <2>1, <3>2
      <3> QED BY <3>1, <3>3, <3>4
    <2>6. PICK f : f = [k \in 1..n |-> h[k]]
      OBVIOUS
    <2>7. ASSUME NEW i \in 1..n PROVE f[i] = IF i = 1 THEN seqs[i] ELSE f[i-1] \o seqs[i]
      <3>1. f[i] = h[i] /\ (i # 1 => f[i-1] = h[i-1])
        BY <2>6
      <3>2. CASE i = 1
        <4>1. h[0] = <<>> /\ i - 1 = 0
          BY <2>4, <3>2
        <4>2. seqs[i] \in Seq(T)
          BY <1>1
        <4>3. <<>> \o seqs[i] = seqs[i]
          BY <4>2, ConcatEmptySeq
        <4> QED BY <2>5, <3>1, <3>2, <4>1, <4>3
      <3> QED BY <2>5, <3>1, <3>2
    <2>8. f = [i \in 1..n |-> IF i = 1 THEN seqs[i] ELSE f[i-1] \o seqs[i]]
      BY <2>6, <2>7
    <2> QED BY <2>8
  <1> DEFINE flatten == CHOOSE f : f = [i \in 1..Len(seqs) |->
                           IF i = 1 THEN seqs[i] ELSE f[i-1] \o seqs[i]]
  <1>3. \E f : f = [i \in 1..Len(seqs) |-> IF i = 1 THEN seqs[i] ELSE f[i-1] \o seqs[i]]
    BY <1>1, <1>2
  <1>4. flatten = [i \in 1..Len(seqs) |->
                     IF i = 1 THEN seqs[i] ELSE flatten[i-1] \o seqs[i]]
    BY <1>3, Zenon
  <1>5. FlattenSeq(seqs) = IF Len(seqs) = 0 THEN seqs ELSE flatten[Len(seqs)]
    BY Zenon DEF FlattenSeq
  <1> HIDE DEF flatten
  <1>6. PICK f : f = flatten
    OBVIOUS
  <1>7. f = [i \in 1..n |-> IF i = 1 THEN seqs[i] ELSE f[i-1] \o seqs[i]]
    BY <1>1, <1>4, <1>6
  <1>8. \A i \in 1..n : f[i] = IF i = 1 THEN seqs[i] ELSE f[i-1] \o seqs[i]
    BY <1>7
  <1>9. FlattensTo(f, seqs)
    BY <1>1, <1>5, <1>6, <1>8 DEF FlattensTo
  <1> DEFINE S == {i \in Nat : i + 1 <= n => f[i + 1] \in Seq(T)}
  <1>10. 0 \in S
    BY <1>1, <1>8
  <1>11. ASSUME NEW i \in Nat, i \in S PROVE i + 1 \in S
    <2> SUFFICES ASSUME (i + 1) + 1 <= n PROVE f[(i + 1) + 1] \in Seq(T)
      OBVIOUS
    <2>1. /\ (i + 1) + 1 \in 1..n /\ (i + 1) + 1 # 1 /\ ((i + 1) + 1) - 1 = i + 1
          /\ f[i + 1] \in Seq(T)
      BY <1>11
    <2>2. f[(i + 1) + 1] = f[i + 1] \o seqs[(i + 1) + 1]
      BY <1>8, <2>1
    <2>3. f[i + 1] \o seqs[(i + 1) + 1] \in Seq(T)
      BY <1>1, <2>1
    <2> QED BY <2>2, <2>3
  <1> HIDE DEF S
  <1>12. Nat \subseteq S
    BY <1>10, <1>11, Induct
  <1>13. ASSUME NEW i \in 1..n PROVE f[i] \in Seq(T)
    <2>1. i - 1 \in S /\ (i - 1) + 1 = i
      BY <1>12
    <2> QED BY <2>1 DEF S
  <1> QED BY <1>1, <1>9, <1>13

LEMMA FlattenIsSeq ==
  ASSUME NEW T, NEW seqs \in Seq(Seq(T))
  PROVE  FlattenSeq(seqs) \in Seq(T)
  <1>1. PICK f : FlattensTo(f, seqs) /\ \A i \in 1..Len(seqs) : f[i] \in Seq(T)
    BY Flattens
  <1>2. CASE Len(seqs) = 0
    <2>1. seqs = <<>> /\ <<>> \in Seq(T)
      BY <1>2
    <2> QED BY <1>1, <1>2, <2>1 DEF FlattensTo
  <1>3. CASE Len(seqs) # 0
    <2>1. Len(seqs) \in 1..Len(seqs)
      BY <1>3
    <2> QED BY <1>1, <1>3, <2>1 DEF FlattensTo
  <1> QED BY <1>2, <1>3

(* One more list goes behind the others. *)
LEMMA FlattenAppend ==
  ASSUME NEW T, NEW seqs \in Seq(Seq(T)), NEW s \in Seq(T)
  PROVE  FlattenSeq(Append(seqs, s)) = FlattenSeq(seqs) \o s
  <1>1. PICK n \in Nat : n = Len(seqs)
    OBVIOUS
  <1>2. PICK more \in Seq(Seq(T)) : more = Append(seqs, s)
    BY AppendProperties
  <1>3. /\ Len(more) = n + 1 /\ more[n + 1] = s
        /\ \A k \in 1..n : more[k] = seqs[k]
    BY <1>1, <1>2
  <1>4. PICK f : FlattensTo(f, seqs) /\ \A i \in 1..n : f[i] \in Seq(T)
    BY <1>1, Flattens
  <1>5. PICK g : FlattensTo(g, more)
    BY Flattens
  <1> DEFINE S == {i \in Nat : i + 1 <= n => g[i + 1] = f[i + 1]}
  <1>6. 0 \in S
    BY <1>1, <1>3, <1>4, <1>5 DEF FlattensTo
  <1>7. ASSUME NEW i \in Nat, i \in S PROVE i + 1 \in S
    <2> SUFFICES ASSUME (i + 1) + 1 <= n PROVE g[(i + 1) + 1] = f[(i + 1) + 1]
      OBVIOUS
    <2>1. /\ (i + 1) + 1 \in 1..n /\ (i + 1) + 1 \in 1..n + 1
          /\ (i + 1) + 1 # 1 /\ ((i + 1) + 1) - 1 = i + 1
          /\ g[i + 1] = f[i + 1]
      BY <1>7
    <2> QED BY <1>1, <1>3, <1>4, <1>5, <2>1 DEF FlattensTo
  <1> HIDE DEF S
  <1>8. Nat \subseteq S
    BY <1>6, <1>7, Induct
  <1>9. CASE n = 0
    <2>1. seqs = <<>> /\ <<>> \o s = s
      BY <1>1, <1>9, EmptySeq, ConcatEmptySeq
    <2>2. g[1] = s
      BY <1>3, <1>5, <1>9 DEF FlattensTo
    <2> QED BY <1>1, <1>2, <1>3, <1>4, <1>5, <1>9, <2>1, <2>2 DEF FlattensTo
  <1>10. CASE n # 0
    <2>1. n - 1 \in S /\ (n - 1) + 1 = n
      BY <1>8, <1>10
    <2>2. g[n] = f[n]
      BY <2>1 DEF S
    <2>3. n + 1 \in 1..n + 1 /\ n + 1 # 1 /\ (n + 1) - 1 = n
      BY <1>10
    <2>4. g[n + 1] = g[n] \o s
      BY <1>3, <1>5, <2>3 DEF FlattensTo
    <2>5. FlattenSeq(more) = g[n + 1] /\ FlattenSeq(seqs) = f[n]
      BY <1>1, <1>3, <1>4, <1>5, <1>10 DEF FlattensTo
    <2> QED BY <1>2, <2>2, <2>4, <2>5
  <1> QED BY <1>9, <1>10

-----------------------------------------------------------------------------
(* The least and the greatest number. *)

LEMMA MinOfTwo ==
  ASSUME NEW a \in Int, NEW b \in Int
  PROVE  Min({a, b}) = IF a <= b THEN a ELSE b
  <1>1. PICK m \in {a, b} : \A y \in {a, b} : m <= y
    OBVIOUS
  <1>2. Min({a, b}) \in {a, b} /\ \A y \in {a, b} : Min({a, b}) <= y
    BY <1>1 DEF Min
  <1> QED BY <1>2

LEMMA GreatestIs ==
  ASSUME NEW n \in Nat, NEW f, \A k \in 1..n : f[k] \in Nat,
         NEW S, S = {0} \cup {f[k] : k \in 1..n}
  PROVE  Max(S) \in S /\ \A y \in S : Max(S) >= y
  <1> DEFINE T == {m \in Nat : m <= n =>
                      \E x \in {0} \cup {f[k] : k \in 1..m} :
                          \A y \in {0} \cup {f[k] : k \in 1..m} : x >= y}
  <1>1. 0 \in T
    OBVIOUS
  <1>2. ASSUME NEW m \in Nat, m \in T PROVE m + 1 \in T
    <2> SUFFICES ASSUME m + 1 <= n
                 PROVE  \E x \in {0} \cup {f[k] : k \in 1..m + 1} :
                            \A y \in {0} \cup {f[k] : k \in 1..m + 1} : x >= y
      OBVIOUS
    <2>1. PICK x \in {0} \cup {f[k] : k \in 1..m} :
              \A y \in {0} \cup {f[k] : k \in 1..m} : x >= y
      BY <1>2
    <2>2. PICK e \in Nat : e = f[m + 1]
      <3>1. m + 1 \in 1..n
        OBVIOUS
      <3> QED BY <3>1
    <2>3. {f[k] : k \in 1..m + 1} = {f[k] : k \in 1..m} \cup {e}
      <3>1. 1..m + 1 = (1..m) \cup {m + 1}
        OBVIOUS
      <3> QED BY <2>2, <3>1
    <2>4. x \in Nat
      OBVIOUS
    <2>5. CASE x >= e
      BY <2>1, <2>2, <2>3, <2>4, <2>5
    <2>6. CASE e > x
      <3>1. \A y \in {0} \cup {f[k] : k \in 1..m} : y \in Nat
        OBVIOUS
      <3> QED BY <2>1, <2>2, <2>3, <2>4, <2>6, <3>1
    <2> QED BY <2>2, <2>4, <2>5, <2>6
  <1> HIDE DEF T
  <1>3. Nat \subseteq T
    BY <1>1, <1>2, Induct
  <1>4. n \in T
    BY <1>3
  <1>5. \E x \in S : \A y \in S : x >= y
    BY <1>4 DEF T
  <1> QED BY <1>5 DEF Max

LEMMA GreatestOfSome ==
  ASSUME NEW n \in Nat, NEW S \in SUBSET (1..n), S # {}
  PROVE  Max(S) \in S
  <1>1. PICK f : f = [k \in 1..n |-> IF k \in S THEN k ELSE 0]
    OBVIOUS
  <1>2. \A k \in 1..n : f[k] \in Nat
    BY <1>1
  <1>3. PICK T : T = {0} \cup {f[k] : k \in 1..n}
    OBVIOUS
  <1>4. Max(T) \in T /\ \A y \in T : Max(T) >= y
    BY <1>2, <1>3, GreatestIs
  <1>5. PICK m : m = Max(T)
    OBVIOUS
  <1>6. \A k \in S : k \in T /\ k \in Nat /\ k > 0
    BY <1>1, <1>3
  <1>7. m \in Nat /\ m # 0
    <2>1. m \in Nat
      BY <1>2, <1>3, <1>4, <1>5
    <2>2. PICK k \in Nat : k \in T /\ k > 0
      BY <1>6
    <2>3. m >= k
      BY <1>4, <1>5, <2>2
    <2> QED BY <2>1, <2>2, <2>3
  <1>8. m \in S
    BY <1>1, <1>3, <1>4, <1>5, <1>7
  <1>9. \E x \in S : \A y \in S : x >= y
    BY <1>4, <1>5, <1>6, <1>8
  <1> QED BY <1>9 DEF Max
=============================================================================
