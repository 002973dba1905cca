---------------------------- MODULE Wyoming_proof ----------------------------
(***************************************************************************)
(* Proofs about the voice engines and the Wyoming connections, for any     *)
(* number of calls and connections, whatever their clients send.           *)
(*                                                                         *)
(* First the engines and their lock by themselves (GpuVoice): the types,   *)
(* one engine at a time, and the hub gives the GPU up exactly after three  *)
(* faults in a row.  Then the connections: they use the engines as         *)
(* GpuVoice says, no call is without its connection, and each client gets  *)
(* its answers in order, with the transcript of its own audio.             *)
(***************************************************************************)
EXTENDS Wyoming, FiniteSetTheorems, Iterators_proof

(* The lock: who works holds it, and nobody else does. *)
Held ==
    /\ \A c \in Calls : call[c] = "working" <=> holder = c
    /\ \A c \in jobs : call[c] \in {"working", "timed_out"}

(* The queue has each waiting call, once, and no other one. *)
Queued ==
    /\ \A i \in DOMAIN queue : call[queue[i]] = "waiting"
    /\ \A i, j \in DOMAIN queue : queue[i] = queue[j] => i = j
    /\ \A c \in Calls : call[c] = "waiting" => \E i \in DOMAIN queue : queue[i] = c

(* A fault that no success has followed yet.  faults is the number of      *)
(* these; three are told from none, one and two.                           *)
Open(i) == Faulty(log[i]) /\ \A m \in i..Len(log) : ~Restored(log[m])

OneOpen   == \E i \in DOMAIN log : Open(i)
TwoOpen   == \E i, j \in DOMAIN log : i < j /\ Open(i) /\ Open(j)
ThreeOpen == \E i, j, k \in DOMAIN log : i < j /\ j < k /\ Open(i) /\ Open(j) /\ Open(k)

Counted ==
    /\ faults >= 1 <=> OneOpen
    /\ faults >= 2 <=> TwoOpen
    /\ faults >= 3 <=> ThreeOpen

IndInv == TypeOK /\ Held /\ Queued /\ Counted /\ LostAfterThree

-----------------------------------------------------------------------------
LEMMA IntervalGrows ==
  ASSUME NEW n \in Nat, NEW i \in 1..n
  PROVE  i..n + 1 = (i..n) \cup {n + 1}
  OBVIOUS

(* What an entry at the end of the log does to the open faults. *)
LEMMA LogGrows ==
  ASSUME log \in Seq(Calls \X Result), NEW n \in Nat, n = Len(log),
         NEW e \in Calls \X Result, log' = Append(log, e), onGpu' = onGpu
  PROVE  /\ DOMAIN log = 1..n
         /\ DOMAIN log' = 1..n + 1
         /\ log'[n + 1] = e
         /\ \A i \in 1..n : log'[i] = log[i]
         /\ \A i \in 1..n : Open(i)' <=> Open(i) /\ ~Restored(e)
         /\ Open(n + 1)' <=> Faulty(e)
  <1>1. /\ DOMAIN log = 1..n /\ Len(log') = n + 1 /\ DOMAIN log' = 1..n + 1
        /\ log'[n + 1] = e /\ \A i \in 1..n : log'[i] = log[i]
    BY AppendProperties, LenProperties
  <1>2. ASSUME NEW i \in 1..n PROVE Open(i)' <=> Open(i) /\ ~Restored(e)
    <2>1. i..n + 1 = (i..n) \cup {n + 1}
      BY IntervalGrows
    <2>2. \A m \in i..n : m \in 1..n /\ m \in i..n + 1
      OBVIOUS
    <2>3. n + 1 \in i..n + 1
      OBVIOUS
    <2> QED BY <1>1, <2>1, <2>2, <2>3 DEF Open, Faulty, Restored
  <1>3. Open(n + 1)' <=> Faulty(e)
    <2>1. n + 1..n + 1 = {n + 1}
      OBVIOUS
    <2>2. Faulty(e) => ~Restored(e)
      BY DEF Faulty, Restored
    <2> QED BY <1>1, <2>1, <2>2 DEF Open, Faulty, Restored
  <1> QED BY <1>1, <1>2, <1>3

(* Counting a result keeps the count and the token true. *)
LEMMA CountInv ==
  ASSUME TypeOK, Counted, LostAfterThree, NEW c \in Calls, NEW r \in Result,
         Count(c, r), onGpu' = onGpu
  PROVE  Counted' /\ LostAfterThree' /\ faults' \in Nat /\ lost' \in BOOLEAN
         /\ log' \in Seq(Calls \X Result)
  <1> DEFINE e == <<c, r>>
  <1>1. PICK n \in Nat : n = Len(log)
    BY LenProperties DEF TypeOK
  <1>2. /\ e \in Calls \X Result /\ log' = Append(log, e) /\ log \in Seq(Calls \X Result)
        /\ Faulty(e) <=> c \in onGpu /\ r = "fault"
        /\ Restored(e) <=> c \in onGpu /\ r = "ok"
    BY DEF Count, TypeOK, Faulty, Restored
  <1>3. /\ faults \in Nat /\ lost \in BOOLEAN
        /\ faults' = IF Restored(e) THEN 0 ELSE IF Faulty(e) THEN faults + 1 ELSE faults
        /\ lost' = (lost \/ (Faulty(e) /\ faults' >= 3))
    BY <1>2 DEF Count, TypeOK, FAULT_THRESHOLD
  <1> HIDE DEF e
  <1>4. /\ DOMAIN log = 1..n /\ DOMAIN log' = 1..n + 1
        /\ \A i \in 1..n : Open(i)' <=> Open(i) /\ ~Restored(e)
        /\ Open(n + 1)' <=> Faulty(e)
        /\ \A i \in 1..n : log'[i] = log[i]
        /\ log'[n + 1] = e
    BY <1>1, <1>2, LogGrows
  <1>5. log' \in Seq(Calls \X Result)
    BY <1>2, AppendProperties
  <1>6. ~(Faulty(e) /\ Restored(e))
    BY DEF Faulty, Restored
  <1>7. Counted'
    <2>1. CASE Restored(e)
      <3>1. \A i \in DOMAIN log' : ~Open(i)'
        BY <2>1, <1>4, <1>6
      <3> QED BY <2>1, <1>3, <3>1 DEF Counted, OneOpen, TwoOpen, ThreeOpen
    <2>2. CASE ~Restored(e) /\ ~Faulty(e)
      <3>1. \A i \in DOMAIN log' : Open(i)' <=> i \in DOMAIN log /\ Open(i)
        BY <2>2, <1>4
      <3>2. OneOpen' <=> OneOpen
        BY <1>4, <3>1 DEF OneOpen
      <3>3. TwoOpen' <=> TwoOpen
        BY <1>4, <3>1 DEF TwoOpen
      <3>4. ThreeOpen' <=> ThreeOpen
        BY <1>4, <3>1 DEF ThreeOpen
      <3> QED BY <2>2, <1>3, <3>2, <3>3, <3>4 DEF Counted
    <2>3. CASE Faulty(e)
      <3>1. /\ \A i \in 1..n : Open(i)' <=> Open(i)
            /\ Open(n + 1)'
        BY <2>3, <1>4, <1>6
      <3>2. OneOpen'
        BY <1>4, <3>1 DEF OneOpen
      <3>3. TwoOpen' <=> OneOpen
        BY <1>4, <3>1 DEF OneOpen, TwoOpen
      <3>4. ThreeOpen' <=> TwoOpen
        BY <1>4, <3>1 DEF TwoOpen, ThreeOpen
      <3> QED BY <2>3, <1>3, <1>6, <3>2, <3>3, <3>4 DEF Counted
    <2> QED BY <2>1, <2>2, <2>3
  <1>8. ThreeFaults' <=> ThreeFaults \/ (Faulty(e) /\ TwoOpen)
    <2>1. /\ \A m \in 1..n : Faulty(log[m])' <=> Faulty(log[m])
          /\ \A m \in 1..n : Restored(log[m])' <=> Restored(log[m])
          /\ \A m \in {n + 1} : Faulty(log[m])' <=> Faulty(e)
          /\ \A m \in {n + 1} : Restored(log[m])' <=> Restored(e)
      BY <1>4 DEF Faulty, Restored
    <2>2. ThreeFaults => ThreeFaults'
      BY <1>4, <2>1 DEF ThreeFaults
    <2>3. ASSUME Faulty(e), TwoOpen PROVE ThreeFaults'
      <3>1. PICK i, j \in 1..n : i < j /\ Open(i) /\ Open(j)
        BY <1>4, <2>3 DEF TwoOpen
      <3>2. \A m \in i..n + 1 : ~Restored(log[m])'
        BY <1>1, <1>6, <2>1, <2>3, <3>1 DEF Open
      <3>3. /\ Faulty(log[i])' /\ Faulty(log[j])' /\ \A k \in {n + 1} : Faulty(log[k])'
            /\ j < n + 1 /\ {i, j, n + 1} \subseteq DOMAIN log'
        BY <1>4, <2>1, <2>3, <3>1 DEF Open
      <3> QED BY <3>1, <3>2, <3>3 DEF ThreeFaults
    <2>4. ASSUME ThreeFaults' PROVE ThreeFaults \/ (Faulty(e) /\ TwoOpen)
      <3>1. PICK i, j, k \in 1..n + 1 :
                /\ i < j /\ j < k
                /\ Faulty(log[i])' /\ Faulty(log[j])' /\ Faulty(log[k])'
                /\ \A m \in i..k : ~Restored(log[m])'
        BY <1>4, <2>4 DEF ThreeFaults
      <3>2. i \in 1..n /\ j \in 1..n /\ Faulty(log[i]) /\ Faulty(log[j])
        BY <2>1, <3>1
      <3>3. CASE k = n + 1
        <4>1. \A m \in i..n : ~Restored(log[m])
          BY <2>1, <3>1, <3>2, <3>3
        <4>2. Open(i) /\ Open(j)
          BY <1>1, <3>1, <3>2, <4>1 DEF Open
        <4> QED BY <1>4, <2>1, <3>1, <3>2, <3>3, <4>2 DEF TwoOpen
      <3>4. CASE k \in 1..n
        BY <1>4, <2>1, <3>1, <3>2, <3>4 DEF ThreeFaults
      <3> QED BY <3>1, <3>3, <3>4
    <2> QED BY <2>2, <2>3, <2>4
  <1>9. LostAfterThree'
    <2>1. Faulty(e) /\ faults' >= 3 <=> Faulty(e) /\ TwoOpen
      BY <1>3, <1>6 DEF Counted
    <2> QED BY <1>3, <1>8, <2>1, Zenon DEF LostAfterThree
  <1> QED BY <1>3, <1>5, <1>7, <1>9

-----------------------------------------------------------------------------
LEMMA InitInv == Init => IndInv
  <1> SUFFICES ASSUME Init PROVE IndInv
    OBVIOUS
  <1>1. TypeOK
    BY EmptySeq DEF Init, TypeOK, Calls, Result
  <1>2. Held /\ Queued /\ Counted /\ LostAfterThree
    BY CallsAssumption DEF Init, Held, Queued, Counted, OneOpen, TwoOpen, ThreeOpen,
       LostAfterThree, ThreeFaults
  <1> QED BY <1>1, <1>2 DEF IndInv

(* What is left of a sequence without its element at position i. *)
LEMMA RemoveAtIs ==
  ASSUME NEW S, NEW s \in Seq(S), NEW n \in Nat, n = Len(s), NEW i \in 1..n
  PROVE  /\ RemoveAt(s, i) \in Seq(S)
         /\ DOMAIN RemoveAt(s, i) = 1..n - 1
         /\ \A j \in 1..n - 1 : RemoveAt(s, i)[j] = s[IF j < i THEN j ELSE j + 1]
  <1> DEFINE a == SubSeq(s, 1, i - 1)
             b == SubSeq(s, i + 1, n)
  <1>1. \A j \in 1..n : s[j] \in S
    BY ElementOfSeq
  <1>2. /\ a \in Seq(S) /\ Len(a) = i - 1
        /\ \A j \in 1..i - 1 : a[j] = s[j]
    <2>1. \A j \in 1..i - 1 : s[j] \in S
      BY <1>1
    <2> QED BY <2>1, SubSeqProperties
  <1>3. /\ b \in Seq(S) /\ Len(b) = n - i
        /\ \A j \in 1..n - i : b[j] = s[j + i]
    <2>1. \A j \in i + 1..n : s[j] \in S
      BY <1>1
    <2> QED BY <2>1, SubSeqProperties
  <1> HIDE DEF a, b
  <1>4. /\ a \o b \in Seq(S) /\ Len(a \o b) = n - 1
        /\ \A j \in 1..n - 1 : (a \o b)[j] = IF j <= i - 1 THEN a[j] ELSE b[j - (i - 1)]
    BY <1>2, <1>3, ConcatProperties
  <1>5. ASSUME NEW j \in 1..n - 1 PROVE (a \o b)[j] = s[IF j < i THEN j ELSE j + 1]
    <2>1. CASE j < i
      BY <1>2, <1>4, <2>1
    <2>2. CASE ~(j < i)
      <3>1. j - (i - 1) \in 1..n - i /\ (j - (i - 1)) + i = j + 1
        BY <2>2
      <3>2. (a \o b)[j] = b[j - (i - 1)]
        BY <1>4, <2>2
      <3>3. b[j - (i - 1)] = s[(j - (i - 1)) + i]
        BY <1>3, <3>1
      <3> QED BY <2>2, <3>1, <3>2, <3>3
    <2> QED BY <2>1, <2>2
  <1>6. RemoveAt(s, i) = a \o b
    BY DEF RemoveAt, a, b
  <1> QED BY <1>4, <1>5, <1>6, LenProperties

(* The call at position i leaves the queue. *)
LEMMA QueueLeft ==
  ASSUME TypeOK, Queued, NEW i \in DOMAIN queue, queue' = RemoveAt(queue, i),
         NEW p, p # "waiting", call' = [call EXCEPT ![queue[i]] = p]
  PROVE  Queued' /\ queue' \in Seq(Calls)
  <1>1. PICK n \in Nat : n = Len(queue) /\ DOMAIN queue = 1..n /\ i \in 1..n
    BY LenProperties DEF TypeOK
  <1>2. queue \in Seq(Calls) /\ \A j \in 1..n : queue[j] \in Calls
    BY <1>1, ElementOfSeq DEF TypeOK
  <1> DEFINE at == [j \in 1..n - 1 |-> IF j < i THEN j ELSE j + 1]
  <1>3. /\ queue' \in Seq(Calls) /\ DOMAIN queue' = 1..n - 1
        /\ \A j \in 1..n - 1 : queue'[j] = queue[at[j]]
    <2>1. /\ RemoveAt(queue, i) \in Seq(Calls) /\ DOMAIN RemoveAt(queue, i) = 1..n - 1
          /\ \A j \in 1..n - 1 : RemoveAt(queue, i)[j] = queue[IF j < i THEN j ELSE j + 1]
      <3>1. queue \in Seq(Calls) /\ n \in Nat /\ n = Len(queue) /\ i \in 1..n
        BY <1>1, <1>2
      <3>2. DOMAIN RemoveAt(queue, i) = 1..n - 1
        BY <3>1, RemoveAtIs
      <3>3. RemoveAt(queue, i) \in Seq(Calls)
        BY <3>1, RemoveAtIs
      <3> QED BY <3>1, <3>2, <3>3, RemoveAtIs
    <2> QED BY <2>1
  <1>4. \A j \in 1..n - 1 : at[j] \in 1..n /\ at[j] # i
    BY <1>1
  <1>5. \A j, k \in 1..n - 1 : at[j] = at[k] => j = k
    BY <1>1
  <1>6. ASSUME NEW j \in 1..n, j # i PROVE \E k \in 1..n - 1 : at[k] = j
    <2>1. CASE j < i
      BY <1>1, <1>6, <2>1
    <2>2. CASE j > i
      <3>1. j - 1 \in 1..n - 1 /\ at[j - 1] = j
        BY <1>1, <2>2
      <3> QED BY <3>1
    <2> QED BY <1>1, <1>6, <2>1, <2>2
  <1> HIDE DEF at
  <1>7. \A c \in Calls : call'[c] = IF c = queue[i] THEN p ELSE call[c]
    BY <1>1, <1>2 DEF TypeOK
  <1>8. \A j \in 1..n - 1 : call'[queue'[j]] = "waiting"
    <2> SUFFICES ASSUME NEW j \in 1..n - 1 PROVE call'[queue[at[j]]] = "waiting"
      BY <1>3
    <2>1. queue[at[j]] # queue[i] /\ queue[at[j]] \in Calls
      BY <1>1, <1>2, <1>4 DEF Queued
    <2> QED BY <1>1, <1>4, <1>7, <2>1 DEF Queued
  <1>9. \A j, k \in 1..n - 1 : queue'[j] = queue'[k] => j = k
    BY <1>1, <1>3, <1>4, <1>5 DEF Queued
  <1>10. ASSUME NEW c \in Calls, call'[c] = "waiting" PROVE \E j \in 1..n - 1 : queue'[j] = c
    <2>1. PICK k \in 1..n : queue[k] = c /\ k # i
      BY <1>1, <1>7, <1>10 DEF Queued
    <2> QED BY <1>3, <1>6, <2>1
  <1> QED BY <1>3, <1>8, <1>9, <1>10 DEF Queued

LEMMA TailIs ==
  ASSUME NEW S, NEW s \in Seq(S), s # <<>>
  PROVE  1 \in DOMAIN s /\ Tail(s) = RemoveAt(s, 1)
  <1>1. PICK n \in Nat : n = Len(s) /\ n > 0 /\ DOMAIN s = 1..n
    BY EmptySeq, LenProperties
  <1>2. /\ Tail(s) \in Seq(S) /\ Len(Tail(s)) = n - 1
        /\ \A j \in 1..n - 1 : Tail(s)[j] = s[j + 1]
    BY <1>1, HeadTailProperties
  <1>3. /\ RemoveAt(s, 1) \in Seq(S) /\ DOMAIN RemoveAt(s, 1) = 1..n - 1
        /\ \A j \in 1..n - 1 : RemoveAt(s, 1)[j] = s[j + 1]
    <2>1. 1 \in 1..n
      BY <1>1
    <2>2. /\ RemoveAt(s, 1) \in Seq(S) /\ DOMAIN RemoveAt(s, 1) = 1..n - 1
          /\ \A j \in 1..n - 1 : RemoveAt(s, 1)[j] = s[IF j < 1 THEN j ELSE j + 1]
      BY <1>1, <2>1, RemoveAtIs
    <2> QED BY <2>2
  <1>4. Len(RemoveAt(s, 1)) = n - 1
    BY <1>1, <1>3, LenProperties
  <1>5. Tail(s) = RemoveAt(s, 1)
    BY <1>2, <1>3, <1>4, SeqEqual
  <1> QED BY <1>1, <1>5

(* A new call joins the queue. *)
LEMMA QueueGrows ==
  ASSUME TypeOK, Queued, NEW c \in Calls, call[c] = "new", queue' = Append(queue, c),
         call' = [call EXCEPT ![c] = "waiting"]
  PROVE  Queued' /\ queue' \in Seq(Calls)
  <1>1. PICK n \in Nat : n = Len(queue) /\ DOMAIN queue = 1..n
    BY LenProperties DEF TypeOK
  <1>2. /\ queue' \in Seq(Calls) /\ DOMAIN queue' = 1..n + 1
        /\ queue'[n + 1] = c /\ \A i \in 1..n : queue'[i] = queue[i]
    BY <1>1, AppendProperties, LenProperties DEF TypeOK
  <1>3. /\ \A d \in Calls : call'[d] = IF d = c THEN "waiting" ELSE call[d]
        /\ \A i \in 1..n : queue[i] \in Calls
    BY <1>1, ElementOfSeq DEF TypeOK
  <1>4. \A i \in 1..n : queue[i] # c
    BY <1>1 DEF Queued
  <1>5. \A i \in 1..n + 1 : call'[queue'[i]] = "waiting"
    BY <1>1, <1>2, <1>3 DEF Queued
  <1>6. \A i, j \in 1..n + 1 : queue'[i] = queue'[j] => i = j
    BY <1>1, <1>2, <1>4 DEF Queued
  <1>7. \A d \in Calls : call'[d] = "waiting" => \E i \in 1..n + 1 : queue'[i] = d
    BY <1>1, <1>2, <1>3 DEF Queued
  <1> QED BY <1>2, <1>5, <1>6, <1>7 DEF Queued

(* A call that does not wait, and goes on to a state where it does not     *)
(* wait either, leaves the queue alone.                                    *)
LEMMA QueueStays ==
  ASSUME TypeOK, Queued, NEW c \in Calls, call[c] # "waiting", queue' = queue,
         NEW p, p # "waiting", call' = [call EXCEPT ![c] = p]
  PROVE  Queued'
  <1>1. \A i \in DOMAIN queue : queue[i] \in Calls
    BY ElementOfSeq, LenProperties DEF TypeOK
  <1> QED BY <1>1 DEF TypeOK, Queued

-----------------------------------------------------------------------------
(* Every step keeps the invariant. *)
LEMMA NextInv == IndInv /\ [Next]_vars => IndInv'
  <1> SUFFICES ASSUME IndInv, [Next]_vars PROVE IndInv'
    OBVIOUS
  <1> USE CallsAssumption
  <1> USE DEF IndInv
  <1> DEFINE LogStays == onGpu' = onGpu /\ faults' = faults /\ lost' = lost /\ log' = log
  <1>1. ASSUME LogStays PROVE Counted' /\ LostAfterThree'
    BY <1>1 DEF Counted, OneOpen, TwoOpen, ThreeOpen, Open, LostAfterThree, ThreeFaults,
                Faulty, Restored
  <1>2. ASSUME NEW c \in Calls, Ask(c) PROVE IndInv'
    <2>1. TypeOK' /\ Held'
      BY <1>2, QueueGrows DEF Ask, TypeOK, Held
    <2> QED BY <1>1, <1>2, <2>1, QueueGrows DEF Ask
  <1>3. ASSUME NEW c \in Calls, Acquire(c) PROVE IndInv'
    <2>1. queue # <<>>
      BY <1>3, EmptySeq DEF Acquire, Queued
    <2>2. /\ 1 \in DOMAIN queue /\ queue' = RemoveAt(queue, 1)
          /\ call' = [call EXCEPT ![queue[1]] = "working"]
      BY <1>3, <2>1, TailIs DEF Acquire, TypeOK
    <2>3. Queued' /\ queue' \in Seq(Calls)
      BY <2>2, QueueLeft
    <2>4. TypeOK' /\ Held'
      BY <1>3, <2>3 DEF Acquire, TypeOK, Held
    <2> QED BY <1>1, <1>3, <2>3, <2>4 DEF Acquire
  <1>4. ASSUME NEW c \in Calls, Busy(c) PROVE IndInv'
    <2>1. PICK i \in DOMAIN queue : queue[i] = c /\ queue' = RemoveAt(queue, i)
      BY <1>4 DEF Busy
    <2>2. Queued' /\ queue' \in Seq(Calls)
      BY <1>4, <2>1, QueueLeft DEF Busy
    <2>3. TypeOK' /\ Held'
      BY <1>4, <2>2 DEF Busy, TypeOK, Held
    <2> QED BY <1>1, <1>4, <2>2, <2>3 DEF Busy
  <1>5. ASSUME NEW c \in Calls, NEW r \in Result, SttEnds(c, r) PROVE IndInv'
    <2>1. TypeOK' /\ Held'
      BY <1>5 DEF SttEnds, TypeOK, Held
    <2> QED BY <1>1, <1>5, <2>1, QueueStays DEF SttEnds
  <1>6. ASSUME NEW c \in Calls, SttReports(c) PROVE IndInv'
    <2>1. result[c] \in Result
      BY DEF TypeOK
    <2>2. Counted' /\ LostAfterThree' /\ faults' \in Nat /\ lost' \in BOOLEAN
          /\ log' \in Seq(Calls \X Result)
      BY <1>6, <2>1, CountInv DEF SttReports
    <2>3. TypeOK' /\ Held'
      BY <1>6, <2>2 DEF SttReports, TypeOK, Held
    <2> QED BY <1>6, <2>2, <2>3, QueueStays DEF SttReports
  <1>7. ASSUME NEW c \in Calls, SttPanics(c) PROVE IndInv'
    <2>1. TypeOK' /\ Held'
      BY <1>7 DEF SttPanics, TypeOK, Held
    <2> QED BY <1>1, <1>7, <2>1, QueueStays DEF SttPanics
  <1>8. ASSUME NEW c \in Calls, NEW r \in Result, TtsEnds(c, r) PROVE IndInv'
    <2>1. Counted' /\ LostAfterThree' /\ faults' \in Nat /\ lost' \in BOOLEAN
          /\ log' \in Seq(Calls \X Result)
      BY <1>8, CountInv DEF TtsEnds
    <2>2. TypeOK' /\ Held'
      BY <1>8, <2>1 DEF TtsEnds, TypeOK, Held
    <2> QED BY <1>8, <2>1, <2>2, QueueStays DEF TtsEnds
  <1>9. ASSUME NEW c \in Calls, TtsTimesOut(c) PROVE IndInv'
    <2>1. Counted' /\ LostAfterThree' /\ faults' \in Nat /\ lost' \in BOOLEAN
          /\ log' \in Seq(Calls \X Result)
      BY <1>9, CountInv DEF TtsTimesOut, Result
    <2>2. TypeOK' /\ Held'
      BY <1>9, <2>1 DEF TtsTimesOut, TypeOK, Held
    <2> QED BY <1>9, <2>1, <2>2, QueueStays DEF TtsTimesOut
  <1>10. ASSUME NEW c \in Calls, LeftoverEnds(c) PROVE IndInv'
    <2>1. TypeOK' /\ Held' /\ Queued'
      BY <1>10 DEF LeftoverEnds, TypeOK, Held, Queued
    <2> QED BY <1>1, <1>10, <2>1 DEF LeftoverEnds
  <1>11. CASE UNCHANGED vars
    <2>1. TypeOK' /\ Held' /\ Queued' /\ LogStays
      BY <1>11 DEF vars, TypeOK, Held, Queued
    <2> QED BY <1>1, <2>1
  <1> QED
    BY <1>2, <1>3, <1>4, <1>5, <1>6, <1>7, <1>8, <1>9, <1>10, <1>11 DEF Next

LEMMA Invariant == Spec => []IndInv
  BY InitInv, NextInv, PTL DEF Spec

(* The state of the lock, of the calls and of the count keeps its types,   *)
(* for any number of calls.                                                *)
THEOREM TypeCorrect == Spec => []TypeOK
  <1>1. IndInv => TypeOK
    BY DEF IndInv
  <1> QED BY <1>1, Invariant, PTL

(* Whatever calls overlap, time out, panic or give up waiting, at most one *)
(* engine works for a call that still waits for its answer.                *)
THEOREM OneEngine == Spec => []Exclusion
  <1>1. IndInv => Exclusion
    <2> SUFFICES ASSUME IndInv PROVE Exclusion
      OBVIOUS
    <2> DEFINE working == {c \in jobs : call[c] # "timed_out"}
    <2>1. working \subseteq {holder}
      BY DEF IndInv, TypeOK, Held
    <2>2. IsFiniteSet({holder}) /\ Cardinality({holder}) = 1
      BY FS_Singleton
    <2>3. Cardinality(working) <= 1
      BY <2>1, <2>2, FS_Subset
    <2> QED BY <2>3 DEF Exclusion
  <1> QED BY <1>1, Invariant, PTL

(* The hub gives up on the GPU exactly after three faults in a row of the  *)
(* engines that run on it: never earlier, and never later.                 *)
THEOREM LostExactly == Spec => []LostAfterThree
  <1>1. IndInv => LostAfterThree
    BY DEF IndInv
  <1> QED BY <1>1, Invariant, PTL

-----------------------------------------------------------------------------
(* The connections. *)

(* A connection waits for the call that is its job.  One call is the job   *)
(* of one connection, which keeps it until the call has ended.             *)
Owned ==
    /\ conn \in [Conns -> {"reading", "stt", "tts", "writing", "closed"}]
    /\ job \in [Conns -> Calls \cup {None}]
    /\ \A c \in Conns : job[c] # None <=> conn[c] \in {"stt", "tts"}
    /\ \A c \in Conns : job[c] # None => call[job[c]] # "new"
    /\ \A c, d \in Conns : job[c] = job[d] /\ job[c] # None => c = d
    /\ \A k \in Calls :
          call[k] \in {"waiting", "working", "report"} => \E c \in Conns : job[c] = k

OwnInv == IndInv /\ Owned

-----------------------------------------------------------------------------
(* The six steps of a client's event, by what they do to the calls: most   *)
(* leave them alone, and the others begin one.                             *)
LEMMA HandleIs ==
  ASSUME NEW c \in Conns, NEW e \in Events[c], Handle(c, e)
  PROVE  \/ /\ conn[c] = "reading" /\ UNCHANGED <<vars, job>>
            /\ \E p \in {"writing", "closed"} : conn' = [conn EXCEPT ![c] = p] \/ conn' = conn
         \/ \E p \in {"stt", "tts"}, k \in Calls :
               /\ conn[c] = "reading" /\ Ask(k)
               /\ conn' = [conn EXCEPT ![c] = p]
               /\ job' = [job EXCEPT ![c] = k]
  <1>1. CASE Describe(c, e)
    BY <1>1 DEF Describe, Hear, Answer
  <1>2. CASE Ignore(c, e) \/ AudioStart(c, e) \/ AudioChunk(c, e)
    BY <1>2 DEF Ignore, AudioStart, AudioChunk, Hear
  <1>3. ASSUME NEW calls \in SUBSET Calls, NEW p \in {"stt", "tts"}, Call(c, calls, p)
        PROVE  \E k \in Calls : /\ Ask(k)
                                /\ conn' = [conn EXCEPT ![c] = p]
                                /\ job' = [job EXCEPT ![c] = k]
    BY <1>3 DEF Call
  <1>4. CASE AudioStop(c, e)
    <2>1. conn[c] = "reading" /\ SttCalls \in SUBSET Calls
      BY <1>4 DEF AudioStop, Hear, Calls
    <2>2. CASE Call(c, SttCalls, "stt")
      BY <1>3, <2>1, <2>2
    <2>3. CASE Answer(c, [kind |-> "transcript", samples |-> 0]) /\ UNCHANGED <<vars, job>>
      BY <2>1, <2>3 DEF Answer
    <2>4. CASE conn' = [conn EXCEPT ![c] = "closed"] /\ UNCHANGED <<vars, job, said>>
      BY <2>1, <2>4
    <2> QED BY <1>4, <2>2, <2>3, <2>4 DEF AudioStop
  <1>5. CASE Synthesize(c, e)
    <2>1. conn[c] = "reading" /\ TtsCalls \in SUBSET Calls
      BY <1>5 DEF Synthesize, Hear, Calls
    <2>2. CASE Call(c, TtsCalls, "tts")
      BY <1>3, <2>1, <2>2
    <2>3. CASE Answer(c, [kind |-> "silence", samples |-> 0]) /\ UNCHANGED <<vars, job>>
      BY <2>1, <2>3 DEF Answer
    <2> QED BY <1>5, <2>2, <2>3 DEF Synthesize
  <1> QED BY <1>1, <1>2, <1>4, <1>5 DEF Handle

(* What the engines do to a call that has begun and not ended. *)
LEMMA EnginesGoOn ==
  ASSUME TypeOK, Engines
  PROVE  /\ call' \in [Calls -> {"new", "waiting", "working", "report", "answered", "busy", "timed_out"}]
         /\ \A k \in Calls :
               /\ call'[k] = "new" <=> call[k] = "new"
               /\ call'[k] \in {"waiting", "working", "report"} =>
                      call[k] \in {"waiting", "working", "report"}
  <1>1. PICK k \in Calls :
            \/ Acquire(k) \/ Busy(k)
            \/ \E r \in Result : SttEnds(k, r) \/ TtsEnds(k, r)
            \/ SttReports(k) \/ SttPanics(k)
            \/ TtsTimesOut(k) \/ LeftoverEnds(k)
    BY DEF Engines
  <1>2. \/ call' = call
        \/ \E p \in {"working", "report", "answered", "busy", "timed_out"} :
              call' = [call EXCEPT ![k] = p] /\ call[k] \in {"waiting", "working", "report"}
    BY <1>1 DEF Acquire, Busy, SttEnds, TtsEnds, SttReports, SttPanics, TtsTimesOut, LeftoverEnds
  <1> QED BY <1>2 DEF TypeOK

(* Each step of Wyoming is a step of GpuVoice, or changes nothing there. *)
LEMMA StepIsStep == [WyomingNext]_allVars => [Next]_vars
  <1>1. CASE UNCHANGED allVars
    BY <1>1 DEF allVars
  <1>2. CASE Engines
    BY <1>2 DEF Engines, Next
  <1>3. ASSUME NEW c \in Conns, NEW e \in Events[c], Handle(c, e) PROVE [Next]_vars
    BY <1>3, HandleIs DEF Next
  <1>4. ASSUME NEW c \in Conns,
               \/ Transcribed(c) \/ Spoken(c) \/ Written(c) \/ WriteFails(c)
               \/ Leave(c) \/ EndOfStream(c) \/ Malformed(c)
        PROVE  UNCHANGED vars
    BY <1>4 DEF Transcribed, Spoken, Written, WriteFails, Leave, EndOfStream, Malformed
  <1> QED BY <1>1, <1>2, <1>3, <1>4 DEF WyomingNext

-----------------------------------------------------------------------------
LEMMA OwnInit == WyomingInit => OwnInv
  <1> SUFFICES ASSUME WyomingInit PROVE OwnInv
    OBVIOUS
  <1>1. IndInv
    BY InitInv DEF WyomingInit
  <1>2. Owned
    BY DEF WyomingInit, Init, Owned
  <1> QED BY <1>1, <1>2 DEF OwnInv

(* A connection whose call has ended lets go of it. *)
LEMMA LetGo ==
  ASSUME OwnInv, NEW c \in Conns, conn[c] \in {"stt", "tts"}, Ended(job[c]),
         NEW p \in {"writing", "closed"}, conn' = [conn EXCEPT ![c] = p],
         job' = [job EXCEPT ![c] = None], call' = call
  PROVE  Owned'
  <1>1. /\ job[c] \in Calls /\ None \notin Calls
        /\ call[job[c]] \notin {"waiting", "working", "report"}
    BY CallsAssumption DEF OwnInv, Owned, Ended
  <1>2. /\ conn' \in [Conns -> {"reading", "stt", "tts", "writing", "closed"}]
        /\ job' \in [Conns -> Calls \cup {None}]
        /\ \A d \in Conns : job'[d] = IF d = c THEN None ELSE job[d]
        /\ \A d \in Conns : conn'[d] = IF d = c THEN p ELSE conn[d]
    BY DEF OwnInv, Owned
  <1>3. \A d \in Conns : job'[d] # None <=> conn'[d] \in {"stt", "tts"}
    BY <1>2 DEF OwnInv, Owned
  <1>4. ASSUME NEW k \in Calls, call[k] \in {"waiting", "working", "report"}
        PROVE  \E d \in Conns : job'[d] = k
    <2>1. PICK d \in Conns : job[d] = k
      BY <1>4 DEF OwnInv, Owned
    <2>2. d # c
      BY <1>1, <1>4, <2>1
    <2> QED BY <1>2, <2>1, <2>2
  <1> QED BY <1>2, <1>3, <1>4 DEF OwnInv, Owned

(* A connection begins a call that is nobody's job. *)
LEMMA TakeOn ==
  ASSUME OwnInv, NEW c \in Conns, conn[c] = "reading", NEW k \in Calls, Ask(k),
         NEW p \in {"stt", "tts"}, conn' = [conn EXCEPT ![c] = p], job' = [job EXCEPT ![c] = k]
  PROVE  Owned'
  <1>1. /\ k # None /\ call[k] = "new" /\ job[c] = None
        /\ \A m \in Calls : call'[m] = IF m = k THEN "waiting" ELSE call[m]
    BY CallsAssumption DEF OwnInv, Owned, IndInv, TypeOK, Ask
  <1>2. /\ conn' \in [Conns -> {"reading", "stt", "tts", "writing", "closed"}]
        /\ job' \in [Conns -> Calls \cup {None}]
        /\ \A d \in Conns : job'[d] = IF d = c THEN k ELSE job[d]
        /\ \A d \in Conns : conn'[d] = IF d = c THEN p ELSE conn[d]
    BY DEF OwnInv, Owned
  <1>3. \A d \in Conns : job[d] # k
    BY <1>1 DEF OwnInv, Owned
  <1>4. \A d \in Conns : job'[d] # None <=> conn'[d] \in {"stt", "tts"}
    BY <1>1, <1>2 DEF OwnInv, Owned
  <1>5. \A d \in Conns : job'[d] # None => call'[job'[d]] # "new"
    BY <1>1, <1>2 DEF OwnInv, Owned
  <1>6. \A d, b \in Conns : job'[d] = job'[b] /\ job'[d] # None => d = b
    BY <1>2, <1>3 DEF OwnInv, Owned
  <1>7. ASSUME NEW m \in Calls, call'[m] \in {"waiting", "working", "report"}
        PROVE  \E d \in Conns : job'[d] = m
    <2>1. CASE m = k
      BY <1>2, <2>1
    <2>2. CASE m # k
      <3>1. PICK d \in Conns : job[d] = m
        BY <1>1, <1>7, <2>2 DEF OwnInv, Owned
      <3>2. d # c
        BY <1>1, <3>1, CallsAssumption
      <3> QED BY <1>2, <3>1, <3>2
    <2> QED BY <2>1, <2>2
  <1> QED BY <1>2, <1>4, <1>5, <1>6, <1>7 DEF Owned

LEMMA OwnNext == OwnInv /\ [WyomingNext]_allVars => OwnInv'
  <1> SUFFICES ASSUME OwnInv, [WyomingNext]_allVars PROVE OwnInv'
    OBVIOUS
  <1>1. IndInv'
    BY StepIsStep, NextInv DEF OwnInv
  <1>2. CASE UNCHANGED allVars
    BY <1>1, <1>2 DEF allVars, vars, connVars, OwnInv, Owned
  <1>3. CASE Engines
    <2>1. conn' = conn /\ job' = job
      BY <1>3 DEF Engines, connVars
    <2>2. \A k \in Calls :
             /\ call'[k] = "new" <=> call[k] = "new"
             /\ call'[k] \in {"waiting", "working", "report"} =>
                    call[k] \in {"waiting", "working", "report"}
      BY <1>3, EnginesGoOn DEF OwnInv, IndInv
    <2>3. \A c \in Conns : job[c] # None => call'[job[c]] # "new"
      BY <2>2 DEF OwnInv, Owned
    <2> QED BY <1>1, <2>1, <2>2, <2>3 DEF OwnInv, Owned
  <1>4. ASSUME NEW c \in Conns, NEW e \in Events[c], Handle(c, e) PROVE OwnInv'
    <2>1. CASE /\ conn[c] = "reading" /\ UNCHANGED <<vars, job>>
               /\ \E p \in {"writing", "closed"} : conn' = [conn EXCEPT ![c] = p] \/ conn' = conn
      BY <1>1, <2>1 DEF vars, OwnInv, Owned
    <2>2. CASE \E p \in {"stt", "tts"}, k \in Calls :
                 /\ conn[c] = "reading" /\ Ask(k)
                 /\ conn' = [conn EXCEPT ![c] = p]
                 /\ job' = [job EXCEPT ![c] = k]
      BY <1>1, <2>2, TakeOn DEF OwnInv
    <2> QED BY <1>4, <2>1, <2>2, HandleIs
  <1>5. ASSUME NEW c \in Conns, Transcribed(c) \/ Spoken(c) PROVE OwnInv'
    <2>1. /\ conn[c] \in {"stt", "tts"} /\ Ended(job[c])
          /\ \E p \in {"writing", "closed"} : conn' = [conn EXCEPT ![c] = p]
          /\ job' = [job EXCEPT ![c] = None] /\ call' = call
      BY <1>5 DEF Transcribed, Spoken, Answer, Close, vars
    <2> QED BY <1>1, <2>1, LetGo DEF OwnInv
  <1>6. ASSUME NEW c \in Conns,
               Written(c) \/ WriteFails(c) \/ Leave(c) \/ EndOfStream(c) \/ Malformed(c)
        PROVE  OwnInv'
    <2>1. /\ job' = job /\ call' = call
          /\ \/ conn' = conn
             \/ /\ conn[c] \in {"reading", "writing"}
                /\ \E p \in {"reading", "closed"} : conn' = [conn EXCEPT ![c] = p]
      BY <1>6 DEF Written, WriteFails, Leave, EndOfStream, Malformed, Close, vars
    <2> QED BY <1>1, <2>1 DEF OwnInv, Owned
  <1> QED BY <1>2, <1>3, <1>4, <1>5, <1>6 DEF WyomingNext

LEMMA OwnInvariant == WyomingSpec => []OwnInv
  BY OwnInit, OwnNext, PTL DEF WyomingSpec

(* The connections implement the use of the engines that GpuVoice          *)
(* specifies: whatever clients send and whenever they go, the calls, the   *)
(* lock and the count take its steps only.                                 *)
THEOREM UsesTheEngines == WyomingSpec => Spec
  <1>1. WyomingInit => Init
    BY DEF WyomingInit
  <1> QED BY <1>1, StepIsStep, PTL DEF WyomingSpec, Spec

(* So one engine works at a time for all connections together, ...         *)
THEOREM OneEngineForAll == WyomingSpec => []Exclusion
  BY UsesTheEngines, OneEngine, PTL

(* ... and the GPU is given up exactly after three faults in a row of the  *)
(* calls of all connections.                                               *)
THEOREM LostExactlyForAll == WyomingSpec => []LostAfterThree
  BY UsesTheEngines, LostExactly, PTL

(* A call that waits for the lock, works under it or has its result still  *)
(* to count belongs to exactly one connection, which has not let go of it, *)
(* also when its client has gone.                                          *)
THEOREM NoCallAlone == WyomingSpec => []NoOrphan
  <1>1. OwnInv => NoOrphan
    <2> SUFFICES ASSUME OwnInv, NEW k \in Calls, call[k] \in {"waiting", "working", "report"}
                 PROVE  Cardinality({c \in Conns : job[c] = k}) = 1
      BY DEF NoOrphan
    <2>1. PICK d \in Conns : job[d] = k
      BY DEF OwnInv, Owned
    <2>2. k # None
      BY CallsAssumption
    <2>3. {c \in Conns : job[c] = k} = {d}
      BY <2>1, <2>2 DEF OwnInv, Owned
    <2> QED BY <2>3, FS_Singleton
  <1> QED BY <1>1, OwnInvariant, PTL

-----------------------------------------------------------------------------
(* What a history says of the audio.  A longer history says the same of    *)
(* its beginning (Same), and what it says of one event more adds to what   *)
(* it said before (Next).                                                  *)

IsFormat(f) == f.rate \in Nat /\ f.width \in Nat /\ f.channels \in Nat

LEMMA FormatIs ==
  ASSUME NEW header, \A k \in Fields : header[k] # None => header[k] \in Nat,
         NEW fallback, IsFormat(fallback)
  PROVE  IsFormat(format_of(header, fallback))
  <1>1. \A k \in Fields : fallback[k] \in Nat
    BY DEF IsFormat, Fields
  <1>2. \A k \in Fields : header[k] # None => Field(k, header[k]) \in Nat
    BY DEF Field
  <1>3. PICK f : f = format_of(header, fallback)
    OBVIOUS
  <1>4. \A k \in Fields : f[k] \in Nat
    BY <1>1, <1>2, <1>3 DEF format_of
  <1> QED BY <1>3, <1>4 DEF IsFormat, Fields

LEMMA SttIsFormat == IsFormat(STT)
  BY DEF IsFormat, STT

LEMMA SamplesIsNat ==
  ASSUME NEW b \in Nat, NEW f, IsFormat(f)
  PROVE  Samples(b, f) \in Nat
  <1>1. PICK w \in Nat \ {0}, c \in Nat \ {0} : w = AtLeastOne(f.width) /\ c = AtLeastOne(f.channels)
    BY DEF IsFormat, AtLeastOne
  <1>2. PICK frame \in Nat \ {0} : frame = Frame(f)
    <2>1. w * c \in Nat \ {0}
      OBVIOUS
    <2> QED BY <1>1, <2>1 DEF Frame
  <1>3. PICK mono \in Nat : mono = b \div Frame(f)
    BY <1>2
  <1>4. PICK r \in Nat : r = f.rate
    BY DEF IsFormat
  <1>5. mono * 16000 \in Nat
    OBVIOUS
  <1>6. r # 0 => (mono * 16000) \div r \in Nat
    BY <1>5
  <1>7. STT.rate = 16000
    BY DEF STT
  <1> QED BY <1>3, <1>4, <1>6, <1>7 DEF Samples

LEMMA LastIs ==
  ASSUME NEW h, NEW i \in Nat \ {0}, NEW kinds
  PROVE  /\ LastOf(h, i, kinds) \in 0..i - 1
         /\ LastOf(h, i, kinds) # 0 => h[LastOf(h, i, kinds)].kind \in kinds
         /\ \A j \in 1..i - 1 : h[j].kind \in kinds => j <= LastOf(h, i, kinds)
  <1>1. PICK n \in Nat : n = i - 1
    OBVIOUS
  <1>2. PICK f : f = [k \in 1..n |-> IF h[k].kind \in kinds THEN k ELSE 0]
    OBVIOUS
  <1>3. PICK S : S = {j \in 1..n : h[j].kind \in kinds} \cup {0}
    OBVIOUS
  <1>4. S = {0} \cup {f[k] : k \in 1..n}
    BY <1>2, <1>3
  <1>5. Max(S) \in S /\ \A y \in S : Max(S) >= y
    <2>1. \A k \in 1..n : f[k] \in Nat
      BY <1>2
    <2> QED BY <1>4, <2>1, GreatestIs
  <1>6. PICK m : m = Max(S)
    OBVIOUS
  <1>7. LastOf(h, i, kinds) = m
    BY <1>1, <1>3, <1>6 DEF LastOf
  <1> QED BY <1>1, <1>3, <1>5, <1>6, <1>7

LEMMA LastSame ==
  ASSUME NEW g, NEW h, NEW n \in Nat, \A k \in 1..n : g[k] = h[k], NEW i \in 1..n + 1, NEW kinds
  PROVE  LastOf(g, i, kinds) = LastOf(h, i, kinds)
  <1>1. {j \in 1..i - 1 : g[j].kind \in kinds} = {j \in 1..i - 1 : h[j].kind \in kinds}
    OBVIOUS
  <1> QED BY <1>1 DEF LastOf

LEMMA LastNext ==
  ASSUME NEW g, NEW p \in Nat \ {0}, NEW kinds
  PROVE  /\ g[p].kind \in kinds => LastOf(g, p + 1, kinds) = p
         /\ g[p].kind \notin kinds => LastOf(g, p + 1, kinds) = LastOf(g, p, kinds)
  <1>1. PICK l \in 0..p : /\ l = LastOf(g, p + 1, kinds)
                          /\ \A j \in 1..p : g[j].kind \in kinds => j <= l
    BY LastIs
  <1>2. CASE g[p].kind \in kinds
    BY <1>1, <1>2
  <1>3. CASE g[p].kind \notin kinds
    <2>1. {j \in 1..(p + 1) - 1 : g[j].kind \in kinds} = {j \in 1..p - 1 : g[j].kind \in kinds}
      BY <1>3
    <2> QED BY <1>3, <2>1 DEF LastOf
  <1> QED BY <1>2, <1>3

LEMMA FormatSame ==
  ASSUME NEW g, NEW h, NEW n \in Nat, \A k \in 1..n : g[k] = h[k], NEW j \in 1..n
  PROVE  FormatOf(g, j) = FormatOf(h, j)
  <1>1. PICK s \in 0..j - 1 : s = LastOf(h, j, {"audio-start"}) /\ s = LastOf(g, j, {"audio-start"})
    <2>1. PICK s \in 0..j - 1 : s = LastOf(h, j, {"audio-start"})
      BY LastIs
    <2>2. j \in 1..n + 1
      OBVIOUS
    <2>3. s = LastOf(g, j, {"audio-start"})
      BY <2>1, <2>2, LastSame
    <2> QED BY <2>1, <2>3
  <1>2. g[j] = h[j] /\ (s # 0 => g[s] = h[s])
    OBVIOUS
  <1> QED BY <1>1, <1>2 DEF FormatOf

LEMMA FormatOfIs ==
  ASSUME NEW h, NEW j \in Nat \ {0}, \A k \in 1..j : IsEvent(h[k]), h[j].kind = "audio-chunk"
  PROVE  IsFormat(FormatOf(h, j))
  <1>1. PICK s \in 0..j - 1 : /\ s = LastOf(h, j, {"audio-start"})
                              /\ s # 0 => h[s].kind = "audio-start"
    BY LastIs
  <1>2. s # 0 => IsFormat(format_of(h[s].header, STT))
    BY <1>1, FormatIs, SttIsFormat DEF IsEvent
  <1>3. IsFormat(IF s = 0 THEN STT ELSE format_of(h[s].header, STT))
    BY <1>2, SttIsFormat
  <1>4. \A k \in Fields : h[j].header[k] # None => h[j].header[k] \in Nat
    BY DEF IsEvent
  <1> QED BY <1>1, <1>3, <1>4, FormatIs DEF FormatOf

LEMMA ChunksAre ==
  ASSUME NEW h, NEW i \in Nat \ {0}
  PROVE  /\ ChunksOf(h, i) \subseteq 1..i - 1
         /\ \A j \in ChunksOf(h, i) : h[j].kind = "audio-chunk"
  <1>1. PICK l \in 0..i - 1 : l = LastOf(h, i, {"audio-start", "audio-stop"})
    BY LastIs
  <1> QED BY <1>1 DEF ChunksOf

LEMMA ChunksSame ==
  ASSUME NEW g, NEW h, NEW n \in Nat, \A k \in 1..n : g[k] = h[k], NEW i \in 1..n + 1
  PROVE  ChunksOf(g, i) = ChunksOf(h, i)
  <1>1. PICK l \in 0..i - 1 : /\ l = LastOf(h, i, {"audio-start", "audio-stop"})
                              /\ l = LastOf(g, i, {"audio-start", "audio-stop"})
    <2>1. PICK l \in 0..i - 1 : l = LastOf(h, i, {"audio-start", "audio-stop"})
      BY LastIs
    <2>2. l = LastOf(g, i, {"audio-start", "audio-stop"})
      BY <2>1, LastSame
    <2> QED BY <2>1, <2>2
  <1>2. \A j \in l + 1 .. i - 1 : g[j] = h[j]
    OBVIOUS
  <1> QED BY <1>1, <1>2 DEF ChunksOf

LEMMA RunsSame ==
  ASSUME NEW g, NEW h, NEW n \in Nat, \A k \in 1..n : g[k] = h[k], NEW i \in 1..n + 1
  PROVE  /\ FirstsOf(g, i) = FirstsOf(h, i)
         /\ \A j \in 1..i - 1 : RunOf(g, i, j) = RunOf(h, i, j)
  <1>1. PICK C : C = ChunksOf(g, i) /\ C = ChunksOf(h, i) /\ C \subseteq 1..i - 1
    <2>1. ChunksOf(g, i) = ChunksOf(h, i)
      BY ChunksSame
    <2>2. ChunksOf(h, i) \subseteq 1..i - 1
      BY ChunksAre
    <2> QED BY <2>1, <2>2
  <1>2. \A j \in 1..i - 1 : FormatOf(g, j) = FormatOf(h, j)
    BY FormatSame
  <1>3. FirstsOf(g, i) = FirstsOf(h, i)
    BY <1>1, <1>2 DEF FirstsOf
  <1>4. ASSUME NEW j \in 1..i - 1 PROVE RunOf(g, i, j) = RunOf(h, i, j)
    BY <1>1, <1>2 DEF RunOf
  <1> QED BY <1>3, <1>4

LEMMA SamplesSame ==
  ASSUME NEW g, NEW h, NEW n \in Nat, \A k \in 1..n : g[k] = h[k], NEW i \in 1..n + 1
  PROVE  /\ \A j \in 1..i - 1 : BytesOf(g, i, j) = BytesOf(h, i, j)
         /\ SamplesOf(g, i) = SamplesOf(h, i)
  <1>1. ASSUME NEW j \in 1..i - 1 PROVE BytesOf(g, i, j) = BytesOf(h, i, j)
    <2>1. PICK R : R = RunOf(g, i, j) /\ R = RunOf(h, i, j)
      BY RunsSame
    <2>2. [k \in 1..i - 1 |-> IF k \in R THEN g[k].bytes ELSE 0]
              = [k \in 1..i - 1 |-> IF k \in R THEN h[k].bytes ELSE 0]
      OBVIOUS
    <2> QED BY <2>1, <2>2 DEF BytesOf
  <1>2. PICK F : F = FirstsOf(g, i) /\ F = FirstsOf(h, i)
    BY RunsSame
  <1>3. \A j \in 1..i - 1 : FormatOf(g, j) = FormatOf(h, j)
    BY FormatSame
  <1>4. [j \in 1..i - 1 |-> IF j \in F THEN Samples(BytesOf(g, i, j), FormatOf(g, j)) ELSE 0]
            = [j \in 1..i - 1 |-> IF j \in F THEN Samples(BytesOf(h, i, j), FormatOf(h, j)) ELSE 0]
    BY <1>1, <1>3
  <1> QED BY <1>1, <1>2, <1>4 DEF SamplesOf

LEMMA DueSame ==
  ASSUME NEW g, NEW h, NEW n \in Nat, \A k \in 1..n : g[k] = h[k], NEW i \in 1..n
  PROVE  Due(g, i) = Due(h, i)
  <1>1. g[i] = h[i] /\ SamplesOf(g, i) = SamplesOf(h, i)
    BY SamplesSame
  <1> QED BY <1>1 DEF Due

-----------------------------------------------------------------------------
(* The sums of what a history says. *)

BytesAt(h, i, j) == [k \in 1..i - 1 |-> IF k \in RunOf(h, i, j) THEN h[k].bytes ELSE 0]

SamplesAt(h, i) ==
    [j \in 1..i - 1 |-> IF j \in FirstsOf(h, i)
                        THEN Samples(BytesOf(h, i, j), FormatOf(h, j)) ELSE 0]

LEMMA BytesAtIs ==
  ASSUME NEW h, NEW i \in Nat \ {0}, \A k \in 1..i - 1 : IsEvent(h[k]), NEW j
  PROVE  /\ BytesAt(h, i, j) \in Seq(Nat) /\ Len(BytesAt(h, i, j)) = i - 1
         /\ BytesOf(h, i, j) = Total(BytesAt(h, i, j)) /\ BytesOf(h, i, j) \in Nat
  <1>1. PICK R : R = RunOf(h, i, j)
    OBVIOUS
  <1>2. \A k \in R : k \in 1..i - 1 /\ h[k].kind = "audio-chunk"
    BY <1>1, ChunksAre DEF RunOf
  <1>3. \A k \in R : h[k].bytes \in Nat
    BY <1>2 DEF IsEvent
  <1>4. PICK n \in Nat : n = i - 1
    OBVIOUS
  <1>5. PICK s : s = BytesAt(h, i, j)
    OBVIOUS
  <1>6. s = [k \in 1..n |-> IF k \in R THEN h[k].bytes ELSE 0]
    BY <1>1, <1>4, <1>5 DEF BytesAt
  <1>7. s \in Seq(Nat) /\ Len(s) = n
    BY <1>3, <1>6, SeqDef
  <1>8. BytesOf(h, i, j) = Total(s)
    BY <1>5 DEF BytesOf, BytesAt
  <1> QED BY <1>4, <1>5, <1>7, <1>8, TotalNat

LEMMA SamplesAtIs ==
  ASSUME NEW h, NEW i \in Nat \ {0}, \A k \in 1..i - 1 : IsEvent(h[k])
  PROVE  /\ SamplesAt(h, i) \in Seq(Nat) /\ Len(SamplesAt(h, i)) = i - 1
         /\ SamplesOf(h, i) = Total(SamplesAt(h, i)) /\ SamplesOf(h, i) \in Nat
         /\ \A j \in FirstsOf(h, i) : /\ j \in 1..i - 1 /\ IsFormat(FormatOf(h, j))
                                      /\ BytesOf(h, i, j) \in Nat
  <1>1. PICK F : F = FirstsOf(h, i)
    OBVIOUS
  <1>2. \A j \in F : j \in 1..i - 1 /\ h[j].kind = "audio-chunk"
    BY <1>1, ChunksAre DEF FirstsOf
  <1>3. \A j \in F : IsFormat(FormatOf(h, j))
    BY <1>2, FormatOfIs
  <1>4. \A j \in F : BytesOf(h, i, j) \in Nat
    BY BytesAtIs
  <1>5. \A j \in F : Samples(BytesOf(h, i, j), FormatOf(h, j)) \in Nat
    BY <1>3, <1>4, SamplesIsNat
  <1>6. PICK n \in Nat : n = i - 1
    OBVIOUS
  <1>7. PICK s : s = SamplesAt(h, i)
    OBVIOUS
  <1>8. s = [j \in 1..n |-> IF j \in F THEN Samples(BytesOf(h, i, j), FormatOf(h, j)) ELSE 0]
    BY <1>1, <1>6, <1>7 DEF SamplesAt
  <1>9. s \in Seq(Nat) /\ Len(s) = n
    BY <1>5, <1>8, SeqDef
  <1>10. SamplesOf(h, i) = Total(s)
    BY <1>7 DEF SamplesOf, SamplesAt
  <1> QED BY <1>1, <1>2, <1>3, <1>4, <1>6, <1>7, <1>9, <1>10, TotalNat

LEMMA NatsAreInts ==
  ASSUME NEW s \in Seq(Nat)
  PROVE  s \in Seq(Int)
  OBVIOUS

LEMMA TotalOneMore ==
  ASSUME NEW s \in Seq(Nat), NEW t \in Seq(Nat), NEW n \in Nat, Len(s) = n, Len(t) = n + 1,
         \A k \in 1..n : t[k] = s[k]
  PROVE  Total(s) \in Nat /\ Total(t) = Total(s) + t[n + 1]
  <1>1. Total(s) \in Nat
    BY TotalNat
  <1>2. s \in Seq(Int) /\ t \in Seq(Int)
    BY NatsAreInts
  <1>3. Total(t) = Total(s) + t[n + 1]
    BY <1>2, TotalGrows
  <1> QED BY <1>1, <1>3

(* A sum with one number more and one number changed. *)
Differ(s, t, n, f) ==
    /\ s \in Seq(Nat) /\ Len(s) = n
    /\ t \in Seq(Nat) /\ Len(t) = n + 1
    /\ f \in 1..n
    /\ \A k \in 1..n : k # f => t[k] = s[k]

ByOne(s, t, n, f) ==
    \E S, x, y, z \in Nat : /\ S = Total(s) /\ x = s[f] /\ y = t[f] /\ z = t[n + 1]
                           /\ Total(t) = S + (y - x) + z

LEMMA TotalNext ==
  ASSUME NEW s, NEW t, NEW n \in Nat, NEW f, Differ(s, t, n, f)
  PROVE  ByOne(s, t, n, f)
  <1>0. /\ s \in Seq(Nat) /\ Len(s) = n
        /\ t \in Seq(Nat) /\ Len(t) = n + 1
        /\ f \in 1..n
        /\ \A k \in 1..n : k # f => t[k] = s[k]
    BY DEF Differ
  <1>1. PICK u \in Seq(Nat) : Len(u) = n /\ \A k \in 1..n : u[k] = t[k]
    <2>1. PICK v : v = [k \in 1..n |-> t[k]]
      OBVIOUS
    <2>2. \A k \in 1..n : t[k] \in Nat
      BY <1>0
    <2>3. v \in Seq(Nat) /\ Len(v) = n
      BY <2>1, <2>2, SeqDef
    <2> QED BY <2>1, <2>3
  <1>2. s \in Seq(Int) /\ u \in Seq(Int)
    BY <1>0, NatsAreInts
  <1>3. Len(u) = Len(s) /\ f \in DOMAIN s /\ DOMAIN s = 1..n
    BY <1>0, <1>1
  <1>4. PICK x \in Nat, y \in Nat, z \in Nat : x = s[f] /\ y = t[f] /\ z = t[n + 1]
    <2>0. f \in 1..Len(s) /\ f \in 1..Len(t) /\ n + 1 \in 1..Len(t)
      BY <1>0
    <2>1. s[f] \in Nat
      BY <1>0, <2>0, ElementOfSeq
    <2>2. t[f] \in Nat
      BY <1>0, <2>0, ElementOfSeq
    <2>3. t[n + 1] \in Nat
      BY <1>0, <2>0, ElementOfSeq
    <2> QED BY <2>1, <2>2, <2>3
  <1>5. PICK S \in Nat, U \in Nat : S = Total(s) /\ U = Total(u)
    <2>1. Total(s) \in Nat
      BY <1>0, TotalNat
    <2>2. Total(u) \in Nat
      BY TotalNat
    <2> QED BY <2>1, <2>2
  <1>6. Total(t) = Total(u) + t[n + 1]
    <2>1. \A k \in 1..n : t[k] = u[k]
      BY <1>1
    <2> QED BY <1>0, <1>1, <2>1, TotalOneMore
  <1>7. \A k \in DOMAIN s : k # f => u[k] = s[k]
    BY <1>0, <1>1, <1>3
  <1>8. Total(u) = Total(s) + (u[f] - s[f])
    BY <1>2, <1>3, <1>7, TotalChanged
  <1>9. u[f] = y
    BY <1>0, <1>1, <1>4
  <1>10. U = S + (y - x)
    BY <1>4, <1>5, <1>8, <1>9
  <1>11. Total(t) = S + (y - x) + z
    BY <1>4, <1>5, <1>6, <1>10
  <1> QED BY <1>4, <1>5, <1>11 DEF ByOne

(* Neither a start nor a stop: at most one chunk more. *)
LEMMA ChunksNext ==
  ASSUME NEW g, NEW p \in Nat \ {0}, g[p].kind \notin {"audio-start", "audio-stop"}
  PROVE  /\ g[p].kind = "audio-chunk" /\ g[p].bytes > 0 =>
                ChunksOf(g, p + 1) = ChunksOf(g, p) \cup {p}
         /\ ~(g[p].kind = "audio-chunk" /\ g[p].bytes > 0) =>
                ChunksOf(g, p + 1) = ChunksOf(g, p)
  <1>1. PICK l \in 0..p - 1 : l = LastOf(g, p, {"audio-start", "audio-stop"})
    BY LastIs
  <1>2. l = LastOf(g, p + 1, {"audio-start", "audio-stop"})
    BY <1>1, LastNext
  <1>3. l + 1 .. (p + 1) - 1 = (l + 1 .. p - 1) \cup {p}
    OBVIOUS
  <1>4. PICK S, T : S = l + 1 .. p - 1 /\ T = S \cup {p} /\ T = l + 1 .. (p + 1) - 1
    BY <1>3
  <1>5. /\ ChunksOf(g, p) = {j \in S : g[j].kind = "audio-chunk" /\ g[j].bytes > 0}
        /\ ChunksOf(g, p + 1) = {j \in T : g[j].kind = "audio-chunk" /\ g[j].bytes > 0}
    BY <1>1, <1>2, <1>4 DEF ChunksOf
  <1> QED BY <1>4, <1>5

LEMMA RunsNext ==
  ASSUME NEW g, NEW p \in Nat \ {0}, g[p].kind \notin {"audio-start", "audio-stop"}
  PROVE  /\ \A j \in 1..p - 1 : j \in FirstsOf(g, p + 1) <=> j \in FirstsOf(g, p)
         /\ \A j, k \in 1..p - 1 : k \in RunOf(g, p + 1, j) <=> k \in RunOf(g, p, j)
  <1>1. PICK C, D : C = ChunksOf(g, p) /\ D = ChunksOf(g, p + 1)
    OBVIOUS
  <1>2. C \subseteq 1..p - 1 /\ D \subseteq 1..p
    <2>1. C \subseteq 1..p - 1
      BY <1>1, ChunksAre
    <2>2. D \subseteq 1..(p + 1) - 1
      BY <1>1, ChunksAre
    <2> QED BY <2>1, <2>2
  <1>3. \A k \in 1..p - 1 : k \in C <=> k \in D
    BY <1>1, ChunksNext
  <1>4. ASSUME NEW j \in 1..p - 1 PROVE j \in FirstsOf(g, p + 1) <=> j \in FirstsOf(g, p)
    BY <1>1, <1>2, <1>3 DEF FirstsOf
  <1>5. ASSUME NEW j \in 1..p - 1, NEW k \in 1..p - 1
        PROVE  k \in RunOf(g, p + 1, j) <=> k \in RunOf(g, p, j)
    BY <1>1, <1>2, <1>3 DEF RunOf
  <1> QED BY <1>4, <1>5

LEMMA BytesNext ==
  ASSUME NEW g, NEW p \in Nat \ {0}, \A k \in 1..p : IsEvent(g[k]),
         g[p].kind \notin {"audio-start", "audio-stop"}, NEW j \in 1..p - 1
  PROVE  /\ p \in RunOf(g, p + 1, j) => BytesOf(g, p + 1, j) = BytesOf(g, p, j) + g[p].bytes
         /\ p \notin RunOf(g, p + 1, j) => BytesOf(g, p + 1, j) = BytesOf(g, p, j)
  <1>1. PICK n \in Nat : n = p - 1
    OBVIOUS
  <1>2. PICK s \in Seq(Nat) : s = BytesAt(g, p, j) /\ Len(s) = n /\ BytesOf(g, p, j) = Total(s)
    <2>1. \A k \in 1..p - 1 : IsEvent(g[k])
      OBVIOUS
    <2>2. BytesAt(g, p, j) \in Seq(Nat) /\ Len(BytesAt(g, p, j)) = p - 1
      BY <2>1, BytesAtIs
    <2>3. BytesOf(g, p, j) = Total(BytesAt(g, p, j))
      BY <2>1, BytesAtIs
    <2> QED BY <1>1, <2>2, <2>3
  <1>3. PICK t \in Seq(Nat) : /\ t = BytesAt(g, p + 1, j) /\ Len(t) = p
                              /\ BytesOf(g, p + 1, j) = Total(t)
    <2>1. PICK q \in Nat \ {0} : q = p + 1 /\ q - 1 = p
      OBVIOUS
    <2>2. \A k \in 1..q - 1 : IsEvent(g[k])
      BY <2>1
    <2>3. /\ BytesAt(g, q, j) \in Seq(Nat) /\ Len(BytesAt(g, q, j)) = q - 1
          /\ BytesOf(g, q, j) = Total(BytesAt(g, q, j))
      BY <2>2, BytesAtIs
    <2> QED BY <2>1, <2>3
  <1>4. ASSUME NEW k \in 1..n PROVE t[k] = s[k]
    <2>1. k \in RunOf(g, p + 1, j) <=> k \in RunOf(g, p, j)
      BY <1>1, RunsNext
    <2> QED BY <1>1, <1>2, <1>3, <2>1 DEF BytesAt
  <1>5. Len(s) = n /\ Len(t) = n + 1
    <2>1. n + 1 = p
      BY <1>1
    <2> QED BY <1>2, <1>3, <2>1
  <1>6. Total(s) \in Nat /\ Total(t) = Total(s) + t[n + 1]
    BY <1>4, <1>5, TotalOneMore
  <1>7. t[n + 1] = t[p]
    BY <1>1
  <1>8. /\ p \in RunOf(g, p + 1, j) => t[p] = g[p].bytes
        /\ p \notin RunOf(g, p + 1, j) => t[p] = 0
    <2>1. p \in 1..(p + 1) - 1
      OBVIOUS
    <2>2. t[p] = IF p \in RunOf(g, p + 1, j) THEN g[p].bytes ELSE 0
      BY <1>3, <2>1 DEF BytesAt
    <2> QED BY <2>2
  <1>9. p \in RunOf(g, p + 1, j) => Total(t) = Total(s) + g[p].bytes
    BY <1>6, <1>7, <1>8
  <1>10. p \notin RunOf(g, p + 1, j) => Total(t) = Total(s)
    <2>1. CASE t[p] = 0
      <3>1. Total(t) = Total(s) + 0
        BY <1>6, <1>7, <2>1
      <3> QED BY <1>6, <3>1
    <2> QED BY <1>8, <2>1
  <1> QED BY <1>2, <1>3, <1>9, <1>10

(* The run of a new chunk is the chunk. *)
LEMMA BytesOfNew ==
  ASSUME NEW g, NEW p \in Nat \ {0}, \A k \in 1..p : IsEvent(g[k]), p \in ChunksOf(g, p + 1)
  PROVE  BytesOf(g, p + 1, p) = g[p].bytes
  <1>1. PICK n \in Nat : n = p - 1
    OBVIOUS
  <1>2. PICK t \in Seq(Nat) : /\ t = BytesAt(g, p + 1, p) /\ Len(t) = p
                              /\ BytesOf(g, p + 1, p) = Total(t)
    <2>1. p + 1 \in Nat \ {0} /\ (p + 1) - 1 = p
      OBVIOUS
    <2> QED BY <2>1, BytesAtIs
  <1>3. RunOf(g, p + 1, p) = {p}
    <2>1. ChunksOf(g, p + 1) \subseteq 1..(p + 1) - 1
      BY ChunksAre
    <2> QED BY <2>1 DEF RunOf
  <1>4. t[p] = g[p].bytes /\ \A k \in 1..n : t[k] = 0
    BY <1>1, <1>2, <1>3 DEF BytesAt
  <1>5. PICK s : s = [k \in 1..n |-> 0]
    OBVIOUS
  <1>6. s \in Seq(Int) /\ Len(s) = n /\ DOMAIN s = 1..n /\ \A k \in DOMAIN s : s[k] = 0
    BY <1>5, SeqDef
  <1>7. Total(s) = 0
    BY <1>6, TotalIs0
  <1>8. s \in Seq(Nat) /\ Len(s) = n
    BY <1>5, SeqDef
  <1>9. Len(t) = n + 1
    BY <1>1, <1>2
  <1>10. \A k \in 1..n : t[k] = s[k]
    BY <1>4, <1>5
  <1>11. Total(t) = Total(s) + t[n + 1]
    BY <1>8, <1>9, <1>10, TotalOneMore
  <1>12. PICK b \in Nat : b = t[p] /\ b = t[n + 1]
    BY <1>1, <1>2
  <1>13. Total(t) = b
    BY <1>7, <1>11, <1>12
  <1> QED BY <1>2, <1>4, <1>12, <1>13

(* An event without audio changes nothing. *)
LEMMA QuietNext ==
  ASSUME NEW g, NEW p \in Nat \ {0}, \A k \in 1..p : IsEvent(g[k]),
         g[p].kind \notin {"audio-start", "audio-stop"},
         ~(g[p].kind = "audio-chunk" /\ g[p].bytes > 0)
  PROVE  /\ ChunksOf(g, p + 1) = ChunksOf(g, p)
         /\ FirstsOf(g, p + 1) = FirstsOf(g, p)
         /\ \A j \in 1..p - 1 : BytesOf(g, p + 1, j) = BytesOf(g, p, j)
         /\ SamplesOf(g, p + 1) = SamplesOf(g, p)
  <1>1. ChunksOf(g, p + 1) = ChunksOf(g, p)
    BY ChunksNext
  <1>2. ChunksOf(g, p) \subseteq 1..p - 1
    BY ChunksAre
  <1>3. FirstsOf(g, p + 1) = FirstsOf(g, p)
    BY <1>1 DEF FirstsOf
  <1>4. ASSUME NEW j \in 1..p - 1 PROVE BytesOf(g, p + 1, j) = BytesOf(g, p, j)
    <2>1. p \notin RunOf(g, p + 1, j)
      BY <1>1, <1>2 DEF RunOf
    <2> QED BY <2>1, BytesNext
  <1>5. PICK n \in Nat : n = p - 1
    OBVIOUS
  <1>6. PICK s \in Seq(Nat) : s = SamplesAt(g, p) /\ Len(s) = n /\ SamplesOf(g, p) = Total(s)
    BY <1>5, SamplesAtIs
  <1>7. PICK t \in Seq(Nat) : /\ t = SamplesAt(g, p + 1) /\ Len(t) = p
                              /\ SamplesOf(g, p + 1) = Total(t)
    <2>1. p + 1 \in Nat \ {0} /\ (p + 1) - 1 = p
      OBVIOUS
    <2> QED BY <2>1, SamplesAtIs
  <1>8. ASSUME NEW k \in 1..n PROVE t[k] = s[k]
    <2>1. PICK F : F = FirstsOf(g, p) /\ F = FirstsOf(g, p + 1)
      BY <1>3
    <2>2. BytesOf(g, p + 1, k) = BytesOf(g, p, k) /\ k \in 1..p - 1 /\ k \in 1..(p + 1) - 1
      BY <1>4, <1>5
    <2> QED BY <1>6, <1>7, <2>1, <2>2 DEF SamplesAt
  <1>9. t[p] = 0
    <2>1. p \notin FirstsOf(g, p + 1)
      BY <1>1, <1>2 DEF FirstsOf
    <2> QED BY <1>7, <2>1 DEF SamplesAt
  <1>10. Len(s) = n /\ Len(t) = n + 1
    BY <1>5, <1>6, <1>7
  <1>11. Total(s) \in Nat /\ Total(t) = Total(s) + t[n + 1]
    BY <1>8, <1>10, TotalOneMore
  <1>12. Total(t) = Total(s)
    BY <1>5, <1>9, <1>11
  <1> QED BY <1>1, <1>3, <1>4, <1>6, <1>7, <1>12

(* A start or a stop leaves no audio. *)
LEMMA EmptyNext ==
  ASSUME NEW g, NEW p \in Nat \ {0}, \A k \in 1..p : IsEvent(g[k]),
         g[p].kind \in {"audio-start", "audio-stop"}
  PROVE  ChunksOf(g, p + 1) = {} /\ SamplesOf(g, p + 1) = 0
  <1>1. LastOf(g, p + 1, {"audio-start", "audio-stop"}) = p
    BY LastNext
  <1>2. ChunksOf(g, p + 1) = {}
    <2>1. p + 1 .. (p + 1) - 1 = {}
      OBVIOUS
    <2> QED BY <1>1, <2>1 DEF ChunksOf
  <1>3. FirstsOf(g, p + 1) = {}
    BY <1>2 DEF FirstsOf
  <1>4. PICK t \in Seq(Nat) : t = SamplesAt(g, p + 1) /\ SamplesOf(g, p + 1) = Total(t)
    <2>1. p + 1 \in Nat \ {0} /\ (p + 1) - 1 = p
      OBVIOUS
    <2> QED BY <2>1, SamplesAtIs
  <1>5. t \in Seq(Int) /\ \A k \in DOMAIN t : t[k] = 0
    BY <1>3, <1>4 DEF SamplesAt
  <1> QED BY <1>2, <1>4, <1>5, TotalIs0

-----------------------------------------------------------------------------
(* The audio of a connection fits what it has heard before i: its segments *)
(* have the samples of the runs, and the last one is the last run, which   *)
(* is the one that may yet grow.                                           *)

LastRun(h, i, f) ==
    /\ f \in FirstsOf(h, i)
    /\ \A m \in ChunksOf(h, i) : m >= f => FormatOf(h, m) = FormatOf(h, f)

LEMMA RunGrows ==
  ASSUME NEW g, NEW p \in Nat \ {0}, \A k \in 1..p : IsEvent(g[k]),
         g[p].kind = "audio-chunk", g[p].bytes > 0,
         NEW f \in Nat, LastRun(g, p, f), FormatOf(g, f) = FormatOf(g, p)
  PROVE  /\ LastRun(g, p + 1, f)
         /\ BytesOf(g, p + 1, f) = BytesOf(g, p, f) + g[p].bytes
         /\ SamplesOf(g, p + 1) =
                SamplesOf(g, p) + (Samples(BytesOf(g, p + 1, f), FormatOf(g, f))
                                   - Samples(BytesOf(g, p, f), FormatOf(g, f)))
  <1>1. PICK C, D : C = ChunksOf(g, p) /\ D = ChunksOf(g, p + 1)
    OBVIOUS
  <1>2. D = C \cup {p}
    BY <1>1, ChunksNext
  <1>3. C \subseteq 1..p - 1
    BY <1>1, ChunksAre
  <1>4. f \in FirstsOf(g, p) /\ f \in C /\ f \in 1..p - 1
    BY <1>1, <1>3 DEF LastRun, FirstsOf
  <1>5. \A m \in C : m >= f => FormatOf(g, m) = FormatOf(g, f)
    BY <1>1 DEF LastRun
  <1>6. LastRun(g, p + 1, f)
    <2>1. f \in FirstsOf(g, p + 1)
      BY <1>4, RunsNext
    <2>2. \A m \in D : m >= f => FormatOf(g, m) = FormatOf(g, f)
      BY <1>2, <1>5
    <2> QED BY <1>1, <2>1, <2>2 DEF LastRun
  <1>7. BytesOf(g, p + 1, f) = BytesOf(g, p, f) + g[p].bytes
    <2>1. p \in RunOf(g, p + 1, f)
      <3>1. p \in D /\ p >= f
        BY <1>2, <1>4
      <3>2. \A m \in D : m \in f..p => FormatOf(g, m) = FormatOf(g, f)
        BY <1>2, <1>3, <1>5
      <3> QED BY <1>1, <3>1, <3>2 DEF RunOf
    <2> QED BY <1>4, <2>1, BytesNext
  <1>8. p \notin FirstsOf(g, p + 1)
    <2>1. f \in D /\ f < p
      BY <1>2, <1>4
    <2>2. \A m \in D : m \in f..p - 1 => FormatOf(g, m) = FormatOf(g, p)
      BY <1>2, <1>5
    <2> QED BY <1>1, <2>1, <2>2 DEF FirstsOf
  <1>9. ASSUME NEW j \in FirstsOf(g, p), j # f
        PROVE  j \in 1..p - 1 /\ BytesOf(g, p + 1, j) = BytesOf(g, p, j)
    <2>1. j \in C /\ j \in 1..p - 1
      BY <1>1, <1>3 DEF FirstsOf
    <2>2. p \notin RunOf(g, p + 1, j)
      <3>1. SUFFICES ASSUME p \in RunOf(g, p + 1, j) PROVE FALSE
        OBVIOUS
      <3>2. \A m \in D : m \in j..p => FormatOf(g, m) = FormatOf(g, j)
        BY <1>1, <3>1 DEF RunOf
      <3>3. FormatOf(g, p) = FormatOf(g, j)
        BY <1>2, <2>1, <3>2
      <3>4. CASE j < f
        <4>1. PICK m \in C : m \in j..f - 1 /\ FormatOf(g, m) # FormatOf(g, f)
          BY <1>1, <1>4, <2>1, <3>4 DEF FirstsOf
        <4>2. m \in D /\ m \in j..p
          BY <1>2, <1>4, <2>1, <4>1
        <4> QED BY <3>2, <3>3, <4>1, <4>2
      <3>5. CASE f < j
        <4>1. PICK m \in C : m \in f..j - 1 /\ FormatOf(g, m) # FormatOf(g, j)
          BY <1>1, <1>4, <3>5 DEF FirstsOf
        <4>2. m >= f
          BY <1>4, <2>1, <4>1
        <4> QED BY <1>5, <3>3, <4>1, <4>2
      <3> QED BY <1>4, <1>9, <2>1, <3>4, <3>5
    <2> QED BY <2>1, <2>2, BytesNext
  <1>10. PICK n \in Nat : n = p - 1 /\ p = n + 1
    OBVIOUS
  <1>11. PICK s \in Seq(Nat) : s = SamplesAt(g, p) /\ Len(s) = n /\ SamplesOf(g, p) = Total(s)
    <2>1. \A k \in 1..p - 1 : IsEvent(g[k])
      OBVIOUS
    <2>2. SamplesAt(g, p) \in Seq(Nat) /\ Len(SamplesAt(g, p)) = p - 1
      BY <2>1, SamplesAtIs
    <2>3. SamplesOf(g, p) = Total(SamplesAt(g, p))
      BY <2>1, SamplesAtIs
    <2> QED BY <1>10, <2>2, <2>3
  <1>12. PICK t \in Seq(Nat) : /\ t = SamplesAt(g, p + 1) /\ Len(t) = p
                               /\ SamplesOf(g, p + 1) = Total(t)
    <2>1. p + 1 \in Nat \ {0} /\ (p + 1) - 1 = p
      OBVIOUS
    <2> QED BY <2>1, SamplesAtIs
  <1>13. ASSUME NEW k \in 1..n, k # f PROVE t[k] = s[k]
    <2>1. k \in FirstsOf(g, p + 1) <=> k \in FirstsOf(g, p)
      BY <1>10, RunsNext
    <2>2. k \in 1..p - 1 /\ k \in 1..(p + 1) - 1
      <3>1. k \in 1..n
        OBVIOUS
      <3> QED BY <1>10, <3>1
    <2>3. k \in FirstsOf(g, p) => BytesOf(g, p + 1, k) = BytesOf(g, p, k)
      BY <1>9, <1>13
    <2>4. s[k] = IF k \in FirstsOf(g, p) THEN Samples(BytesOf(g, p, k), FormatOf(g, k)) ELSE 0
      BY <1>11, <2>2 DEF SamplesAt
    <2>5. t[k] = IF k \in FirstsOf(g, p + 1)
                 THEN Samples(BytesOf(g, p + 1, k), FormatOf(g, k)) ELSE 0
      BY <1>12, <2>2 DEF SamplesAt
    <2> QED BY <2>1, <2>3, <2>4, <2>5
  <1>14. s[f] = Samples(BytesOf(g, p, f), FormatOf(g, f))
    BY <1>4, <1>11 DEF SamplesAt
  <1>15. t[f] = Samples(BytesOf(g, p + 1, f), FormatOf(g, f))
    <2>1. f \in FirstsOf(g, p + 1) /\ f \in 1..(p + 1) - 1
      BY <1>4, <1>6 DEF LastRun
    <2> QED BY <1>12, <2>1 DEF SamplesAt
  <1>16. t[n + 1] = 0
    <2>1. p \in 1..(p + 1) - 1
      OBVIOUS
    <2>2. t[p] = 0
      BY <1>8, <1>12, <2>1 DEF SamplesAt
    <2> QED BY <1>10, <2>2
  <1>17. Len(s) = n /\ Len(t) = n + 1 /\ f \in 1..n
    BY <1>4, <1>10, <1>11, <1>12
  <1>18. Differ(s, t, n, f)
    BY <1>13, <1>17 DEF Differ
  <1>19. ByOne(s, t, n, f)
    BY <1>18, TotalNext
  <1>20. PICK S, x, y, z \in Nat : /\ S = Total(s) /\ x = s[f] /\ y = t[f] /\ z = t[n + 1]
                                  /\ Total(t) = S + (y - x) + z
    BY <1>19 DEF ByOne
  <1>21. Total(t) = S + (y - x)
    <2>1. z = 0
      BY <1>16, <1>20
    <2>2. Total(t) = S + (y - x) + 0
      BY <1>20, <2>1
    <2>3. S + (y - x) + 0 = S + (y - x)
      OBVIOUS
    <2> QED BY <2>2, <2>3
  <1> QED BY <1>6, <1>7, <1>11, <1>12, <1>14, <1>15, <1>20, <1>21

LEMMA RunStarts ==
  ASSUME NEW g, NEW p \in Nat \ {0}, \A k \in 1..p : IsEvent(g[k]),
         g[p].kind = "audio-chunk", g[p].bytes > 0,
         \/ ChunksOf(g, p) = {}
         \/ \E f : LastRun(g, p, f) /\ FormatOf(g, f) # FormatOf(g, p)
  PROVE  /\ LastRun(g, p + 1, p)
         /\ BytesOf(g, p + 1, p) = g[p].bytes
         /\ SamplesOf(g, p + 1) = SamplesOf(g, p) + Samples(g[p].bytes, FormatOf(g, p))
  <1>1. PICK C, D : C = ChunksOf(g, p) /\ D = ChunksOf(g, p + 1)
    OBVIOUS
  <1>2. D = C \cup {p}
    BY <1>1, ChunksNext
  <1>3. C \subseteq 1..p - 1
    BY <1>1, ChunksAre
  <1>4. ASSUME NEW k \in D, k < p
        PROVE  \E m \in D : m \in k..p - 1 /\ FormatOf(g, m) # FormatOf(g, p)
    <2>1. k \in C /\ k \in 1..p - 1
      BY <1>2, <1>3, <1>4
    <2>2. PICK f : LastRun(g, p, f) /\ FormatOf(g, f) # FormatOf(g, p)
      BY <1>1, <2>1
    <2>3. f \in C /\ f \in 1..p - 1 /\ \A m \in C : m >= f => FormatOf(g, m) = FormatOf(g, f)
      BY <1>1, <1>3, <2>2 DEF LastRun, FirstsOf
    <2>4. CASE k >= f
      <3>1. k \in k..p - 1 /\ FormatOf(g, k) # FormatOf(g, p)
        BY <2>1, <2>2, <2>3, <2>4
      <3> QED BY <3>1
    <2>5. CASE k < f
      <3>1. f \in D /\ f \in k..p - 1
        BY <1>2, <2>1, <2>3, <2>5
      <3> QED BY <2>2, <3>1
    <2> QED BY <2>1, <2>3, <2>4, <2>5
  <1>5. p \in FirstsOf(g, p + 1)
    BY <1>1, <1>2, <1>4 DEF FirstsOf
  <1>6. LastRun(g, p + 1, p)
    <2>1. \A m \in D : m >= p => m = p
      BY <1>2, <1>3
    <2> QED BY <1>1, <1>5, <2>1 DEF LastRun
  <1>7. BytesOf(g, p + 1, p) = g[p].bytes
    <2>1. p \in ChunksOf(g, p + 1)
      BY <1>1, <1>2
    <2> QED BY <2>1, BytesOfNew
  <1>8. ASSUME NEW j \in FirstsOf(g, p)
        PROVE  j \in 1..p - 1 /\ BytesOf(g, p + 1, j) = BytesOf(g, p, j)
    <2>1. j \in C /\ j \in 1..p - 1
      BY <1>1, <1>3 DEF FirstsOf
    <2>2. p \notin RunOf(g, p + 1, j)
      <3>1. SUFFICES ASSUME p \in RunOf(g, p + 1, j) PROVE FALSE
        OBVIOUS
      <3>2. \A m \in D : m \in j..p => FormatOf(g, m) = FormatOf(g, j)
        BY <1>1, <3>1 DEF RunOf
      <3>3. FormatOf(g, p) = FormatOf(g, j)
        BY <1>2, <2>1, <3>2
      <3>4. PICK m \in D : m \in j..p - 1 /\ FormatOf(g, m) # FormatOf(g, p)
        BY <1>2, <1>4, <2>1
      <3>5. m \in j..p
        BY <2>1, <3>4
      <3> QED BY <3>2, <3>3, <3>4, <3>5
    <2> QED BY <2>1, <2>2, BytesNext
  <1>9. PICK n \in Nat : n = p - 1 /\ p = n + 1
    OBVIOUS
  <1>10. PICK s \in Seq(Nat) : s = SamplesAt(g, p) /\ Len(s) = n /\ SamplesOf(g, p) = Total(s)
    <2>1. \A k \in 1..p - 1 : IsEvent(g[k])
      OBVIOUS
    <2>2. SamplesAt(g, p) \in Seq(Nat) /\ Len(SamplesAt(g, p)) = p - 1
      BY <2>1, SamplesAtIs
    <2>3. SamplesOf(g, p) = Total(SamplesAt(g, p))
      BY <2>1, SamplesAtIs
    <2> QED BY <1>9, <2>2, <2>3
  <1>11. PICK t \in Seq(Nat) : /\ t = SamplesAt(g, p + 1) /\ Len(t) = p
                               /\ SamplesOf(g, p + 1) = Total(t)
    <2>1. p + 1 \in Nat \ {0} /\ (p + 1) - 1 = p
      OBVIOUS
    <2> QED BY <2>1, SamplesAtIs
  <1>12. ASSUME NEW k \in 1..n PROVE t[k] = s[k]
    <2>1. k \in FirstsOf(g, p + 1) <=> k \in FirstsOf(g, p)
      BY <1>9, RunsNext
    <2>2. k \in 1..p - 1 /\ k \in 1..(p + 1) - 1
      BY <1>9
    <2>3. k \in FirstsOf(g, p) => BytesOf(g, p + 1, k) = BytesOf(g, p, k)
      BY <1>8
    <2>4. s[k] = IF k \in FirstsOf(g, p) THEN Samples(BytesOf(g, p, k), FormatOf(g, k)) ELSE 0
      BY <1>10, <2>2 DEF SamplesAt
    <2>5. t[k] = IF k \in FirstsOf(g, p + 1)
                 THEN Samples(BytesOf(g, p + 1, k), FormatOf(g, k)) ELSE 0
      BY <1>11, <2>2 DEF SamplesAt
    <2> QED BY <2>1, <2>3, <2>4, <2>5
  <1>13. t[n + 1] = Samples(g[p].bytes, FormatOf(g, p))
    <2>1. p \in 1..(p + 1) - 1
      OBVIOUS
    <2>2. t[p] = Samples(BytesOf(g, p + 1, p), FormatOf(g, p))
      BY <1>5, <1>11, <2>1 DEF SamplesAt
    <2> QED BY <1>7, <1>9, <2>2
  <1>14. Len(s) = n /\ Len(t) = n + 1
    BY <1>9, <1>10, <1>11
  <1>15. Total(t) = Total(s) + t[n + 1]
    <2>1. \A k \in 1..n : t[k] = s[k]
      BY <1>12
    <2> QED BY <1>14, <2>1, TotalOneMore
  <1> QED BY <1>6, <1>7, <1>10, <1>11, <1>13, <1>15

IsSegment(s) ==
    \E f : \E b \in Nat : IsFormat(f) /\ s = [format |-> f, bytes |-> b]

PcmAt(a) == [k \in DOMAIN a |-> Samples(a[k].bytes, a[k].format)]

AudioFits(a, h, i) ==
    /\ IsList(a)
    /\ \A k \in 1..Len(a) : IsSegment(a[k])
    /\ Pcm(a) = SamplesOf(h, i)
    /\ ChunksOf(h, i) = {} => Len(a) = 0
    /\ ChunksOf(h, i) # {} =>
           /\ Len(a) > 0
           /\ \E f \in 1..i - 1 : /\ LastRun(h, i, f)
                                  /\ a[Len(a)].format = FormatOf(h, f)
                                  /\ a[Len(a)].bytes = BytesOf(h, i, f)

LEMMA PcmAtIs ==
  ASSUME NEW a, IsList(a), \A k \in 1..Len(a) : IsSegment(a[k])
  PROVE  /\ PcmAt(a) \in Seq(Nat) /\ Len(PcmAt(a)) = Len(a)
         /\ Pcm(a) = Total(PcmAt(a)) /\ Pcm(a) \in Nat
  <1>1. PICK n \in Nat : n = Len(a) /\ DOMAIN a = 1..n
    BY ListIs
  <1>2. ASSUME NEW k \in 1..n PROVE Samples(a[k].bytes, a[k].format) \in Nat
    <2>1. PICK f, b : b \in Nat /\ IsFormat(f) /\ a[k] = [format |-> f, bytes |-> b]
      BY <1>1 DEF IsSegment
    <2>2. a[k].bytes = b /\ a[k].format = f
      BY <2>1
    <2> QED BY <2>1, <2>2, SamplesIsNat
  <1>3. PICK s : s = PcmAt(a)
    OBVIOUS
  <1>4. s = [k \in 1..n |-> Samples(a[k].bytes, a[k].format)]
    BY <1>1, <1>3 DEF PcmAt
  <1>5. s \in Seq(Nat) /\ Len(s) = n
    BY <1>2, <1>4, SeqDef
  <1>6. Pcm(a) = Total(s)
    BY <1>3 DEF Pcm, PcmAt
  <1> QED BY <1>1, <1>3, <1>5, <1>6, TotalNat

LEMMA FitsSame ==
  ASSUME NEW g, NEW h, NEW n \in Nat, \A k \in 1..n : g[k] = h[k], NEW i \in 1..n + 1,
         NEW a, AudioFits(a, h, i)
  PROVE  AudioFits(a, g, i)
  <1>1. PICK C : C = ChunksOf(g, i) /\ C = ChunksOf(h, i)
    BY ChunksSame
  <1>2. C \subseteq 1..i - 1
    <2>1. i \in Nat \ {0}
      OBVIOUS
    <2> QED BY <1>1, <2>1, ChunksAre
  <1>3. FirstsOf(g, i) = FirstsOf(h, i)
    BY RunsSame
  <1>4. \A j \in 1..i - 1 : BytesOf(g, i, j) = BytesOf(h, i, j)
    BY SamplesSame
  <1>5. SamplesOf(g, i) = SamplesOf(h, i)
    BY SamplesSame
  <1>6. \A j \in 1..i - 1 : FormatOf(g, j) = FormatOf(h, j)
    BY FormatSame
  <1>7. ASSUME C # {}
        PROVE  /\ Len(a) > 0
               /\ \E f \in 1..i - 1 : /\ LastRun(g, i, f)
                                      /\ a[Len(a)].format = FormatOf(g, f)
                                      /\ a[Len(a)].bytes = BytesOf(g, i, f)
    <2>1. PICK f \in 1..i - 1 : /\ LastRun(h, i, f)
                                /\ a[Len(a)].format = FormatOf(h, f)
                                /\ a[Len(a)].bytes = BytesOf(h, i, f)
      BY <1>1, <1>7 DEF AudioFits
    <2>2. LastRun(g, i, f)
      BY <1>1, <1>2, <1>3, <1>6, <2>1 DEF LastRun
    <2>3. a[Len(a)].format = FormatOf(g, f) /\ a[Len(a)].bytes = BytesOf(g, i, f)
      BY <1>4, <1>6, <2>1
    <2>4. Len(a) > 0
      BY <1>1, <1>7 DEF AudioFits
    <2> QED BY <2>2, <2>3, <2>4
  <1>8. /\ IsList(a) /\ \A k \in 1..Len(a) : IsSegment(a[k])
        /\ Pcm(a) = SamplesOf(g, i)
        /\ C = {} => Len(a) = 0
    BY <1>1, <1>5 DEF AudioFits
  <1> QED BY <1>1, <1>7, <1>8 DEF AudioFits

LEMMA QuietFits ==
  ASSUME NEW g, NEW p \in Nat \ {0}, \A k \in 1..p : IsEvent(g[k]),
         g[p].kind \notin {"audio-start", "audio-stop"},
         ~(g[p].kind = "audio-chunk" /\ g[p].bytes > 0),
         NEW a, AudioFits(a, g, p)
  PROVE  AudioFits(a, g, p + 1)
  <1>1. PICK C : C = ChunksOf(g, p + 1) /\ C = ChunksOf(g, p)
    BY QuietNext
  <1>2. FirstsOf(g, p + 1) = FirstsOf(g, p)
    BY QuietNext
  <1>3. \A j \in 1..p - 1 : BytesOf(g, p + 1, j) = BytesOf(g, p, j)
    BY QuietNext
  <1>4. SamplesOf(g, p + 1) = SamplesOf(g, p)
    BY QuietNext
  <1>5. ASSUME C # {}
        PROVE  /\ Len(a) > 0
               /\ \E f \in 1..(p + 1) - 1 : /\ LastRun(g, p + 1, f)
                                            /\ a[Len(a)].format = FormatOf(g, f)
                                            /\ a[Len(a)].bytes = BytesOf(g, p + 1, f)
    <2>1. PICK f \in 1..p - 1 : /\ LastRun(g, p, f)
                                /\ a[Len(a)].format = FormatOf(g, f)
                                /\ a[Len(a)].bytes = BytesOf(g, p, f)
      BY <1>1, <1>5 DEF AudioFits
    <2>2. LastRun(g, p + 1, f)
      BY <1>1, <1>2, <2>1 DEF LastRun
    <2>3. a[Len(a)].bytes = BytesOf(g, p + 1, f)
      BY <1>3, <2>1
    <2>4. Len(a) > 0
      BY <1>1, <1>5 DEF AudioFits
    <2>5. f \in 1..(p + 1) - 1
      OBVIOUS
    <2> QED BY <2>1, <2>2, <2>3, <2>4, <2>5
  <1>6. /\ IsList(a) /\ \A k \in 1..Len(a) : IsSegment(a[k])
        /\ Pcm(a) = SamplesOf(g, p + 1)
        /\ C = {} => Len(a) = 0
    BY <1>1, <1>4 DEF AudioFits
  <1> QED BY <1>1, <1>5, <1>6 DEF AudioFits

LEMMA NoAudioFits ==
  ASSUME NEW h, NEW i, ChunksOf(h, i) = {}, SamplesOf(h, i) = 0
  PROVE  AudioFits(<<>>, h, i)
  <1>1. PICK a : a = <<>> /\ a \in Seq(Int) /\ Len(a) = 0
    BY EmptySeq
  <1>2. IsList(a) /\ \A k \in 1..Len(a) : IsSegment(a[k])
    <2>1. IsList(a)
      BY <1>1, SeqIsList
    <2>2. 1..Len(a) = {}
      BY <1>1
    <2> QED BY <2>1, <2>2
  <1>3. Pcm(a) = Total(PcmAt(a))
    BY <1>2, PcmAtIs
  <1>4. PICK s : s = PcmAt(a) /\ s \in Seq(Nat) /\ Len(s) = 0
    BY <1>1, <1>2, PcmAtIs
  <1>5. s \in Seq(Int) /\ \A k \in DOMAIN s : s[k] = 0
    BY <1>4
  <1>6. Total(s) = 0
    BY <1>5, TotalIs0
  <1> QED BY <1>1, <1>2, <1>3, <1>4, <1>6 DEF AudioFits

LEMMA ChunkFits ==
  ASSUME NEW g, NEW p \in Nat \ {0}, \A k \in 1..p : IsEvent(g[k]),
         g[p].kind = "audio-chunk", NEW a, AudioFits(a, g, p)
  PROVE  AudioFits(Extend(a, FormatOf(g, p), g[p].bytes), g, p + 1)
  <1>1. PICK F, x : F = FormatOf(g, p) /\ x = g[p].bytes /\ x \in Nat
    <2>1. g[p].bytes \in Nat
      BY DEF IsEvent
    <2> QED BY <2>1
  <1>2. PICK n \in Nat : n = Len(a) /\ DOMAIN a = 1..n
    BY ListIs DEF AudioFits
  <1>3. IsList(a) /\ (\A k \in 1..n : IsSegment(a[k])) /\ Pcm(a) = SamplesOf(g, p)
    BY <1>2 DEF AudioFits
  <1>4. CASE x = 0
    <2>1. Extend(a, F, x) = a
      BY <1>4 DEF Extend
    <2>2. ~(g[p].kind = "audio-chunk" /\ g[p].bytes > 0)
      BY <1>1, <1>4
    <2>3. g[p].kind \notin {"audio-start", "audio-stop"}
      OBVIOUS
    <2>4. AudioFits(a, g, p + 1)
      BY <2>2, <2>3, QuietFits
    <2> QED BY <1>1, <2>1, <2>4
  <1>5. IsFormat(F)
    BY <1>1, FormatOfIs
  <1>6. PICK s \in Seq(Nat) : s = PcmAt(a) /\ Len(s) = n /\ Pcm(a) = Total(s)
    BY <1>2, <1>3, PcmAtIs
  <1>7. p \in ChunksOf(g, p + 1) \/ x = 0
    <2>1. g[p].bytes > 0 => ChunksOf(g, p + 1) = ChunksOf(g, p) \cup {p}
      BY ChunksNext
    <2> QED BY <1>1, <2>1
  <1>8. CASE x > 0 /\ n > 0 /\ a[n].format = F
    <2>1. PICK f \in 1..p - 1 : /\ LastRun(g, p, f)
                                /\ a[n].format = FormatOf(g, f)
                                /\ a[n].bytes = BytesOf(g, p, f)
      BY <1>2, <1>8 DEF AudioFits
    <2>2. PICK y \in Nat : y = a[n].bytes /\ a[n] = [format |-> F, bytes |-> y]
      <3>1. n \in 1..n
        BY <1>8
      <3>2. PICK ff, b : b \in Nat /\ a[n] = [format |-> ff, bytes |-> b]
        BY <1>3, <3>1 DEF IsSegment
      <3> QED BY <1>8, <3>2
    <2>3. PICK e : e = [format |-> F, bytes |-> y + x]
      OBVIOUS
    <2>4. PICK b : b = Extend(a, F, x) /\ b = [a EXCEPT ![n] = e]
      <3>1. [a[n] EXCEPT !.bytes = @ + x] = e
        BY <2>2, <2>3
      <3>2. Extend(a, F, x) = [a EXCEPT ![n].bytes = @ + x]
        BY <1>2, <1>8 DEF Extend
      <3>3. [a EXCEPT ![n].bytes = @ + x] = [a EXCEPT ![n] = e]
        BY <3>1
      <3> QED BY <3>2, <3>3
    <2>5. /\ b[n] = e /\ \A k \in 1..n : k # n => b[k] = a[k]
          /\ DOMAIN b = 1..n /\ b = [k \in 1..n |-> b[k]]
      <3>1. n \in DOMAIN a
        BY <1>2, <1>8
      <3>2. b = [k \in DOMAIN a |-> IF k = n THEN e ELSE a[k]]
        BY <2>4
      <3> QED BY <1>2, <3>1, <3>2
    <2>6. IsList(b) /\ Len(b) = n
      <3>1. b \in Seq({b[k] : k \in 1..n})
        <4>1. PICK S : S = {b[k] : k \in 1..n}
          OBVIOUS
        <4>2. b \in [1..n -> S]
          BY <2>5, <4>1
        <4>3. b \in Seq(S)
          BY <4>2, SeqDef
        <4> QED BY <4>1, <4>3
      <3>2. IsList(b)
        BY <3>1, SeqIsList
      <3> QED BY <2>5, <3>2, ListIs
    <2>7. \A k \in 1..n : IsSegment(b[k])
      <3>1. IsSegment(e)
        <4>1. y + x \in Nat
          BY <1>1, <2>2
        <4> QED BY <1>5, <2>3, <4>1 DEF IsSegment
      <3> QED BY <1>3, <2>5, <3>1
    <2>8. PICK t \in Seq(Nat) : t = PcmAt(b) /\ Len(t) = n /\ Pcm(b) = Total(t)
      BY <2>6, <2>7, PcmAtIs
    <2>9. /\ LastRun(g, p + 1, f)
          /\ BytesOf(g, p + 1, f) = BytesOf(g, p, f) + x
          /\ SamplesOf(g, p + 1) =
                 SamplesOf(g, p) + (Samples(BytesOf(g, p + 1, f), FormatOf(g, f))
                                    - Samples(BytesOf(g, p, f), FormatOf(g, f)))
      <3>1. f \in Nat /\ FormatOf(g, f) = FormatOf(g, p)
        BY <1>1, <1>8, <2>1
      <3> QED BY <1>1, <1>8, <2>1, <3>1, RunGrows
    <2>10. s[n] = Samples(y, F) /\ t[n] = Samples(y + x, F)
      <3>1. n \in DOMAIN a /\ n \in DOMAIN b
        BY <1>2, <1>8, <2>5
      <3>2. s[n] = Samples(a[n].bytes, a[n].format)
        BY <1>6, <3>1 DEF PcmAt
      <3>3. t[n] = Samples(b[n].bytes, b[n].format)
        BY <2>8, <3>1 DEF PcmAt
      <3>4. b[n].bytes = y + x /\ b[n].format = F
        BY <2>3, <2>5
      <3> QED BY <1>8, <2>2, <3>2, <3>3, <3>4
    <2>11. \A k \in 1..n : k # n => t[k] = s[k]
      BY <1>2, <1>6, <2>5, <2>8 DEF PcmAt
    <2>12. Total(t) = Total(s) + (t[n] - s[n])
      <3>1. s \in Seq(Int) /\ t \in Seq(Int) /\ DOMAIN s = 1..n /\ n \in DOMAIN s
        BY <1>6, <1>8
      <3>2. Len(t) = Len(s) /\ \A k \in DOMAIN s : k # n => t[k] = s[k]
        BY <1>6, <2>8, <2>11, <3>1
      <3> QED BY <3>1, <3>2, TotalChanged
    <2>13. Pcm(b) = SamplesOf(g, p + 1)
      BY <1>3, <1>6, <1>8, <2>1, <2>2, <2>8, <2>9, <2>10, <2>12
    <2>14. b[n].format = FormatOf(g, f) /\ b[n].bytes = BytesOf(g, p + 1, f)
      BY <1>8, <2>1, <2>2, <2>3, <2>5, <2>9
    <2>15. f \in 1..(p + 1) - 1
      OBVIOUS
    <2>16. ChunksOf(g, p + 1) # {}
      BY <1>7, <1>8
    <2>17. AudioFits(b, g, p + 1)
      BY <1>8, <2>6, <2>7, <2>9, <2>13, <2>14, <2>15, <2>16 DEF AudioFits
    <2> QED BY <1>1, <2>4, <2>17
  <1>9. CASE x > 0 /\ ~(n > 0 /\ a[n].format = F)
    <2>1. PICK e : e = [format |-> F, bytes |-> x]
      OBVIOUS
    <2>2. PICK b : b = Extend(a, F, x) /\ b = Append(a, e)
      <3>1. x # 0 /\ ~(Len(a) > 0 /\ a[Len(a)].format = F)
        BY <1>2, <1>9
      <3>2. Extend(a, F, x) = Append(a, [format |-> F, bytes |-> x])
        BY <1>9, <3>1 DEF Extend
      <3> QED BY <2>1, <3>2
    <2>3. /\ IsList(b) /\ Len(b) = n + 1 /\ b[n + 1] = e
          /\ \A k \in 1..n : b[k] = a[k]
      BY <1>2, <1>3, <2>2, ListAppend
    <2>4. \A k \in 1..n + 1 : IsSegment(b[k])
      <3>1. IsSegment(e)
        BY <1>1, <1>5, <2>1 DEF IsSegment
      <3> QED BY <1>3, <2>3, <3>1
    <2>5. PICK t \in Seq(Nat) : t = PcmAt(b) /\ Len(t) = n + 1 /\ Pcm(b) = Total(t)
      BY <2>3, <2>4, PcmAtIs
    <2>6. DOMAIN b = 1..n + 1
      BY <2>3, ListIs
    <2>7. \/ ChunksOf(g, p) = {}
          \/ \E f : LastRun(g, p, f) /\ FormatOf(g, f) # FormatOf(g, p)
      <3>1. ASSUME ChunksOf(g, p) # {}
            PROVE  \E f : LastRun(g, p, f) /\ FormatOf(g, f) # FormatOf(g, p)
        <4>1. n > 0
          BY <1>2, <3>1 DEF AudioFits
        <4>2. PICK f \in 1..p - 1 : LastRun(g, p, f) /\ a[n].format = FormatOf(g, f)
          BY <1>2, <3>1 DEF AudioFits
        <4> QED BY <1>1, <1>9, <4>1, <4>2
      <3> QED BY <3>1
    <2>8. LastRun(g, p + 1, p)
      BY <1>1, <1>9, <2>7, RunStarts
    <2>9. BytesOf(g, p + 1, p) = x
      BY <1>1, <1>9, <2>7, RunStarts
    <2>10. SamplesOf(g, p + 1) = SamplesOf(g, p) + Samples(x, F)
      BY <1>1, <1>9, <2>7, RunStarts
    <2>11. t[n + 1] = Samples(x, F)
      <3>1. n + 1 \in DOMAIN b
        BY <2>6
      <3>2. t[n + 1] = Samples(b[n + 1].bytes, b[n + 1].format)
        BY <2>5, <3>1 DEF PcmAt
      <3> QED BY <2>1, <2>3, <3>2
    <2>12. \A k \in 1..n : t[k] = s[k]
      BY <1>2, <1>6, <2>3, <2>5, <2>6 DEF PcmAt
    <2>13. Total(t) = Total(s) + t[n + 1]
      BY <1>6, <2>5, <2>12, TotalOneMore
    <2>14. Pcm(b) = SamplesOf(g, p + 1)
      BY <1>3, <1>6, <2>5, <2>10, <2>11, <2>13
    <2>15. b[n + 1].format = FormatOf(g, p) /\ b[n + 1].bytes = BytesOf(g, p + 1, p)
      BY <1>1, <2>1, <2>3, <2>9
    <2>16. p \in 1..(p + 1) - 1 /\ n + 1 > 0
      OBVIOUS
    <2>17. ChunksOf(g, p + 1) # {}
      BY <1>7, <1>9
    <2>18. AudioFits(b, g, p + 1)
      BY <2>3, <2>4, <2>8, <2>14, <2>15, <2>16, <2>17 DEF AudioFits
    <2> QED BY <1>1, <2>2, <2>18
  <1> QED BY <1>1, <1>4, <1>8, <1>9

-----------------------------------------------------------------------------
(* One event more in the history h of a connection: what is due then, the  *)
(* format, and the audio after the handler of the event.                   *)

IsHistory(h) == IsList(h) /\ \A k \in 1..Len(h) : IsEvent(h[k])

FormatNow(h) ==
    LET s == LastOf(h, Len(h) + 1, {"audio-start"})
    IN IF s = 0 THEN STT ELSE format_of(h[s].header, STT)

Answers == [kind : {"info", "transcript", "speech", "silence"}, samples : Nat]

(* g is h with the event e behind it, at p. *)
OneEvent(h, e, g, p) ==
    /\ IsHistory(h) /\ IsEvent(e)
    /\ p \in Nat \ {0} /\ p = Len(h) + 1
    /\ IsHistory(g) /\ g = Append(h, e) /\ Len(g) = p /\ g[p] = e
    /\ \A k \in 1..p : IsEvent(g[k])
    /\ \A k \in 1..p - 1 : g[k] = h[k]

LEMMA EventAdded ==
  ASSUME NEW h, IsHistory(h), NEW e, IsEvent(e)
  PROVE  \E g, p : OneEvent(h, e, g, p)
  <1>1. PICK n \in Nat : n = Len(h)
    BY ListIs DEF IsHistory
  <1>2. PICK g : g = Append(h, e)
    OBVIOUS
  <1>3. PICK p \in Nat \ {0} : p = n + 1
    OBVIOUS
  <1>4. IsList(g) /\ Len(g) = n + 1 /\ g[n + 1] = e /\ \A k \in 1..n : g[k] = h[k]
    BY <1>1, <1>2, ListAppend DEF IsHistory
  <1>5. \A k \in 1..p : IsEvent(g[k])
    BY <1>1, <1>3, <1>4 DEF IsHistory
  <1>6. \A k \in 1..p - 1 : g[k] = h[k]
    BY <1>3, <1>4
  <1>7. IsHistory(g)
    BY <1>3, <1>4, <1>5 DEF IsHistory
  <1> QED BY <1>1, <1>2, <1>3, <1>4, <1>5, <1>6, <1>7 DEF OneEvent

LEMMA DueIsList ==
  ASSUME NEW h, NEW i \in Nat \ {0}, \A k \in 1..i : IsEvent(h[k])
  PROVE  Due(h, i) \in Seq(Answers)
  <1>1. PICK n \in Nat : n = SamplesOf(h, i)
    <2>1. \A k \in 1..i - 1 : IsEvent(h[k])
      OBVIOUS
    <2> QED BY <2>1, SamplesAtIs
  <1>2. /\ [kind |-> "info", samples |-> 0] \in Answers
        /\ [kind |-> "transcript", samples |-> n] \in Answers
        /\ [kind |-> "speech", samples |-> 0] \in Answers
        /\ [kind |-> "silence", samples |-> 0] \in Answers
    BY DEF Answers
  <1>3. \A a \in Answers : <<a>> \in Seq(Answers)
    OBVIOUS
  <1>4. <<>> \in Seq(Answers)
    BY EmptySeq
  <1>5. PICK i1, i2, i3, i4 \in Answers :
            /\ i1 = [kind |-> "info", samples |-> 0]
            /\ i2 = [kind |-> "transcript", samples |-> n]
            /\ i3 = [kind |-> "speech", samples |-> 0]
            /\ i4 = [kind |-> "silence", samples |-> 0]
    BY <1>2
  <1>6. Due(h, i) \in {<<i1>>, <<i2>>, <<i3>>, <<i4>>, <<>>}
    BY <1>1, <1>5 DEF Due
  <1> QED BY <1>3, <1>4, <1>6

LEMMA DuesAre ==
  ASSUME NEW h, IsHistory(h)
  PROVE  /\ [i \in 1..Len(h) |-> Due(h, i)] \in Seq(Seq(Answers))
         /\ AllDue(h) \in Seq(Answers)
  <1>1. PICK n \in Nat : n = Len(h)
    BY ListIs DEF IsHistory
  <1>2. ASSUME NEW i \in 1..n PROVE Due(h, i) \in Seq(Answers)
    <2>1. i \in Nat \ {0} /\ \A k \in 1..i : IsEvent(h[k])
      BY <1>1 DEF IsHistory
    <2> QED BY <2>1, DueIsList
  <1>3. PICK S : S = Seq(Answers)
    OBVIOUS
  <1>4. PICK s : s = [i \in 1..Len(h) |-> Due(h, i)]
    OBVIOUS
  <1>5. s \in [1..n -> S]
    BY <1>1, <1>2, <1>3, <1>4
  <1>6. s \in Seq(S)
    BY <1>5, SeqDef
  <1>7. FlattenSeq(s) \in Seq(Answers)
    BY <1>3, <1>6, FlattenIsSeq
  <1> QED BY <1>3, <1>4, <1>6, <1>7 DEF AllDue

LEMMA DueAppends ==
  ASSUME NEW h, NEW e, NEW g, NEW p, OneEvent(h, e, g, p)
  PROVE  AllDue(g) = AllDue(h) \o Due(g, p)
  <1>1. PICK n \in Nat : n = Len(h) /\ p = n + 1 /\ n = p - 1
    BY ListIs DEF OneEvent, IsHistory
  <1>2. PICK S : S = Seq(Answers)
    OBVIOUS
  <1>3. PICK s : s = [i \in 1..Len(h) |-> Due(h, i)] /\ s \in Seq(S)
    BY <1>2, DuesAre DEF OneEvent
  <1>4. PICK t : t = [i \in 1..Len(g) |-> Due(g, i)] /\ t \in Seq(S)
    BY <1>2, DuesAre DEF OneEvent
  <1>5. PICK d \in S : d = Due(g, p)
    <2>1. p \in Nat \ {0} /\ \A k \in 1..p : IsEvent(g[k])
      BY DEF OneEvent
    <2> QED BY <1>2, <2>1, DueIsList
  <1>6. ASSUME NEW i \in 1..n PROVE Due(g, i) = Due(h, i)
    <2>1. \A k \in 1..n : g[k] = h[k]
      BY <1>1 DEF OneEvent
    <2> QED BY <2>1, DueSame
  <1>7. /\ Len(s) = n /\ \A i \in 1..n : s[i] = Due(h, i)
    BY <1>1, <1>3
  <1>8. Len(t) = n + 1 /\ \A i \in 1..n + 1 : t[i] = Due(g, i)
    BY <1>1, <1>4 DEF OneEvent
  <1>9. t = Append(s, d)
    <2>1. t[n + 1] = d /\ \A i \in 1..n : t[i] = s[i]
      BY <1>1, <1>5, <1>6, <1>7, <1>8
    <2>2. PICK u \in Seq(S) : u = Append(s, d)
      BY <1>3, <1>5, AppendProperties
    <2>3. Len(u) = n + 1 /\ u[n + 1] = d /\ \A i \in 1..n : u[i] = s[i]
      BY <1>3, <1>5, <1>7, <2>2, AppendProperties
    <2>4. \A i \in 1..n + 1 : t[i] = u[i]
      BY <2>1, <2>3
    <2>5. Len(t) = Len(u) /\ \A i \in 1..Len(t) : t[i] = u[i]
      BY <1>8, <2>3, <2>4
    <2> QED BY <1>4, <2>2, <2>5, SeqEqual
  <1>10. FlattenSeq(Append(s, d)) = FlattenSeq(s) \o d
    BY <1>2, <1>3, <1>5, FlattenAppend
  <1>11. AllDue(g) = FlattenSeq(t) /\ AllDue(h) = FlattenSeq(s)
    BY <1>3, <1>4 DEF AllDue
  <1> QED BY <1>5, <1>9, <1>10, <1>11

LEMMA FormatNext ==
  ASSUME NEW h, NEW e, NEW g, NEW p, OneEvent(h, e, g, p)
  PROVE  /\ e.kind = "audio-start" => FormatNow(g) = format_of(e.header, STT)
         /\ e.kind # "audio-start" => FormatNow(g) = FormatNow(h)
         /\ FormatOf(g, p) = format_of(e.header, FormatNow(h))
  <1>1. PICK n \in Nat : n = Len(h) /\ p = n + 1 /\ n = p - 1
    BY ListIs DEF OneEvent, IsHistory
  <1>2. p \in Nat \ {0} /\ Len(g) = p /\ g[p] = e /\ \A k \in 1..n : g[k] = h[k]
    BY <1>1 DEF OneEvent
  <1>3. PICK s \in 0..n : s = LastOf(h, p, {"audio-start"})
    <2>1. LastOf(h, p, {"audio-start"}) \in 0..p - 1
      BY <1>2, LastIs
    <2> QED BY <1>1, <2>1
  <1>4. s = LastOf(g, p, {"audio-start"})
    <2>1. p \in 1..n + 1
      BY <1>1, <1>2
    <2> QED BY <1>2, <1>3, <2>1, LastSame
  <1>5. s # 0 => g[s] = h[s]
    BY <1>2
  <1>6. PICK f : f = IF s = 0 THEN STT ELSE format_of(h[s].header, STT)
    OBVIOUS
  <1>7. FormatNow(h) = f
    BY <1>1, <1>3, <1>6 DEF FormatNow
  <1>8. FormatOf(g, p) = format_of(e.header, f)
    BY <1>2, <1>4, <1>5, <1>6 DEF FormatOf
  <1>9. CASE e.kind = "audio-start"
    <2>1. LastOf(g, p + 1, {"audio-start"}) = p
      BY <1>2, <1>9, LastNext
    <2>2. FormatNow(g) = format_of(e.header, STT)
      BY <1>2, <2>1 DEF FormatNow
    <2> QED BY <1>7, <1>8, <1>9, <2>2
  <1>10. CASE e.kind # "audio-start"
    <2>1. LastOf(g, p + 1, {"audio-start"}) = s
      BY <1>2, <1>4, <1>10, LastNext
    <2>2. FormatNow(g) = f
      BY <1>2, <1>5, <1>6, <2>1 DEF FormatNow
    <2> QED BY <1>7, <1>8, <1>10, <2>2
  <1> QED BY <1>9, <1>10

LEMMA AudioNext ==
  ASSUME NEW h, NEW e, NEW g, NEW p, OneEvent(h, e, g, p), NEW a, AudioFits(a, h, p)
  PROVE  /\ SamplesOf(g, p) = Pcm(a) /\ Pcm(a) \in Nat
         /\ e.kind \in {"audio-start", "audio-stop"} => AudioFits(<<>>, g, p + 1)
         /\ e.kind = "audio-chunk" =>
                AudioFits(Extend(a, format_of(e.header, FormatNow(h)), e.bytes), g, p + 1)
         /\ e.kind \in {"describe", "transcribe", "synthesize"} => AudioFits(a, g, p + 1)
  <1>1. PICK n \in Nat : n = Len(h) /\ p = n + 1 /\ n = p - 1
    BY ListIs DEF OneEvent, IsHistory
  <1>2. /\ p \in Nat \ {0} /\ g[p] = e /\ (\A k \in 1..n : g[k] = h[k])
        /\ p \in 1..n + 1
    BY <1>1 DEF OneEvent
  <1>3. \A k \in 1..p : IsEvent(g[k])
    BY DEF OneEvent
  <1>4. AudioFits(a, g, p)
    BY <1>2, FitsSame
  <1>5. SamplesOf(g, p) = Pcm(a) /\ Pcm(a) \in Nat
    <2>1. IsList(a) /\ (\A k \in 1..Len(a) : IsSegment(a[k])) /\ Pcm(a) = SamplesOf(g, p)
      BY <1>4 DEF AudioFits
    <2> QED BY <2>1, PcmAtIs
  <1>6. ASSUME e.kind \in {"audio-start", "audio-stop"} PROVE AudioFits(<<>>, g, p + 1)
    <2>1. ChunksOf(g, p + 1) = {} /\ SamplesOf(g, p + 1) = 0
      BY <1>2, <1>3, <1>6, EmptyNext
    <2> QED BY <2>1, NoAudioFits
  <1>7. ASSUME e.kind = "audio-chunk"
        PROVE  AudioFits(Extend(a, format_of(e.header, FormatNow(h)), e.bytes), g, p + 1)
    <2>1. FormatOf(g, p) = format_of(e.header, FormatNow(h))
      BY FormatNext
    <2>2. AudioFits(Extend(a, FormatOf(g, p), g[p].bytes), g, p + 1)
      BY <1>2, <1>3, <1>4, <1>7, ChunkFits
    <2> QED BY <1>2, <2>1, <2>2
  <1>8. ASSUME e.kind \in {"describe", "transcribe", "synthesize"} PROVE AudioFits(a, g, p + 1)
    BY <1>2, <1>3, <1>4, <1>8, QuietFits
  <1> QED BY <1>5, <1>6, <1>7, <1>8

-----------------------------------------------------------------------------
(* What a connection keeps fits what it has heard and said: the format is  *)
(* that of the last start, the audio is that of the open request, and all  *)
(* that is due has been said but for the answer it works on, or the one    *)
(* that it has ended without.                                              *)

Fits(h, f, a, n, place, answers) ==
    /\ IsHistory(h)
    /\ f = FormatNow(h)
    /\ AudioFits(a, h, Len(h) + 1)
    /\ n \in Nat
    /\ answers \in Seq(Answers)
    /\ place \in {"reading", "stt", "tts", "writing", "closed"}
    /\ place \in {"reading", "writing"} => AllDue(h) = answers
    /\ place = "stt" => AllDue(h) = Append(answers, [kind |-> "transcript", samples |-> n])
    /\ place = "tts" => AllDue(h) = Append(answers, [kind |-> "speech", samples |-> 0])
    /\ place = "closed" =>
           AllDue(h) = answers \/ \E x \in Answers : AllDue(h) = Append(answers, x)

AllFit ==
    /\ DOMAIN heard = Conns /\ DOMAIN format = Conns /\ DOMAIN audio = Conns
    /\ DOMAIN pcm = Conns /\ DOMAIN conn = Conns /\ DOMAIN said = Conns
    /\ \A c \in Conns : Fits(heard[c], format[c], audio[c], pcm[c], conn[c], said[c])

LEMMA AnswersAre ==
  ASSUME NEW n \in Nat
  PROVE  \A k \in {"info", "transcript", "speech", "silence"} :
             [kind |-> k, samples |-> n] \in Answers
  BY DEF Answers

LEMMA PrefixIs ==
  ASSUME NEW s \in Seq(Answers), NEW t \in Seq(Answers),
         t = s \/ \E x \in Answers : t = Append(s, x)
  PROVE  IsPrefix(s, t) /\ Len(s) >= Len(t) - 1
  <1>1. PICK n \in Nat : n = Len(s)
    OBVIOUS
  <1>2. /\ Len(t) \in {n, n + 1} /\ \A k \in 1..n : t[k] = s[k]
    <2>1. CASE t = s
      BY <1>1, <2>1
    <2>2. ASSUME NEW x \in Answers, t = Append(s, x)
          PROVE  Len(t) = n + 1 /\ \A k \in 1..n : t[k] = s[k]
      BY <1>1, <2>2, AppendProperties
    <2> QED BY <2>1, <2>2
  <1>3. SubSeq(s, 1, n) = [k \in 1..n |-> s[k]]
    BY <1>1
  <1>4. SubSeq(t, 1, n) = [k \in 1..n |-> t[k]]
    BY <1>1, <1>2
  <1>5. SubSeq(s, 1, n) = SubSeq(t, 1, n)
    BY <1>2, <1>3, <1>4
  <1> QED BY <1>1, <1>2, <1>5 DEF IsPrefix

LEMMA FitAnswers == AllFit => AnswersInOrder
  <1> SUFFICES ASSUME AllFit, NEW c \in Conns
               PROVE  /\ IsPrefix(said[c], AllDue(heard[c]))
                      /\ conn[c] = "reading" => said[c] = AllDue(heard[c])
                      /\ Len(said[c]) >= Len(AllDue(heard[c])) - 1
    BY DEF AnswersInOrder
  <1>1. PICK h, f, a, n, place, s : /\ h = heard[c] /\ n = pcm[c] /\ place = conn[c] /\ s = said[c]
                                    /\ Fits(h, f, a, n, place, s)
    BY DEF AllFit
  <1>2. PICK t \in Seq(Answers) : t = AllDue(h)
    BY <1>1, DuesAre DEF Fits
  <1>3. t = s \/ \E x \in Answers : t = Append(s, x)
    <2>1. n \in Nat
      BY <1>1 DEF Fits
    <2>2. PICK i1, i2 \in Answers : /\ i1 = [kind |-> "transcript", samples |-> n]
                                    /\ i2 = [kind |-> "speech", samples |-> 0]
      BY <2>1, AnswersAre
    <2> QED BY <1>1, <1>2, <2>2 DEF Fits
  <1>4. s \in Seq(Answers) /\ (place = "reading" => s = t)
    BY <1>1, <1>2 DEF Fits
  <1>5. IsPrefix(s, t) /\ Len(s) >= Len(t) - 1
    BY <1>3, <1>4, PrefixIs
  <1> QED BY <1>1, <1>2, <1>4, <1>5

LEMMA FitInit == WyomingInit => AllFit
  <1> SUFFICES ASSUME WyomingInit PROVE AllFit
    OBVIOUS
  <1>1. PICK h : h = <<>> /\ h \in Seq(Int) /\ Len(h) = 0
    BY EmptySeq
  <1>2. IsHistory(h)
    <2>1. IsList(h)
      BY <1>1, SeqIsList
    <2>2. 1..Len(h) = {}
      BY <1>1
    <2> QED BY <2>1, <2>2 DEF IsHistory
  <1>3. FormatNow(h) = STT
    <2>4. PICK i \in Nat \ {0} : i = 1
      OBVIOUS
    <2>1. PICK kinds : kinds = {"audio-start"}
      OBVIOUS
    <2>2. LastOf(h, i, kinds) \in 0..i - 1
      BY LastIs
    <2>3. LastOf(h, i, kinds) = 0 /\ Len(h) + 1 = i
      BY <1>1, <2>4, <2>2
    <2> QED BY <2>1, <2>3 DEF FormatNow
  <1>4. AudioFits(<<>>, h, 1)
    <2>1. ChunksOf(h, 1) \subseteq 1..1 - 1
      BY ChunksAre
    <2>2. ChunksOf(h, 1) = {}
      BY <2>1
    <2>3. \A k \in 1..1 - 1 : IsEvent(h[k])
      OBVIOUS
    <2>4. PICK s : s = SamplesAt(h, 1) /\ s \in Seq(Nat) /\ Len(s) = 0 /\ SamplesOf(h, 1) = Total(s)
      BY <2>3, SamplesAtIs
    <2>5. s \in Seq(Int) /\ \A k \in DOMAIN s : s[k] = 0
      BY <2>4
    <2>6. Total(s) = 0
      BY <2>5, TotalIs0
    <2> QED BY <2>2, <2>4, <2>6, NoAudioFits
  <1>5. AllDue(h) = <<>>
    <2>1. PICK s : s = [i \in 1..Len(h) |-> Due(h, i)]
      OBVIOUS
    <2>2. s \in Seq(Seq(Answers))
      BY <1>2, <2>1, DuesAre
    <2>3. Len(s) = 0 /\ s = <<>>
      BY <1>1, <2>1, <2>2
    <2>4. PICK f : FlattensTo(f, s)
      BY <2>2, Flattens
    <2>5. FlattenSeq(s) = s
      BY <2>3, <2>4 DEF FlattensTo
    <2> QED BY <2>1, <2>3, <2>5 DEF AllDue
  <1>6. Fits(h, STT, <<>>, 0, "reading", <<>>)
    <2>1. <<>> \in Seq(Answers)
      BY EmptySeq
    <2>2. Len(h) + 1 = 1
      BY <1>1
    <2> QED BY <1>2, <1>3, <1>4, <1>5, <2>1, <2>2 DEF Fits
  <1>7. \A c \in Conns : /\ heard[c] = h /\ format[c] = STT /\ audio[c] = <<>>
                         /\ pcm[c] = 0 /\ conn[c] = "reading" /\ said[c] = <<>>
    BY <1>1 DEF WyomingInit
  <1>8. /\ DOMAIN heard = Conns /\ DOMAIN format = Conns /\ DOMAIN audio = Conns
        /\ DOMAIN pcm = Conns /\ DOMAIN conn = Conns /\ DOMAIN said = Conns
    BY DEF WyomingInit
  <1> QED BY <1>6, <1>7, <1>8 DEF AllFit

-----------------------------------------------------------------------------
(* The steps: the connection c has the new values, the others keep theirs. *)

Others(c) ==
    /\ DOMAIN heard' = Conns /\ DOMAIN format' = Conns /\ DOMAIN audio' = Conns
    /\ DOMAIN pcm' = Conns /\ DOMAIN conn' = Conns /\ DOMAIN said' = Conns
    /\ \A d \in Conns \ {c} :
          /\ heard'[d] = heard[d] /\ format'[d] = format[d] /\ audio'[d] = audio[d]
          /\ pcm'[d] = pcm[d] /\ conn'[d] = conn[d] /\ said'[d] = said[d]

LEMMA FitStep ==
  ASSUME AllFit, NEW c \in Conns, Others(c),
         Fits(heard'[c], format'[c], audio'[c], pcm'[c], conn'[c], said'[c])
  PROVE  AllFit'
  BY DEF AllFit, Others

(* The values that an answer leaves. *)
LEMMA AnswerIs ==
  ASSUME AllFit, NEW c \in Conns, NEW x, Answer(c, x)
  PROVE  /\ DOMAIN conn' = Conns /\ DOMAIN said' = Conns
         /\ \A d \in Conns \ {c} : conn'[d] = conn[d] /\ said'[d] = said[d]
         /\ conn'[c] = "writing" /\ said'[c] = Append(said[c], x)
  BY DEF AllFit, Answer

LEMMA CallIs ==
  ASSUME AllFit, NEW c \in Conns, NEW calls, NEW place, Call(c, calls, place)
  PROVE  /\ DOMAIN conn' = Conns /\ said' = said
         /\ \A d \in Conns \ {c} : conn'[d] = conn[d]
         /\ conn'[c] = place
  BY DEF AllFit, Call

LEMMA HearIs ==
  ASSUME AllFit, NEW c \in Conns, NEW e \in Events[c], Hear(c, e)
  PROVE  /\ conn[c] = "reading" /\ IsEvent(e)
         /\ DOMAIN heard' = Conns /\ heard'[c] = Append(heard[c], e)
         /\ \A d \in Conns \ {c} : heard'[d] = heard[d]
  <1>1. conn[c] = "reading" /\ heard' = [heard EXCEPT ![c] = Append(heard[c], e)]
    BY DEF Hear
  <1>2. IsEvent(e)
    BY ConnsAssumption
  <1>3. DOMAIN heard = Conns
    BY DEF AllFit
  <1> QED BY <1>1, <1>2, <1>3

(* One answer is due: it is being written, or the task works on it, or the *)
(* connection has ended.                                                   *)
LEMMA OneFits ==
  ASSUME NEW g, IsHistory(g), NEW answers \in Seq(Answers), NEW x \in Answers,
         NEW d, d = <<x>>, AllDue(g) = answers \o d,
         NEW f, f = FormatNow(g), NEW a, AudioFits(a, g, Len(g) + 1), NEW n \in Nat
  PROVE  /\ Fits(g, f, a, n, "writing", Append(answers, x))
         /\ Fits(g, f, a, n, "closed", answers)
         /\ x = [kind |-> "transcript", samples |-> n] => Fits(g, f, a, n, "stt", answers)
         /\ x = [kind |-> "speech", samples |-> 0] => Fits(g, f, a, n, "tts", answers)
  <1>1. PICK s : s = Append(answers, x) /\ s \in Seq(Answers)
    BY AppendProperties
  <1>2. AllDue(g) = s
    BY <1>1, AppendIsConcat
  <1>3. Fits(g, f, a, n, "writing", s)
    BY <1>1, <1>2 DEF Fits
  <1>4. Fits(g, f, a, n, "closed", answers)
    BY <1>1, <1>2 DEF Fits
  <1>5. x = [kind |-> "transcript", samples |-> n] => Fits(g, f, a, n, "stt", answers)
    BY <1>1, <1>2 DEF Fits
  <1>6. x = [kind |-> "speech", samples |-> 0] => Fits(g, f, a, n, "tts", answers)
    BY <1>1, <1>2 DEF Fits
  <1> QED BY <1>1, <1>3, <1>4, <1>5, <1>6

LEMMA NoneFits ==
  ASSUME NEW g, IsHistory(g), NEW answers \in Seq(Answers), AllDue(g) = answers \o <<>>,
         NEW f, f = FormatNow(g), NEW a, AudioFits(a, g, Len(g) + 1), NEW n \in Nat
  PROVE  Fits(g, f, a, n, "reading", answers)
  <1>1. AllDue(g) = answers
    BY ConcatEmptySeq
  <1> QED BY <1>1 DEF Fits

(* What an event finds and what it adds. *)
LEMMA EventIs ==
  ASSUME AllFit, NEW c \in Conns, NEW e \in Events[c], Hear(c, e)
  PROVE  \E g, p : /\ OneEvent(heard[c], e, g, p) /\ g = heard'[c]
                   /\ format[c] = FormatNow(heard[c])
                   /\ AudioFits(audio[c], heard[c], p)
                   /\ pcm[c] \in Nat
                   /\ said[c] \in Seq(Answers) /\ AllDue(g) = said[c] \o Due(g, p)
  <1>1. PICK h, f, a, n, s : /\ h = heard[c] /\ f = format[c] /\ a = audio[c] /\ n = pcm[c] /\ s = said[c]
                             /\ Fits(h, f, a, n, "reading", s)
    BY HearIs DEF AllFit
  <1>2. IsEvent(e) /\ heard'[c] = Append(h, e)
    BY <1>1, HearIs
  <1>3. IsHistory(h)
    BY <1>1 DEF Fits
  <1>4. PICK g, p : OneEvent(h, e, g, p)
    BY <1>2, <1>3, EventAdded
  <1>5. g = heard'[c] /\ p = Len(h) + 1
    BY <1>2, <1>4 DEF OneEvent
  <1>6. /\ f = FormatNow(h) /\ AudioFits(a, h, p) /\ n \in Nat
        /\ s \in Seq(Answers) /\ AllDue(h) = s
    BY <1>1, <1>5 DEF Fits
  <1>7. AllDue(g) = s \o Due(g, p)
    <2>1. AllDue(g) = AllDue(h) \o Due(g, p)
      BY <1>4, DueAppends
    <2> QED BY <1>6, <2>1
  <1> QED BY <1>1, <1>4, <1>5, <1>6, <1>7

LEMMA DescribeFits ==
  ASSUME AllFit, NEW c \in Conns, NEW e \in Events[c], Describe(c, e)
  PROVE  AllFit'
  <1>1. e.kind = "describe" /\ Hear(c, e)
    BY DEF Describe
  <1>2. PICK x \in Answers : /\ x = [kind |-> "info", samples |-> 0]
                             /\ Answer(c, x)
    BY AnswersAre DEF Describe
  <1>3. PICK g, p : /\ OneEvent(heard[c], e, g, p) /\ g = heard'[c]
                    /\ format[c] = FormatNow(heard[c])
                    /\ AudioFits(audio[c], heard[c], p)
                    /\ pcm[c] \in Nat
                    /\ said[c] \in Seq(Answers) /\ AllDue(g) = said[c] \o Due(g, p)
    BY <1>1, EventIs
  <1>4. PICK d : d = <<x>> /\ Due(g, p) = d
    <2>1. g[p] = e
      BY <1>3 DEF OneEvent
    <2> QED BY <1>1, <1>2, <2>1 DEF Due
  <1>5. format[c] = FormatNow(g) /\ AudioFits(audio[c], g, p + 1)
    <2>1. format[c] = FormatNow(g)
      BY <1>1, <1>3, FormatNext
    <2>2. AudioFits(audio[c], g, p + 1)
      BY <1>1, <1>3, AudioNext
    <2> QED BY <2>1, <2>2
  <1>6. Fits(g, format[c], audio[c], pcm[c], "writing", Append(said[c], x))
    <2>1. IsHistory(g) /\ Len(g) = p
      BY <1>3 DEF OneEvent
    <2> QED BY <1>3, <1>4, <1>5, <2>1, OneFits
  <1>7. format' = format /\ audio' = audio /\ pcm' = pcm
    BY DEF Describe
  <1>8. Fits(heard'[c], format'[c], audio'[c], pcm'[c], conn'[c], said'[c])
    BY <1>2, <1>3, <1>6, <1>7, AnswerIs
  <1>9. Others(c)
    <2>1. /\ DOMAIN conn' = Conns /\ DOMAIN said' = Conns
          /\ \A k \in Conns \ {c} : conn'[k] = conn[k] /\ said'[k] = said[k]
      BY <1>2, AnswerIs
    <2>2. DOMAIN heard' = Conns /\ \A k \in Conns \ {c} : heard'[k] = heard[k]
      BY <1>1, HearIs
    <2> QED BY <1>7, <2>1, <2>2 DEF AllFit, Others
  <1> QED BY <1>8, <1>9, FitStep

LEMMA SilentFits ==
  ASSUME AllFit, NEW c \in Conns, NEW e \in Events[c],
         Ignore(c, e) \/ AudioStart(c, e) \/ AudioChunk(c, e)
  PROVE  AllFit'
  <1>1. e.kind \in {"transcribe", "audio-start", "audio-chunk"} /\ Hear(c, e)
    BY DEF Ignore, AudioStart, AudioChunk
  <1>2. PICK g, p : /\ OneEvent(heard[c], e, g, p) /\ g = heard'[c]
                    /\ format[c] = FormatNow(heard[c])
                    /\ AudioFits(audio[c], heard[c], p)
                    /\ pcm[c] \in Nat
                    /\ said[c] \in Seq(Answers) /\ AllDue(g) = said[c] \o Due(g, p)
    BY <1>1, EventIs
  <1>3. Due(g, p) = <<>>
    <2>1. g[p] = e
      BY <1>2 DEF OneEvent
    <2> QED BY <1>1, <2>1 DEF Due
  <1>4. /\ e.kind = "audio-start" => FormatNow(g) = format_of(e.header, STT)
        /\ e.kind # "audio-start" => FormatNow(g) = format[c]
    BY <1>2, FormatNext
  <1>5. /\ e.kind = "audio-start" => AudioFits(<<>>, g, p + 1)
        /\ e.kind = "audio-chunk" =>
               AudioFits(Extend(audio[c], format_of(e.header, format[c]), e.bytes), g, p + 1)
        /\ e.kind = "transcribe" => AudioFits(audio[c], g, p + 1)
    BY <1>2, AudioNext
  <1>6. /\ conn' = conn /\ pcm' = pcm /\ said' = said /\ conn[c] = "reading"
        /\ DOMAIN format' = Conns /\ DOMAIN audio' = Conns
        /\ \A k \in Conns \ {c} : format'[k] = format[k] /\ audio'[k] = audio[k]
    <2>1. DOMAIN format = Conns /\ DOMAIN audio = Conns /\ conn[c] = "reading"
      BY <1>1, HearIs DEF AllFit
    <2>2. CASE Ignore(c, e)
      BY <2>1, <2>2 DEF Ignore
    <2>3. CASE AudioStart(c, e)
      BY <2>1, <2>3 DEF AudioStart
    <2>4. CASE AudioChunk(c, e)
      BY <2>1, <2>4 DEF AudioChunk
    <2> QED BY <2>2, <2>3, <2>4
  <1>7. format'[c] = FormatNow(g) /\ AudioFits(audio'[c], g, p + 1)
    <2>1. CASE Ignore(c, e)
      BY <1>4, <1>5, <2>1 DEF Ignore
    <2>2. CASE AudioStart(c, e)
      BY <1>4, <1>5, <2>2 DEF AudioStart, AllFit
    <2>3. CASE AudioChunk(c, e)
      BY <1>4, <1>5, <2>3 DEF AudioChunk, AllFit
    <2> QED BY <2>1, <2>2, <2>3
  <1>8. Fits(g, format'[c], audio'[c], pcm[c], "reading", said[c])
    <2>1. IsHistory(g) /\ Len(g) = p
      BY <1>2 DEF OneEvent
    <2> QED BY <1>2, <1>3, <1>7, <2>1, NoneFits
  <1>9. Fits(heard'[c], format'[c], audio'[c], pcm'[c], conn'[c], said'[c])
    BY <1>2, <1>6, <1>8
  <1>10. Others(c)
    <2>1. DOMAIN heard' = Conns /\ \A k \in Conns \ {c} : heard'[k] = heard[k]
      BY <1>1, HearIs
    <2> QED BY <1>6, <2>1 DEF AllFit, Others
  <1> QED BY <1>9, <1>10, FitStep

LEMMA AudioStopFits ==
  ASSUME AllFit, NEW c \in Conns, NEW e \in Events[c], AudioStop(c, e)
  PROVE  AllFit'
  <1>1. e.kind = "audio-stop" /\ Hear(c, e)
    BY DEF AudioStop
  <1>2. PICK g, p : /\ OneEvent(heard[c], e, g, p) /\ g = heard'[c]
                    /\ format[c] = FormatNow(heard[c])
                    /\ AudioFits(audio[c], heard[c], p)
                    /\ pcm[c] \in Nat
                    /\ said[c] \in Seq(Answers) /\ AllDue(g) = said[c] \o Due(g, p)
    BY <1>1, EventIs
  <1>3. PICK n \in Nat : n = Pcm(audio[c]) /\ SamplesOf(g, p) = n
    BY <1>2, AudioNext
  <1>4. PICK x \in Answers : x = [kind |-> "transcript", samples |-> n]
    BY AnswersAre
  <1>5. PICK d : d = <<x>> /\ Due(g, p) = d
    <2>1. g[p] = e
      BY <1>2 DEF OneEvent
    <2> QED BY <1>1, <1>3, <1>4, <2>1 DEF Due
  <1>6. format[c] = FormatNow(g) /\ AudioFits(<<>>, g, p + 1)
    <2>1. format[c] = FormatNow(g)
      BY <1>1, <1>2, FormatNext
    <2>2. AudioFits(<<>>, g, p + 1)
      BY <1>1, <1>2, AudioNext
    <2> QED BY <2>1, <2>2
  <1>7. /\ Fits(g, format[c], <<>>, n, "writing", Append(said[c], x))
        /\ Fits(g, format[c], <<>>, n, "closed", said[c])
        /\ Fits(g, format[c], <<>>, n, "stt", said[c])
    <2>1. IsHistory(g) /\ Len(g) = p
      BY <1>2 DEF OneEvent
    <2> QED BY <1>2, <1>4, <1>5, <1>6, <2>1, OneFits
  <1>8. /\ format' = format /\ audio'[c] = <<>> /\ pcm'[c] = n
        /\ DOMAIN audio' = Conns /\ DOMAIN pcm' = Conns
        /\ \A k \in Conns \ {c} : audio'[k] = audio[k] /\ pcm'[k] = pcm[k]
    <2>1. /\ audio' = [audio EXCEPT ![c] = <<>>]
          /\ pcm' = [pcm EXCEPT ![c] = Pcm(audio[c])] /\ format' = format
      BY DEF AudioStop
    <2>2. DOMAIN audio = Conns /\ DOMAIN pcm = Conns
      BY DEF AllFit
    <2> QED BY <1>3, <2>1, <2>2
  <1>9. /\ DOMAIN conn' = Conns /\ DOMAIN said' = Conns
        /\ \A k \in Conns \ {c} : conn'[k] = conn[k] /\ said'[k] = said[k]
        /\ \/ conn'[c] = "writing" /\ said'[c] = Append(said[c], x)
           \/ conn'[c] \in {"stt", "closed"} /\ said'[c] = said[c]
    <2>1. DOMAIN conn = Conns /\ DOMAIN said = Conns
      BY DEF AllFit
    <2>2. CASE n = 0 /\ Answer(c, x)
      BY <2>2, AnswerIs
    <2>3. CASE Call(c, SttCalls, "stt")
      BY <2>1, <2>3, CallIs
    <2>4. CASE conn' = [conn EXCEPT ![c] = "closed"] /\ said' = said
      BY <2>1, <2>4
    <2>5. \/ n = 0 /\ Answer(c, [kind |-> "transcript", samples |-> 0])
          \/ Call(c, SttCalls, "stt")
          \/ conn' = [conn EXCEPT ![c] = "closed"] /\ said' = said
      BY <1>3 DEF AudioStop
    <2>6. n = 0 => x = [kind |-> "transcript", samples |-> 0]
      BY <1>4
    <2> QED BY <2>2, <2>3, <2>4, <2>5, <2>6
  <1>10. Fits(heard'[c], format'[c], audio'[c], pcm'[c], conn'[c], said'[c])
    BY <1>2, <1>7, <1>8, <1>9
  <1>11. Others(c)
    <2>1. DOMAIN heard' = Conns /\ \A k \in Conns \ {c} : heard'[k] = heard[k]
      BY <1>1, HearIs
    <2> QED BY <1>8, <1>9, <2>1 DEF AllFit, Others
  <1> QED BY <1>10, <1>11, FitStep

LEMMA SynthesizeFits ==
  ASSUME AllFit, NEW c \in Conns, NEW e \in Events[c], Synthesize(c, e)
  PROVE  AllFit'
  <1>1. e.kind = "synthesize" /\ Hear(c, e)
    BY DEF Synthesize
  <1>2. PICK g, p : /\ OneEvent(heard[c], e, g, p) /\ g = heard'[c]
                    /\ format[c] = FormatNow(heard[c])
                    /\ AudioFits(audio[c], heard[c], p)
                    /\ pcm[c] \in Nat
                    /\ said[c] \in Seq(Answers) /\ AllDue(g) = said[c] \o Due(g, p)
    BY <1>1, EventIs
  <1>3. PICK x \in Answers : x = [kind |-> IF e.text THEN "speech" ELSE "silence", samples |-> 0]
    <2>1. PICK i1, i2 \in Answers : /\ i1 = [kind |-> "speech", samples |-> 0]
                                    /\ i2 = [kind |-> "silence", samples |-> 0]
      BY AnswersAre
    <2> QED BY <2>1
  <1>4. PICK d : d = <<x>> /\ Due(g, p) = d
    <2>1. g[p] = e
      BY <1>2 DEF OneEvent
    <2> QED BY <1>1, <1>3, <2>1 DEF Due
  <1>5. format[c] = FormatNow(g) /\ AudioFits(audio[c], g, p + 1)
    <2>1. format[c] = FormatNow(g)
      BY <1>1, <1>2, FormatNext
    <2>2. AudioFits(audio[c], g, p + 1)
      BY <1>1, <1>2, AudioNext
    <2> QED BY <2>1, <2>2
  <1>6. /\ Fits(g, format[c], audio[c], pcm[c], "writing", Append(said[c], x))
        /\ e.text => Fits(g, format[c], audio[c], pcm[c], "tts", said[c])
    <2>1. IsHistory(g) /\ Len(g) = p
      BY <1>2 DEF OneEvent
    <2>2. e.text => x = [kind |-> "speech", samples |-> 0]
      BY <1>3
    <2> QED BY <1>2, <1>4, <1>5, <2>1, <2>2, OneFits
  <1>7. format' = format /\ audio' = audio /\ pcm' = pcm
    BY DEF Synthesize
  <1>8. /\ DOMAIN conn' = Conns /\ DOMAIN said' = Conns
        /\ \A k \in Conns \ {c} : conn'[k] = conn[k] /\ said'[k] = said[k]
        /\ \/ conn'[c] = "writing" /\ said'[c] = Append(said[c], x)
           \/ e.text /\ conn'[c] = "tts" /\ said'[c] = said[c]
    <2>1. DOMAIN conn = Conns /\ DOMAIN said = Conns
      BY DEF AllFit
    <2>2. CASE ~e.text /\ Answer(c, x)
      BY <2>2, AnswerIs
    <2>3. CASE e.text /\ Call(c, TtsCalls, "tts")
      BY <2>1, <2>3, CallIs
    <2>4. \/ ~e.text /\ Answer(c, [kind |-> "silence", samples |-> 0])
          \/ e.text /\ Call(c, TtsCalls, "tts")
      BY DEF Synthesize
    <2>5. ~e.text => x = [kind |-> "silence", samples |-> 0]
      BY <1>3
    <2> QED BY <2>2, <2>3, <2>4, <2>5
  <1>9. Fits(heard'[c], format'[c], audio'[c], pcm'[c], conn'[c], said'[c])
    BY <1>2, <1>6, <1>7, <1>8
  <1>10. Others(c)
    <2>1. DOMAIN heard' = Conns /\ \A k \in Conns \ {c} : heard'[k] = heard[k]
      BY <1>1, HearIs
    <2> QED BY <1>7, <1>8, <2>1 DEF AllFit, Others
  <1> QED BY <1>9, <1>10, FitStep

(* The call of a connection is over: the answer is written, or not. *)
LEMMA TaskEnds ==
  ASSUME AllFit, NEW c \in Conns, conn[c] \in {"stt", "tts"},
         NEW x, x = IF conn[c] = "stt" THEN [kind |-> "transcript", samples |-> pcm[c]]
                    ELSE [kind |-> "speech", samples |-> 0],
         Answer(c, x) \/ Close(c), UNCHANGED <<heard, format, audio, pcm>>
  PROVE  AllFit'
  <1>1. PICK h, f, a, n, place, s :
            /\ h = heard[c] /\ f = format[c] /\ a = audio[c] /\ n = pcm[c]
            /\ place = conn[c] /\ s = said[c]
            /\ Fits(h, f, a, n, place, s)
    BY DEF AllFit
  <1>2. n \in Nat /\ s \in Seq(Answers)
    BY <1>1 DEF Fits
  <1>3. x \in Answers
    <2>1. PICK i1, i2 \in Answers : /\ i1 = [kind |-> "transcript", samples |-> n]
                                    /\ i2 = [kind |-> "speech", samples |-> 0]
      BY <1>2, AnswersAre
    <2> QED BY <1>1, <2>1
  <1>4. AllDue(h) = Append(s, x)
    BY <1>1 DEF Fits
  <1>5. PICK t : t = Append(s, x) /\ t \in Seq(Answers)
    BY <1>2, <1>3, AppendProperties
  <1>6. Fits(h, f, a, n, "writing", t)
    BY <1>1, <1>4, <1>5 DEF Fits
  <1>7. Fits(h, f, a, n, "closed", s)
    BY <1>1, <1>3, <1>4 DEF Fits
  <1>8. /\ DOMAIN conn' = Conns /\ DOMAIN said' = Conns
        /\ \A k \in Conns \ {c} : conn'[k] = conn[k] /\ said'[k] = said[k]
        /\ \/ conn'[c] = "writing" /\ said'[c] = Append(said[c], x)
           \/ conn'[c] = "closed" /\ said'[c] = said[c]
    <2>1. CASE Answer(c, x)
      BY <2>1, AnswerIs
    <2>2. CASE Close(c)
      BY <2>2 DEF AllFit, Close
    <2> QED BY <2>1, <2>2
  <1>9. Fits(heard'[c], format'[c], audio'[c], pcm'[c], conn'[c], said'[c])
    BY <1>1, <1>5, <1>6, <1>7, <1>8
  <1>10. Others(c)
    BY <1>8 DEF AllFit, Others
  <1> QED BY <1>9, <1>10, FitStep

LEMMA FitNext == AllFit /\ [WyomingNext]_allVars => AllFit'
  <1> SUFFICES ASSUME AllFit, [WyomingNext]_allVars PROVE AllFit'
    OBVIOUS
  <1>1. CASE UNCHANGED <<heard, format, audio, pcm, conn, said>>
    BY <1>1 DEF AllFit
  <1>2. CASE UNCHANGED allVars \/ Engines
    <2>1. UNCHANGED <<heard, format, audio, pcm, conn, said>>
      BY <1>2 DEF allVars, connVars, Engines
    <2> QED BY <1>1, <2>1
  <1>3. ASSUME NEW c \in Conns, NEW e \in Events[c], Handle(c, e) PROVE AllFit'
    <2>1. CASE Describe(c, e)
      BY <2>1, DescribeFits
    <2>2. CASE Ignore(c, e) \/ AudioStart(c, e) \/ AudioChunk(c, e)
      BY <2>2, SilentFits
    <2>3. CASE AudioStop(c, e)
      BY <2>3, AudioStopFits
    <2>4. CASE Synthesize(c, e)
      BY <2>4, SynthesizeFits
    <2> QED BY <1>3, <2>1, <2>2, <2>3, <2>4 DEF Handle
  <1>4. ASSUME NEW c \in Conns, Transcribed(c) \/ Spoken(c) PROVE AllFit'
    <2>1. PICK x : x = IF conn[c] = "stt" THEN [kind |-> "transcript", samples |-> pcm[c]]
                       ELSE [kind |-> "speech", samples |-> 0]
      OBVIOUS
    <2>2. UNCHANGED <<heard, format, audio, pcm>>
      BY <1>4 DEF Transcribed, Spoken
    <2>3. conn[c] \in {"stt", "tts"} /\ (Answer(c, x) \/ Close(c))
      <3>1. CASE Transcribed(c)
        BY <2>1, <3>1 DEF Transcribed
      <3>2. CASE Spoken(c)
        BY <2>1, <3>2 DEF Spoken
      <3> QED BY <1>4, <3>1, <3>2
    <2> QED BY <2>1, <2>2, <2>3, TaskEnds
  <1>5. ASSUME NEW c \in Conns,
               Written(c) \/ WriteFails(c) \/ EndOfStream(c) \/ Malformed(c)
        PROVE  AllFit'
    <2>1. PICK p \in {"reading", "closed"} : conn' = [conn EXCEPT ![c] = p]
      BY <1>5 DEF Written, WriteFails, EndOfStream, Malformed, Close
    <2>2. /\ conn[c] \in {"reading", "writing"} /\ said' = said
          /\ UNCHANGED <<heard, format, audio, pcm>>
      BY <1>5 DEF Written, WriteFails, EndOfStream, Malformed, Close
    <2>3. Fits(heard[c], format[c], audio[c], pcm[c], conn[c], said[c])
      BY DEF AllFit
    <2>4. Fits(heard[c], format[c], audio[c], pcm[c], p, said[c])
      BY <2>2, <2>3 DEF Fits
    <2>5. DOMAIN conn' = Conns /\ conn'[c] = p /\ \A k \in Conns \ {c} : conn'[k] = conn[k]
      BY <2>1 DEF AllFit
    <2>6. Others(c)
      BY <2>2, <2>5 DEF AllFit, Others
    <2>7. Fits(heard'[c], format'[c], audio'[c], pcm'[c], conn'[c], said'[c])
      BY <2>2, <2>4, <2>5
    <2> QED BY <2>6, <2>7, FitStep
  <1>6. ASSUME NEW c \in Conns, Leave(c) PROVE AllFit'
    <2>1. UNCHANGED <<heard, format, audio, pcm, conn, said>>
      BY <1>6 DEF Leave
    <2> QED BY <1>1, <2>1
  <1> QED BY <1>2, <1>3, <1>4, <1>5, <1>6 DEF WyomingNext

(* A client gets one answer for each event that calls for one, in order,   *)
(* and each transcript is about all the audio of its own request and no    *)
(* other: whatever the clients send in whatever pieces, and however their  *)
(* requests meet at the engines (serve in src/src/wyoming/mod.rs).         *)
THEOREM AnsweredInOrder == WyomingSpec => []AnswersInOrder
  <1>1. WyomingSpec => []AllFit
    BY FitInit, FitNext, PTL DEF WyomingSpec
  <1> QED BY <1>1, FitAnswers, PTL
=============================================================================
