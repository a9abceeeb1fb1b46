------------------------ MODULE DatagramBufferProofs --------------------------
(***************************************************************************)
(* The receive queues: the ring holds what a sequence would, the budget is   *)
(* exact, no receiver is forgotten, and the promise of DatagramFifo is kept, *)
(* for every number of queues and every limit.                               *)
(***************************************************************************)
EXTENDS DatagramBuffer, FiniteSetTheorems, TLAPS

--------------------------------------------------------------------------------
(* The ring. *)

Slots == Entries \union {Free}
Records == [items: Seq(Slots), head: Nat, count: Nat, bytes: Nat, ringCharge: Nat, limit: Nat,
            burst: BOOLEAN, closed: BOOLEAN]

\* The bytes of a queue are the charges of its entries: s[i] is what all but the first i weigh.
Weighs(Q) ==
  \E s \in [0 .. Q.count -> Nat] :
    /\ s[0] = Q.bytes /\ s[Q.count] = 0
    /\ \A i \in 0 .. Q.count - 1 : s[i] = s[i + 1] + Size[At(Q, i).data]

RingOK(Q) ==
  /\ Q \in Records
  /\ Q.count <= Len(Q.items) /\ Q.head <= Len(Q.items) /\ (Q.items # <<>> => Q.head < Len(Q.items))
  /\ Q.count <= Q.limit /\ Q.limit <= BurstPackets /\ Q.bytes <= BurstBytes
  /\ \A i \in 0 .. Q.count - 1 : At(Q, i) \in Entries
  /\ Weighs(Q)

\* The slot of the i-th entry of a ring of n slots, the first of which is h.
Place(h, n, i) == IF h + i < n THEN h + i + 1 ELSE h + i + 1 - n

\* An index goes around the ring at most once.
LEMMA Wrap ==
  ASSUME NEW n \in Nat, NEW h \in Nat, h < n, NEW i \in Nat, i <= n
  PROVE  ((h + i) % n) + 1 = Place(h, n, i)
<1>1. n \in Nat \ {0}
  OBVIOUS
<1>2. PICK x \in Nat : x = h + i /\ x < n + n
  OBVIOUS
<1>3. CASE x < n
  BY <1>1, <1>2, <1>3 DEF Place
<1>4. CASE x >= n
  BY <1>1, <1>2, <1>4 DEF Place
<1> QED BY <1>2, <1>3, <1>4

\* Different entries are in different slots.
LEMMA Apart ==
  ASSUME NEW n \in Nat, NEW h \in Nat, h < n, NEW i \in Nat, NEW k \in Nat, i < k, k < n
  PROVE  Place(h, n, i) # Place(h, n, k) /\ Place(h, n, i) \in 1 .. n /\ Place(h, n, k) \in 1 .. n
BY DEF Place

\* The entries are a sequence.
LEMMA ContentsSeq ==
  ASSUME NEW Q, Q.count \in Nat, \A i \in 0 .. Q.count - 1 : At(Q, i) \in Entries
  PROVE  Contents(Q) \in Seq(Entries) /\ Len(Contents(Q)) = Q.count
         /\ \A i \in 1 .. Q.count : Contents(Q)[i] = At(Q, i - 1)
<1>1. \A i \in 1 .. Q.count : At(Q, i - 1) \in Entries
  OBVIOUS
<1> QED BY <1>1 DEF Contents

\* A sequence without its head.
LEMMA IsTail ==
  ASSUME NEW S, NEW c \in Seq(S), Len(c) > 0, NEW d \in Seq(S), Len(d) = Len(c) - 1,
         \A i \in 1 .. Len(d) : d[i] = c[i + 1]
  PROVE  d = Tail(c)
OBVIOUS

\* A sequence with one element more.
LEMMA IsAppend ==
  ASSUME NEW S, NEW c \in Seq(S), NEW e \in S, NEW d \in Seq(S), Len(d) = Len(c) + 1,
         \A i \in 1 .. Len(c) : d[i] = c[i], d[Len(c) + 1] = e
  PROVE  d = Append(c, e)
OBVIOUS

\* A queue without its oldest entry.
LEMMA Shifted ==
  ASSUME NEW Q, RingOK(Q), NEW R, Q.count > 0, R.count = Q.count - 1,
         R.bytes = Q.bytes - Size[At(Q, 0).data],
         \A i \in 0 .. R.count - 1 : At(R, i) = At(Q, i + 1)
  PROVE  /\ Contents(R) = Tail(Contents(Q)) /\ Weighs(R) /\ R.bytes \in Nat
         /\ \A i \in 0 .. R.count - 1 : At(R, i) \in Entries
<1>1. Q.count \in Nat /\ Q.bytes \in Nat /\ R.count \in Nat /\ Size[At(Q, 0).data] \in Nat
  <2>1. Q.count \in Nat /\ Q.bytes \in Nat /\ At(Q, 0) \in Entries
    BY DEF RingOK, Records
  <2> QED BY <2>1, BufferAssumption DEF Entries
<1>6. \A i \in 0 .. R.count - 1 : At(R, i) \in Entries
  BY <1>1 DEF RingOK
<1>2. Contents(R) = Tail(Contents(Q))
  <2>1. Len(Contents(Q)) = Q.count /\ Contents(Q) \in Seq(Entries)
        /\ \A i \in 1 .. Q.count : Contents(Q)[i] = At(Q, i - 1)
    BY <1>1, ContentsSeq, Zenon DEF RingOK
  <2>2. Len(Contents(R)) = R.count /\ Contents(R) \in Seq(Entries)
        /\ \A i \in 1 .. R.count : Contents(R)[i] = At(R, i - 1)
    BY <1>1, <1>6, ContentsSeq, Zenon
  <2>3. ASSUME NEW i \in 1 .. R.count PROVE Contents(R)[i] = Contents(Q)[i + 1]
    <3>1. i - 1 \in 0 .. R.count - 1 /\ i + 1 \in 1 .. Q.count /\ (i - 1) + 1 = (i + 1) - 1
      BY <1>1
    <3> QED BY <2>1, <2>2, <3>1, Zenon
  <2> QED BY <1>1, <2>1, <2>2, <2>3, IsTail, Zenon
<1>3. PICK s \in [0 .. Q.count -> Nat] :
        /\ s[0] = Q.bytes /\ s[Q.count] = 0
        /\ \A i \in 0 .. Q.count - 1 : s[i] = s[i + 1] + Size[At(Q, i).data]
  BY Zenon DEF RingOK, Weighs
<1>4. R.bytes = s[1] /\ s[1] \in Nat
  <2>1. 0 \in 0 .. Q.count - 1 /\ 1 \in 0 .. Q.count /\ 0 + 1 = 1
    BY <1>1
  <2>2. s[1] \in Nat /\ s[0] = s[1] + Size[At(Q, 0).data]
    BY <1>3, <2>1, Zenon
  <2>3. PICK z \in Nat : z = Size[At(Q, 0).data]
    BY <1>1, Zenon
  <2>4. Q.bytes = s[1] + z /\ R.bytes = Q.bytes - z
    BY <1>3, <2>2, <2>3, Zenon
  <2> QED BY <2>2, <2>3, <2>4
<1>5. Weighs(R)
  <2>1. PICK t : t = [i \in 0 .. R.count |-> s[i + 1]]
    BY Zenon
  <2>2. t \in [0 .. R.count -> Nat]
    BY <1>1, <2>1
  <2>3. t[0] = R.bytes /\ t[R.count] = 0
    BY <1>1, <1>3, <1>4, <2>1
  <2>4. ASSUME NEW i \in 0 .. R.count - 1 PROVE t[i] = t[i + 1] + Size[At(R, i).data]
    <3>1. i \in 0 .. R.count /\ i + 1 \in 0 .. R.count /\ i + 1 \in 0 .. Q.count - 1
      BY <1>1, SMTT(30)
    <3>2. t[i] = s[i + 1] /\ t[i + 1] = s[i + 1 + 1] /\ At(R, i) = At(Q, i + 1)
      BY <2>1, <3>1, Zenon
    <3>3. s[i + 1] = s[i + 1 + 1] + Size[At(Q, i + 1).data]
      BY <1>3, <3>1, Zenon
    <3> QED BY <3>2, <3>3, Zenon
  <2> QED BY <2>2, <2>3, <2>4, Zenon DEF Weighs
<1> QED BY <1>2, <1>4, <1>5, <1>6, Zenon

\* A queue with one entry more.
LEMMA Appended ==
  ASSUME NEW Q, RingOK(Q), NEW R, NEW e \in Entries, R.count = Q.count + 1,
         R.bytes = Q.bytes + Size[e.data],
         \A i \in 0 .. Q.count - 1 : At(R, i) = At(Q, i), At(R, Q.count) = e
  PROVE  /\ Contents(R) = Append(Contents(Q), e) /\ Weighs(R) /\ R.bytes \in Nat
         /\ \A i \in 0 .. R.count - 1 : At(R, i) \in Entries
<1>1. Q.count \in Nat /\ Q.bytes \in Nat /\ R.count \in Nat /\ Size[e.data] \in Nat
  <2>1. Q.count \in Nat /\ Q.bytes \in Nat
    BY Zenon DEF RingOK, Records
  <2> QED BY <2>1, BufferAssumption DEF Entries
<1>6. ASSUME NEW i \in 0 .. R.count - 1 PROVE At(R, i) \in Entries
  <2>1. i = Q.count \/ i \in 0 .. Q.count - 1
    BY <1>1
  <2> QED BY <2>1, Zenon DEF RingOK
<1>2. Contents(R) = Append(Contents(Q), e)
  <2>1. Len(Contents(Q)) = Q.count /\ Contents(Q) \in Seq(Entries)
        /\ \A i \in 1 .. Q.count : Contents(Q)[i] = At(Q, i - 1)
    BY <1>1, ContentsSeq, Zenon DEF RingOK
  <2>2. Len(Contents(R)) = R.count /\ Contents(R) \in Seq(Entries)
        /\ \A i \in 1 .. R.count : Contents(R)[i] = At(R, i - 1)
    BY <1>1, <1>6, ContentsSeq, Zenon
  <2>3. ASSUME NEW i \in 1 .. Q.count PROVE Contents(R)[i] = Contents(Q)[i]
    <3>1. i - 1 \in 0 .. Q.count - 1 /\ i \in 1 .. R.count
      BY <1>1
    <3> QED BY <2>1, <2>2, <3>1, Zenon
  <2>4. Contents(R)[Q.count + 1] = e
    <3>1. Q.count + 1 \in 1 .. R.count /\ (Q.count + 1) - 1 = Q.count
      BY <1>1
    <3> QED BY <2>2, <3>1, Zenon
  <2> QED BY <1>1, <2>1, <2>2, <2>3, <2>4, IsAppend, Zenon
<1>3. PICK s \in [0 .. Q.count -> Nat] :
        /\ s[0] = Q.bytes /\ s[Q.count] = 0
        /\ \A i \in 0 .. Q.count - 1 : s[i] = s[i + 1] + Size[At(Q, i).data]
  BY Zenon DEF RingOK, Weighs
<1>4. PICK c \in Nat : c = Size[e.data]
  BY <1>1, Zenon
<1>5. Weighs(R)
  <2>1. PICK t : t = [i \in 0 .. R.count |-> IF i <= Q.count THEN s[i] + c ELSE 0]
    BY Zenon
  <2>2. t \in [0 .. R.count -> Nat]
    BY <1>1, <1>4, <2>1
  <2>3. t[0] = R.bytes /\ t[R.count] = 0
    BY <1>1, <1>3, <1>4, <2>1
  <2>4. ASSUME NEW i \in 0 .. R.count - 1 PROVE t[i] = t[i + 1] + Size[At(R, i).data]
    <3>1. CASE i = Q.count
      <4>1. Q.count \in 0 .. R.count /\ Q.count + 1 \in 0 .. R.count /\ Q.count <= Q.count /\ ~(Q.count + 1 <= Q.count)
        BY <1>1
      <4>2. t[Q.count] = s[Q.count] + c /\ t[Q.count + 1] = 0
        BY <2>1, <4>1, Zenon
      <4> QED BY <1>3, <1>4, <3>1, <4>2, Zenon
    <3>2. CASE i # Q.count
      <4>1. /\ i \in 0 .. Q.count - 1 /\ i \in 0 .. R.count /\ i + 1 \in 0 .. R.count /\ i + 1 \in 0 .. Q.count
            /\ i <= Q.count /\ i + 1 <= Q.count
        BY <1>1, <3>2, SMTT(30)
      <4>2. t[i] = s[i] + c /\ t[i + 1] = s[i + 1] + c
        BY <2>1, <4>1, Zenon
      <4>3. s[i + 1] \in Nat
        BY <4>1, Zenon
      <4>4. At(R, i) = At(Q, i) /\ At(Q, i) \in Entries
        BY <4>1, Zenon DEF RingOK
      <4>5. Size[At(Q, i).data] \in Nat
        BY <4>4, BufferAssumption, Zenon DEF Entries
      <4>6. s[i] = s[i + 1] + Size[At(Q, i).data]
        BY <1>3, <4>1, Zenon
      <4> QED BY <1>4, <4>2, <4>3, <4>4, <4>5, <4>6
    <3> QED BY <3>1, <3>2, Zenon
  <2> QED BY <2>2, <2>3, <2>4, Zenon DEF Weighs
<1>7. R.bytes \in Nat
  BY <1>1
<1> QED BY <1>2, <1>5, <1>6, <1>7, Zenon

\* A queue with the same entries in another ring.
LEMMA Moved ==
  ASSUME NEW Q, RingOK(Q), NEW R, R.count = Q.count, R.bytes = Q.bytes,
         \A i \in 0 .. Q.count - 1 : At(R, i) = At(Q, i)
  PROVE  /\ Contents(R) = Contents(Q) /\ Weighs(R)
         /\ \A i \in 0 .. R.count - 1 : At(R, i) \in Entries
<1>1. Q.count \in Nat
  BY Zenon DEF RingOK, Records
<1>2. Contents(R) = Contents(Q)
  <2>1. ASSUME NEW i \in 1 .. Q.count PROVE At(R, i - 1) = At(Q, i - 1)
    BY <1>1
  <2> QED BY <2>1, Zenon DEF Contents
<1>3. Weighs(R)
  <2>1. PICK s \in [0 .. Q.count -> Nat] :
          /\ s[0] = Q.bytes /\ s[Q.count] = 0
          /\ \A i \in 0 .. Q.count - 1 : s[i] = s[i + 1] + Size[At(Q, i).data]
    BY Zenon DEF RingOK, Weighs
  <2>2. \A i \in 0 .. Q.count - 1 : s[i] = s[i + 1] + Size[At(R, i).data]
    BY <2>1, Zenon
  <2>3. /\ s \in [0 .. R.count -> Nat] /\ s[0] = R.bytes /\ s[R.count] = 0
        /\ \A i \in 0 .. R.count - 1 : s[i] = s[i + 1] + Size[At(R, i).data]
    BY <2>1, <2>2, Zenon
  <2> QED BY <2>3, Zenon DEF Weighs
<1> QED BY <1>2, <1>3, Zenon DEF RingOK

\* Where things are in a ring.
LEMMA RingFacts ==
  ASSUME NEW Q, RingOK(Q)
  PROVE  \E n \in Nat :
           /\ n = Len(Q.items) /\ Q.items \in [1 .. n -> Slots] /\ Q.items \in Seq(Slots)
           /\ Q.head \in Nat /\ Q.count \in 0 .. n /\ (n > 0 => Q.head < n)
           /\ \A i \in 0 .. n - 1 : At(Q, i) = Q.items[Place(Q.head, n, i)]
<1>1. Q.items \in Seq(Slots) /\ Q.head \in Nat /\ Q.count \in Nat
  BY Zenon DEF RingOK, Records
<1>2. PICK n \in Nat : n = Len(Q.items)
  BY <1>1
<1>3. Q.items \in [1 .. n -> Slots] /\ (n > 0 => Q.items # <<>>)
  BY <1>1, <1>2
<1>4. Q.count <= n /\ (n > 0 => Q.head < n)
  BY <1>2, <1>3, Zenon DEF RingOK
<1>5. ASSUME NEW i \in 0 .. n - 1 PROVE At(Q, i) = Q.items[Place(Q.head, n, i)]
  <2>1. i \in Nat /\ i <= n /\ Q.head < n
    BY <1>4
  <2>2. ((Q.head + i) % n) + 1 = Place(Q.head, n, i)
    BY <1>1, <2>1, Wrap, Zenon
  <2> QED BY <1>2, <2>2, Zenon DEF At
<1> QED BY <1>1, <1>2, <1>3, <1>4, <1>5

\* remove takes the oldest entry out of the ring and gives back what it was charged.
LEMMA Removed ==
  ASSUME NEW Q, RingOK(Q), Q.count > 0
  PROVE  /\ RingOK(Remove(Q)) /\ Contents(Remove(Q)) = Tail(Contents(Q)) /\ Freed(Q) \in Nat
         /\ Remove(Q).bytes + Remove(Q).ringCharge = Q.bytes + Q.ringCharge - Freed(Q)
         /\ Remove(Q).count = Q.count - 1 /\ Remove(Q).limit = Q.limit
         /\ Remove(Q).burst = Q.burst /\ Remove(Q).closed = Q.closed
<1>0. PICK n \in Nat :
        /\ n = Len(Q.items) /\ Q.items \in [1 .. n -> Slots] /\ Q.items \in Seq(Slots)
        /\ Q.head \in Nat /\ Q.count \in 0 .. n /\ (n > 0 => Q.head < n)
        /\ \A i \in 0 .. n - 1 : At(Q, i) = Q.items[Place(Q.head, n, i)]
  BY RingFacts, Zenon
<1>a. n > 0 /\ Q.head \in Nat /\ Q.head < n /\ Q.count \in 1 .. n
  BY <1>0
<1>b. PICK c \in Nat : c = Size[At(Q, 0).data]
  <2>1. At(Q, 0) \in Entries
    BY <1>a DEF RingOK
  <2> QED BY <2>1, BufferAssumption, Zenon DEF Entries
<1>1. /\ Q.bytes \in Nat /\ Q.ringCharge \in Nat /\ Q.limit \in Nat /\ Q.burst \in BOOLEAN /\ Q.closed \in BOOLEAN
      /\ Q.count <= Q.limit /\ Q.limit <= BurstPackets /\ Q.bytes <= BurstBytes /\ BurstPackets \in Nat /\ BurstBytes \in Nat
  BY BufferAssumption, Zenon DEF RingOK, Records
<1>2. CASE Shrinks(Q)
  <2>1. PICK R : R = Remove(Q)
    BY Zenon
  <2>2. R = [items |-> <<>>, head |-> 0, count |-> Q.count - 1, bytes |-> Q.bytes - c, ringCharge |-> 0,
             limit |-> Q.limit, burst |-> Q.burst, closed |-> Q.closed]
    BY <1>2, <1>b, <2>1, Zenon DEF Remove, RingOK, Records
  <2>3. Q.count = 1 /\ Freed(Q) = c + Q.ringCharge
    BY <1>2, <1>b, Zenon DEF Shrinks, Freed
  <2>4. /\ R.items = <<>> /\ R.head = 0 /\ R.count = 0 /\ R.bytes = Q.bytes - c /\ R.ringCharge = 0
        /\ R.limit = Q.limit /\ R.burst = Q.burst /\ R.closed = Q.closed
    BY <2>2, <2>3
  <2>5. /\ Contents(R) = Tail(Contents(Q)) /\ Weighs(R) /\ R.bytes \in Nat
        /\ \A i \in 0 .. R.count - 1 : At(R, i) \in Entries
    <3>1. /\ Q.count > 0 /\ R.count = Q.count - 1 /\ R.bytes = Q.bytes - Size[At(Q, 0).data]
          /\ \A i \in 0 .. R.count - 1 : At(R, i) = At(Q, i + 1)
      BY <1>b, <2>3, <2>4
    <3> QED BY <3>1, Shifted, Zenon
  <2>6. R \in Records
    BY <1>1, <2>2, <2>3, <2>5 DEF Records
  <2>7. RingOK(R)
    BY <1>1, <1>b, <2>4, <2>5, <2>6 DEF RingOK
  <2>8. R.bytes + R.ringCharge = Q.bytes + Q.ringCharge - Freed(Q) /\ Freed(Q) \in Nat /\ R.count = Q.count - 1
    BY <1>1, <1>b, <2>3, <2>4
  <2> QED BY <2>1, <2>4, <2>5, <2>7, <2>8, Zenon
<1>3. CASE ~Shrinks(Q)
  <2>1. PICK R : R = Remove(Q)
    BY Zenon
  <2>2. R = [items |-> [Q.items EXCEPT ![Q.head + 1] = Free], head |-> (Q.head + 1) % n,
             count |-> Q.count - 1, bytes |-> Q.bytes - c, ringCharge |-> Q.ringCharge,
             limit |-> Q.limit, burst |-> Q.burst, closed |-> Q.closed]
    BY <1>3, <1>0, <1>b, <2>1, Zenon DEF Remove, RingOK, Records
  <2>3. /\ R.items = [Q.items EXCEPT ![Q.head + 1] = Free] /\ R.head = (Q.head + 1) % n
        /\ R.count = Q.count - 1 /\ R.bytes = Q.bytes - c /\ R.ringCharge = Q.ringCharge
        /\ R.limit = Q.limit /\ R.burst = Q.burst /\ R.closed = Q.closed
    BY <2>2, Zenon
  <2>4. Freed(Q) = c
    BY <1>3, <1>b DEF Freed
  <2>5. R.items \in Seq(Slots) /\ Len(R.items) = n /\ R.items # <<>>
    <3>1. Q.head + 1 \in 1 .. n /\ Free \in Slots
      BY <1>0, <1>a DEF Slots
    <3> QED BY <1>0, <1>a, <2>3, <3>1
  <2>6. R.head + 1 = Place(Q.head, n, 1) /\ R.head \in Nat /\ R.head < n
    <3>1. 1 \in Nat /\ 1 <= n
      BY <1>a
    <3>2. ((Q.head + 1) % n) + 1 = Place(Q.head, n, 1)
      BY <1>a, <3>1, Wrap, Zenon
    <3>3. Place(Q.head, n, 1) \in 1 .. n
      BY <1>a DEF Place
    <3>4. R.head \in Int /\ R.head + 1 = Place(Q.head, n, 1)
      BY <1>a, <2>3, <3>2
    <3> QED BY <3>3, <3>4
  <2>7. ASSUME NEW i \in 0 .. R.count - 1 PROVE At(R, i) = At(Q, i + 1)
    <3>1. i \in Nat /\ i + 1 \in 0 .. n - 1 /\ i <= n
      BY <1>a, <2>3
    <3>2. At(R, i) = R.items[Place(R.head, n, i)]
      <4>1. ((R.head + i) % n) + 1 = Place(R.head, n, i)
        BY <2>6, <3>1, Wrap, Zenon
      <4> QED BY <2>5, <4>1, Zenon DEF At
    <3>3. Place(R.head, n, i) = Place(Q.head, n, i + 1) /\ Place(Q.head, n, i + 1) # Q.head + 1
          /\ Place(Q.head, n, i + 1) \in 1 .. n
      BY <1>a, <2>6, <3>1 DEF Place
    <3>4. At(Q, i + 1) = Q.items[Place(Q.head, n, i + 1)]
      BY <1>0, <3>1, Zenon
    <3> QED BY <1>0, <2>3, <3>2, <3>3, <3>4, Zenon
  <2>8. /\ Contents(R) = Tail(Contents(Q)) /\ Weighs(R) /\ R.bytes \in Nat
        /\ \A i \in 0 .. R.count - 1 : At(R, i) \in Entries
    <3>1. Q.count > 0 /\ R.count = Q.count - 1 /\ R.bytes = Q.bytes - Size[At(Q, 0).data]
      BY <1>b, <2>3, Zenon
    <3> QED BY <2>7, <3>1, Shifted, Zenon
  <2>9. R \in Records
    <3>1. Q.count - 1 \in Nat
      BY <1>a
    <3> QED BY <1>1, <2>2, <2>3, <2>5, <2>6, <2>8, <3>1, Zenon DEF Records
  <2>10. RingOK(R)
    <3>1. R.count <= Len(R.items) /\ R.head <= Len(R.items) /\ R.head < Len(R.items)
      BY <1>a, <2>3, <2>5, <2>6, SMTT(30)
    <3>2. R.count <= R.limit /\ R.limit <= BurstPackets /\ R.bytes <= BurstBytes
      BY <1>1, <1>a, <1>b, <2>3
    <3> QED BY <2>8, <2>9, <3>1, <3>2, Zenon DEF RingOK
  <2>11. R.bytes + R.ringCharge = Q.bytes + Q.ringCharge - Freed(Q) /\ Freed(Q) \in Nat
    BY <1>1, <1>b, <2>3, <2>4
  <2> QED BY <2>1, <2>3, <2>8, <2>10, <2>11, Zenon
<1> QED BY <1>2, <1>3, Zenon

\* A ring with room takes an entry behind the last one.
LEMMA Stored ==
  ASSUME NEW Q, RingOK(Q), NEW e \in Entries, Q.count < Len(Q.items), Q.count < Q.limit,
         Q.bytes + Size[e.data] <= BurstBytes
  PROVE  /\ RingOK(Store(Q, e)) /\ Contents(Store(Q, e)) = Append(Contents(Q), e)
         /\ Store(Q, e).bytes = Q.bytes + Size[e.data] /\ Store(Q, e).ringCharge = Q.ringCharge
         /\ Store(Q, e).count = Q.count + 1 /\ Store(Q, e).limit = Q.limit
         /\ Store(Q, e).burst = Q.burst /\ Store(Q, e).closed = Q.closed
<1>0. PICK n \in Nat :
        /\ n = Len(Q.items) /\ Q.items \in [1 .. n -> Slots] /\ Q.items \in Seq(Slots)
        /\ Q.head \in Nat /\ Q.count \in 0 .. n /\ (n > 0 => Q.head < n)
        /\ \A i \in 0 .. n - 1 : At(Q, i) = Q.items[Place(Q.head, n, i)]
  BY RingFacts, Zenon
<1>1. n > 0 /\ Q.head \in Nat /\ Q.head < n /\ Q.count \in Nat /\ Q.count < n /\ Q.count <= n
  BY <1>0
<1>2. PICK c \in Nat : c = Size[e.data]
  BY BufferAssumption, Zenon DEF Entries
<1>3. /\ Q.bytes \in Nat /\ Q.ringCharge \in Nat /\ Q.limit \in Nat /\ Q.burst \in BOOLEAN /\ Q.closed \in BOOLEAN
      /\ Q.limit <= BurstPackets
  BY Zenon DEF RingOK, Records
<1>4. PICK j \in 1 .. n : j = ((Q.head + Q.count) % n) + 1 /\ j = Place(Q.head, n, Q.count)
  <2>1. ((Q.head + Q.count) % n) + 1 = Place(Q.head, n, Q.count)
    BY <1>1, Wrap, Zenon
  <2>2. Place(Q.head, n, Q.count) \in 1 .. n
    BY <1>1 DEF Place
  <2> QED BY <2>1, <2>2, Zenon
<1>5. PICK R : R = Store(Q, e)
  BY Zenon
<1>6. R = [items |-> [Q.items EXCEPT ![j] = e], head |-> Q.head, count |-> Q.count + 1, bytes |-> Q.bytes + c,
           ringCharge |-> Q.ringCharge, limit |-> Q.limit, burst |-> Q.burst, closed |-> Q.closed]
  BY <1>0, <1>2, <1>4, <1>5, Zenon DEF Store, RingOK, Records
<1>7. /\ R.items = [Q.items EXCEPT ![j] = e] /\ R.head = Q.head /\ R.count = Q.count + 1 /\ R.bytes = Q.bytes + c
      /\ R.ringCharge = Q.ringCharge /\ R.limit = Q.limit /\ R.burst = Q.burst /\ R.closed = Q.closed
  BY <1>6, Zenon
<1>8. R.items \in Seq(Slots) /\ Len(R.items) = n /\ R.items # <<>>
  <2>1. e \in Slots
    BY Zenon DEF Slots
  <2> QED BY <1>0, <1>1, <1>4, <1>7, <2>1
<1>9. ASSUME NEW i \in 0 .. Q.count PROVE At(R, i) = R.items[Place(Q.head, n, i)]
  <2>1. i \in Nat /\ i <= n
    BY <1>1
  <2>2. ((Q.head + i) % n) + 1 = Place(Q.head, n, i)
    BY <1>1, <2>1, Wrap, Zenon
  <2> QED BY <1>7, <1>8, <2>2, Zenon DEF At
<1>10. At(R, Q.count) = e
  <2>1. At(R, Q.count) = R.items[j]
    BY <1>1, <1>4, <1>9
  <2> QED BY <1>0, <1>4, <1>7, <2>1, Zenon
<1>11. ASSUME NEW i \in 0 .. Q.count - 1 PROVE At(R, i) = At(Q, i)
  <2>1. i \in 0 .. Q.count /\ i \in 0 .. n - 1 /\ i \in Nat /\ i < Q.count
    BY <1>1
  <2>2. Place(Q.head, n, i) # j /\ Place(Q.head, n, i) \in 1 .. n
    BY <1>1, <1>4, <2>1, Apart, Zenon
  <2>3. At(R, i) = R.items[Place(Q.head, n, i)] /\ At(Q, i) = Q.items[Place(Q.head, n, i)]
    BY <1>0, <1>9, <2>1, Zenon
  <2> QED BY <1>0, <1>7, <2>2, <2>3, Zenon
<1>12. /\ Contents(R) = Append(Contents(Q), e) /\ Weighs(R) /\ R.bytes \in Nat
       /\ \A i \in 0 .. R.count - 1 : At(R, i) \in Entries
  <2>1. R.count = Q.count + 1 /\ R.bytes = Q.bytes + Size[e.data]
    BY <1>2, <1>7, Zenon
  <2> QED BY <1>10, <1>11, <2>1, Appended, Zenon
<1>13. R \in Records
  <2>1. Q.count + 1 \in Nat
    BY <1>1
  <2> QED BY <1>1, <1>3, <1>6, <1>7, <1>8, <1>12, <2>1, Zenon DEF Records
<1>14. RingOK(R)
  <2>1. R.count <= Len(R.items) /\ R.head <= Len(R.items) /\ R.head < Len(R.items)
    BY <1>1, <1>7, <1>8
  <2>2. R.count <= R.limit /\ R.limit <= BurstPackets /\ R.bytes <= BurstBytes
    <3>1. Q.count + 1 <= Q.limit
      BY <1>1, <1>3
    <3>2. Q.bytes + c <= BurstBytes
      BY <1>2, Zenon
    <3> QED BY <1>3, <1>7, <3>1, <3>2, Zenon
  <2> QED BY <1>12, <1>13, <2>1, <2>2, Zenon DEF RingOK
<1> QED BY <1>2, <1>5, <1>7, <1>12, <1>14, Zenon

\* The larger of two numbers.
LEMMA MaxOfTwo == \A a, b \in Int : Max({a, b}) = IF a >= b THEN a ELSE b
BY DEF Max

\* The smaller of two numbers.
LEMMA MinOfTwo == \A a, b \in Int : Min({a, b}) = IF a <= b THEN a ELSE b
BY DEF Min

\* A full ring below the limit grows, and its entries stay in order.
LEMMA GrownRing ==
  ASSUME NEW Q, RingOK(Q), Q.count = Len(Q.items), Q.count < Q.limit
  PROVE  /\ RingOK(Grown(Q)) /\ Contents(Grown(Q)) = Contents(Q)
         /\ NewRing(Q) * SlotCharge \in Nat /\ Grown(Q).ringCharge = NewRing(Q) * SlotCharge
         /\ Grown(Q).count < Len(Grown(Q).items) /\ Grown(Q).count = Q.count
         /\ Grown(Q).bytes = Q.bytes /\ Grown(Q).limit = Q.limit
         /\ Grown(Q).burst = Q.burst /\ Grown(Q).closed = Q.closed
<1>1. /\ Q.bytes \in Nat /\ Q.count \in Nat /\ Q.limit \in Nat /\ Q.burst \in BOOLEAN /\ Q.closed \in BOOLEAN
      /\ Q.limit <= BurstPackets /\ Q.bytes <= BurstBytes
  BY Zenon DEF RingOK, Records
<1>2. PICK n \in Nat : n = NewRing(Q) /\ Q.count < n
  <2>1. FirstRing \in Nat /\ FirstRing > 0 /\ Len(Q.items) * 2 \in Nat
    BY <1>1, BufferAssumption
  <2>2. PICK m \in Nat : m = Max({FirstRing, Len(Q.items) * 2}) /\ Q.count < m
    <3>1. Max({FirstRing, Len(Q.items) * 2}) = IF FirstRing >= Len(Q.items) * 2 THEN FirstRing ELSE Len(Q.items) * 2
      BY <2>1, MaxOfTwo
    <3> QED BY <1>1, <2>1, <3>1
  <2>3. Min({Q.limit, m}) = IF Q.limit <= m THEN Q.limit ELSE m
    <3>1. Q.limit \in Int /\ m \in Int
      BY <1>1
    <3> QED BY <3>1, MinOfTwo, Zenon
  <2> QED BY <1>1, <2>2, <2>3, Zenon DEF NewRing
<1>3. PICK charge \in Nat : charge = n * SlotCharge
  BY <1>2, BufferAssumption
<1>4. PICK R : R = Grown(Q)
  BY Zenon
<1>5. PICK items : items = [i \in 1 .. n |-> IF i <= Q.count THEN Contents(Q)[i] ELSE Free]
  BY Zenon
<1>6. R = [items |-> items, head |-> 0, count |-> Q.count, bytes |-> Q.bytes,
           ringCharge |-> charge, limit |-> Q.limit, burst |-> Q.burst, closed |-> Q.closed]
  BY <1>2, <1>3, <1>4, <1>5, Zenon DEF Grown, RingOK, Records
<1>7. /\ R.items = items /\ R.head = 0 /\ R.count = Q.count /\ R.bytes = Q.bytes /\ R.ringCharge = charge
      /\ R.limit = Q.limit /\ R.burst = Q.burst /\ R.closed = Q.closed
  BY <1>6, Zenon
<1>8. /\ Contents(Q) \in Seq(Entries) /\ Len(Contents(Q)) = Q.count
      /\ \A i \in 1 .. Q.count : Contents(Q)[i] = At(Q, i - 1)
  BY <1>1, ContentsSeq, Zenon DEF RingOK
<1>9. items \in Seq(Slots) /\ Len(items) = n /\ items # <<>>
  <2>1. \A i \in 1 .. n : items[i] \in Slots
    BY <1>1, <1>5, <1>8 DEF Slots
  <2> QED BY <1>1, <1>2, <1>5, <2>1
<1>10. ASSUME NEW i \in 0 .. Q.count - 1 PROVE At(R, i) = At(Q, i)
  <2>1. i \in Nat /\ i <= n /\ 0 \in Nat /\ 0 < n /\ i + 1 \in 1 .. Q.count /\ i + 1 \in 1 .. n /\ (i + 1) - 1 = i
    BY <1>1, <1>2
  <2>2. ((0 + i) % n) + 1 = Place(0, n, i)
    BY <2>1, Wrap, Zenon
  <2>3. Place(0, n, i) = i + 1
    BY <1>1, <1>2 DEF Place
  <2>4. At(R, i) = items[i + 1]
    BY <1>7, <1>9, <2>2, <2>3, Zenon DEF At
  <2>5. items[i + 1] = Contents(Q)[i + 1]
    BY <1>1, <1>5, <2>1
  <2> QED BY <1>8, <2>1, <2>4, <2>5, Zenon
<1>11. /\ Contents(R) = Contents(Q) /\ Weighs(R) /\ \A i \in 0 .. R.count - 1 : At(R, i) \in Entries
  BY <1>7, <1>10, Moved, Zenon
<1>12. R \in Records
  BY <1>1, <1>3, <1>6, <1>9, Zenon DEF Records
<1>13. RingOK(R)
  <2>1. R.count <= Len(R.items) /\ R.head <= Len(R.items) /\ R.head < Len(R.items)
    BY <1>1, <1>2, <1>7, <1>9
  <2>2. R.count <= R.limit /\ R.limit <= BurstPackets /\ R.bytes <= BurstBytes
    BY <1>1, <1>7
  <2> QED BY <1>11, <1>12, <2>1, <2>2, Zenon DEF RingOK
<1> QED BY <1>2, <1>3, <1>4, <1>7, <1>9, <1>11, <1>13, Zenon

--------------------------------------------------------------------------------
(* The budget.  A queue that is charged for f[q] bytes has as many elements in the heap. *)

Heap(f) == UNION {{q} \X (1 .. f[q]) : q \in Queues}

\* When one queue's charge changes, the heap grows or shrinks by the difference.
LEMMA HeapMoves ==
  ASSUME NEW f \in [Queues -> Nat], NEW g \in [Queues -> Nat], NEW q \in Queues,
         \A p \in Queues : p # q => g[p] = f[p], IsFiniteSet(Heap(f))
  PROVE  /\ IsFiniteSet(Heap(g)) /\ Cardinality(Heap(f)) \in Nat /\ Cardinality(Heap(g)) \in Nat
         /\ Cardinality(Heap(g)) + f[q] = Cardinality(Heap(f)) + g[q]
<1> DEFINE others == UNION {{p} \X (1 .. f[p]) : p \in Queues \ {q}}
           own(k) == {q} \X (1 .. k)
<1>1. Heap(f) = others \cup own(f[q])
  BY Zenon DEF Heap
<1>2. Heap(g) = others \cup own(g[q])
  BY Zenon DEF Heap
<1>3. IsFiniteSet(others) /\ Cardinality(others) \in Nat
  <2>1. others \subseteq Heap(f)
    BY <1>1, Zenon
  <2> HIDE DEF others
  <2> QED BY <2>1, FS_Subset, FS_CardinalityType, Zenon
<1>4. ASSUME NEW k \in Nat
      PROVE  IsFiniteSet(others \cup own(k)) /\ Cardinality(others \cup own(k)) = Cardinality(others) + k
  <2>1. IsFiniteSet(1 .. k) /\ Cardinality(1 .. k) = k
    <3>1. 1 \in Int /\ k \in Int
      OBVIOUS
    <3>2. IsFiniteSet(1 .. k) /\ Cardinality(1 .. k) = IF 1 > k THEN 0 ELSE k - 1 + 1
      BY <3>1, FS_Interval, Zenon
    <3> QED BY <3>2
  <2>2. IsFiniteSet({q}) /\ Cardinality({q}) = 1
    BY FS_Singleton, Zenon
  <2>3. IsFiniteSet(own(k)) /\ Cardinality(own(k)) = Cardinality({q}) * Cardinality(1 .. k)
    BY <2>1, <2>2, FS_Product, Zenon
  <2>4. Cardinality(own(k)) = k
    BY <2>1, <2>2, <2>3
  <2>5. others \cap own(k) = {}
    OBVIOUS
  <2> HIDE DEF others, own
  <2>6. Cardinality(others \cap own(k)) = 0
    BY <2>5, FS_EmptySet, Zenon
  <2>7. /\ IsFiniteSet(others \cup own(k))
        /\ Cardinality(others \cup own(k)) = Cardinality(others) + Cardinality(own(k)) - Cardinality(others \cap own(k))
    BY <1>3, <2>3, FS_Union, Zenon
  <2> QED BY <1>3, <2>4, <2>6, <2>7
<1> HIDE DEF others, own
<1>5. f[q] \in Nat /\ g[q] \in Nat
  BY Zenon
<1>6. /\ IsFiniteSet(Heap(g)) /\ Cardinality(Heap(f)) = Cardinality(others) + f[q]
      /\ Cardinality(Heap(g)) = Cardinality(others) + g[q]
  BY <1>1, <1>2, <1>4, <1>5, Zenon
<1> QED BY <1>3, <1>5, <1>6

--------------------------------------------------------------------------------
(* The invariant. *)

CallRecords == {NoCall} \union PushCalls \union PopCalls

\* What a call has found out holds until it returns, since it has the mutex.
CallOK(Q, c, time) ==
  /\ c \in CallRecords
  /\ c.step # "idle" => c.at <= time
  /\ c.step \in {"push", "grow", "copy"} => ~Q.closed
  /\ c.step \in {"grow", "copy"} =>
       Q.count = Len(Q.items) /\ Q.count < Q.limit /\ Q.bytes + Size[c.data] <= BurstBytes

StateInv ==
  /\ now \in 0 .. MaxTime /\ used \in 0 .. GlobalLimit
  /\ queue \in [Queues -> Records] /\ call \in [Queues -> CallRecords]
  /\ \A q \in Queues : RingOK(queue[q]) /\ CallOK(queue[q], call[q], now)
  /\ IsFiniteSet(Charged) /\ used = Cardinality(Charged)

SignalInv ==
  /\ hasData \in [Queues -> BOOLEAN]
  /\ receiver \in [Queues -> Datagrams \union {"none", "waiting", "ended"}]
  /\ NoReceiverForgotten

BufferInv == StateInv /\ SignalInv

\* The fields of a call.
LEMMA CallFields ==
  ASSUME NEW c \in CallRecords
  PROVE  /\ c.step \in {"idle", "push", "grow", "copy", "pop"}
         /\ c.step = "idle" => c = NoCall
         /\ c.step \in {"push", "grow", "copy"} => c \in PushCalls /\ c.data \in Datagrams /\ c.at \in 0 .. MaxTime
         /\ c.step = "pop" => c \in PopCalls /\ c.at \in 0 .. MaxTime
<1>1. CASE c = NoCall
  BY <1>1, Zenon DEF NoCall
<1>2. CASE c \in PushCalls
  BY <1>2, Zenon DEF PushCalls
<1>3. CASE c \in PopCalls
  BY <1>3, Zenon DEF PopCalls
<1> QED BY <1>1, <1>2, <1>3, Zenon DEF CallRecords

\* What a queue is charged for, by the step of its call.
LEMMA HeldIs ==
  ASSUME NEW Q, NEW c, NEW time, RingOK(Q), CallOK(Q, c, time)
  PROVE  /\ Held(Q, c) \in Nat /\ Q.bytes + Q.ringCharge \in Nat
         /\ c.step \in {"idle", "push", "pop"} => Held(Q, c) = Q.bytes + Q.ringCharge
         /\ c.step = "grow" => Held(Q, c) = Q.bytes + Q.ringCharge + Size[c.data]
         /\ c.step = "copy" => Held(Q, c) = Q.bytes + Q.ringCharge + (Size[c.data] + NewRing(Q) * SlotCharge)
<1>1. PICK b \in Nat : b = Q.bytes + Q.ringCharge
  BY DEF RingOK, Records
<1>2. c \in CallRecords
  BY Zenon DEF CallOK
<1>3. c.step \in {"idle", "push", "grow", "copy", "pop"}
  BY <1>2, CallFields, Zenon
<1>4. CASE c.step \in {"idle", "push", "pop"}
  <2>1. InFlight(Q, c) = 0
    BY <1>4, Zenon DEF InFlight
  <2> QED BY <1>1, <1>4, <2>1 DEF Held
<1>5. ASSUME c.step \in {"grow", "copy"} PROVE Size[c.data] \in Nat
  <2>1. c.data \in Datagrams
    BY <1>2, <1>5, CallFields, Zenon
  <2> QED BY <2>1, BufferAssumption, Zenon
<1>6. CASE c.step = "grow"
  <2>1. InFlight(Q, c) = Size[c.data]
    BY <1>6, Zenon DEF InFlight
  <2> QED BY <1>1, <1>5, <1>6, <2>1 DEF Held
<1>7. CASE c.step = "copy"
  <2>1. InFlight(Q, c) = Size[c.data] + NewRing(Q) * SlotCharge
    BY <1>7, Zenon DEF InFlight
  <2>2. NewRing(Q) * SlotCharge \in Nat
    <3>1. Q.count = Len(Q.items) /\ Q.count < Q.limit
      BY <1>7, Zenon DEF CallOK
    <3> QED BY <3>1, GrownRing, Zenon
  <2>3. PICK k \in Nat : k = NewRing(Q) * SlotCharge
    BY <2>2, Zenon
  <2> QED BY <1>1, <1>5, <1>7, <2>1, <2>3 DEF Held
<1> QED BY <1>3, <1>4, <1>6, <1>7, Zenon

\* A step of one queue.
Moves(q, Q, c) == now' = now /\ queue' = [queue EXCEPT ![q] = Q] /\ call' = [call EXCEPT ![q] = c]

\* Such a step keeps the budget exact when `used` changes as the queue's charge does.
LEMMA StateMoves ==
  ASSUME StateInv, NEW q \in Queues, NEW Q, NEW c, RingOK(Q), CallOK(Q, c, now), Moves(q, Q, c),
         used' \in Int, used' <= GlobalLimit, used' + Held(queue[q], call[q]) = used + Held(Q, c)
  PROVE  StateInv'
<1>1. queue' \in [Queues -> Records] /\ call' \in [Queues -> CallRecords] /\ now' = now
  BY Zenon DEF StateInv, Moves, RingOK, CallOK
<1>2. queue'[q] = Q /\ call'[q] = c /\ \A p \in Queues : p # q => queue'[p] = queue[p] /\ call'[p] = call[p]
  BY Zenon DEF StateInv, Moves
<1>3. \A p \in Queues : RingOK(queue'[p]) /\ CallOK(queue'[p], call'[p], now)
  BY <1>2, Zenon DEF StateInv
<1> DEFINE f == [p \in Queues |-> Held(queue[p], call[p])]
           g == [p \in Queues |-> Held(queue'[p], call'[p])]
<1>4. f \in [Queues -> Nat]
  <2>1. \A p \in Queues : Held(queue[p], call[p]) \in Nat
    BY HeldIs, Zenon DEF StateInv
  <2> QED BY <2>1, Zenon
<1>5. g \in [Queues -> Nat]
  <2>1. \A p \in Queues : Held(queue'[p], call'[p]) \in Nat
    BY <1>3, HeldIs, Zenon
  <2> QED BY <2>1, Zenon
<1>6. /\ f[q] = Held(queue[q], call[q]) /\ g[q] = Held(Q, c)
      /\ \A p \in Queues : p # q => g[p] = f[p]
  BY <1>2, Zenon
<1>7. Charged = Heap(f) /\ Charged' = Heap(g)
  BY Zenon DEF Charged, Heap
<1> HIDE DEF f, g
<1>8. IsFiniteSet(Heap(f)) /\ used = Cardinality(Heap(f))
  BY <1>7, Zenon DEF StateInv
<1>9. /\ IsFiniteSet(Heap(g)) /\ Cardinality(Heap(f)) \in Nat /\ Cardinality(Heap(g)) \in Nat
      /\ Cardinality(Heap(g)) + f[q] = Cardinality(Heap(f)) + g[q]
  BY <1>4, <1>5, <1>6, <1>8, HeapMoves, Zenon
<1>10. used' = Cardinality(Heap(g))
  <2>1. f[q] \in Nat /\ g[q] \in Nat /\ used' + f[q] = used + g[q]
    BY <1>4, <1>5, <1>6, Zenon
  <2> QED BY <1>8, <1>9, <2>1, SMTT(30)
<1>11. used' \in 0 .. GlobalLimit /\ IsFiniteSet(Charged') /\ used' = Cardinality(Charged')
  BY <1>7, <1>9, <1>10
<1> QED BY <1>1, <1>3, <1>11, Zenon DEF StateInv

\* What is known of the queue that a step is about.
LEMMA QueueFacts ==
  ASSUME StateInv, NEW q \in Queues
  PROVE  /\ RingOK(queue[q]) /\ CallOK(queue[q], call[q], now) /\ call[q] \in CallRecords
         /\ queue = [queue EXCEPT ![q] = queue[q]] /\ call = [call EXCEPT ![q] = call[q]]
         /\ used \in Int /\ used <= GlobalLimit /\ GlobalLimit \in Nat /\ now \in 0 .. MaxTime
BY BufferAssumption DEF StateInv

\* The numbers of a ring.
LEMMA RingNumbers ==
  ASSUME NEW Q, RingOK(Q)
  PROVE  /\ Q.count \in Int /\ Q.limit \in Int /\ Q.bytes \in Int /\ Q.ringCharge \in Int /\ Len(Q.items) \in Int
         /\ Q.count >= 0 /\ Q.bytes >= 0 /\ Q.ringCharge >= 0 /\ Q.count <= Len(Q.items) /\ Q.count <= Q.limit
         /\ BurstBytes \in Int /\ Q.bytes <= BurstBytes
BY BufferAssumption DEF RingOK, Records

\* The counter of the budget.
LEMMA UsedFacts == ASSUME StateInv PROVE used \in Int /\ used <= GlobalLimit /\ GlobalLimit \in Int
BY BufferAssumption DEF StateInv

\* A call begins or returns, and nothing is charged or given back.
LEMMA CallMoves ==
  ASSUME StateInv, NEW q \in Queues, call[q].step \in {"idle", "push", "pop"}, NEW c, c.step \in {"idle", "push", "pop"},
         CallOK(queue[q], c, now), UNCHANGED <<now, used, queue>>, Calls(q, c)
  PROVE  StateInv'
<1>1. Moves(q, queue[q], c)
  BY QueueFacts, Zenon DEF Moves, Calls
<1>2. Held(queue[q], call[q]) = queue[q].bytes + queue[q].ringCharge
  BY QueueFacts, HeldIs, Zenon
<1>3. Held(queue[q], c) = queue[q].bytes + queue[q].ringCharge
  BY QueueFacts, HeldIs, Zenon
<1>4. used' \in Int /\ used' <= GlobalLimit /\ used' + Held(queue[q], call[q]) = used + Held(queue[q], c)
  BY <1>2, <1>3, QueueFacts, Zenon
<1> QED BY <1>1, <1>4, QueueFacts, StateMoves, Zenon

\* No call is in progress after it returns.
LEMMA NoCallOK == ASSUME NEW Q, NEW time PROVE CallOK(Q, NoCall, time) /\ NoCall.step = "idle"
BY Zenon DEF CallOK, CallRecords, NoCall

\* A call of Push begins.
LEMMA PushBeginsKeeps == ASSUME StateInv, NEW q \in Queues, NEW d \in Datagrams, PushBegins(q, d) PROVE StateInv'
<1>1. PICK c : c = [step |-> "push", data |-> d, at |-> now]
  BY Zenon
<1>2. c \in CallRecords /\ c.step = "push" /\ c.at = now
  BY <1>1, QueueFacts, Zenon DEF CallRecords, PushCalls
<1>3. call[q].step = "idle" /\ ~queue[q].closed /\ Calls(q, c) /\ UNCHANGED <<now, used, queue>>
  BY <1>1 DEF PushBegins, Idle, NoCall
<1>4. CallOK(queue[q], c, now)
  BY <1>2, <1>3, QueueFacts DEF CallOK
<1> QED BY <1>2, <1>3, <1>4, CallMoves

\* A call of Pop begins.
LEMMA PopBeginsKeeps == ASSUME StateInv, NEW q \in Queues, PopBegins(q) PROVE StateInv'
<1>1. PICK c : c = [step |-> "pop", at |-> now]
  BY Zenon
<1>2. c \in CallRecords /\ c.step = "pop" /\ c.at = now
  BY <1>1, QueueFacts, Zenon DEF CallRecords, PopCalls
<1>3. call[q].step = "idle" /\ Calls(q, c) /\ UNCHANGED <<now, used, queue>>
  BY <1>1 DEF PopBegins, Idle, NoCall
<1>4. CallOK(queue[q], c, now)
  BY <1>2, QueueFacts DEF CallOK
<1> QED BY <1>2, <1>3, <1>4, CallMoves

\* A call returns and leaves its queue as it is.
LEMMA ReturnsKeep ==
  ASSUME StateInv, NEW q \in Queues, PushDrops(q) \/ PopFindsNone(q)
  PROVE  StateInv'
<1>1. call[q].step \in {"idle", "push", "pop"} /\ Calls(q, NoCall) /\ UNCHANGED <<now, used, queue>>
  BY Zenon DEF PushDrops, PopFindsNone, Returns
<1> QED BY <1>1, NoCallOK, CallMoves

\* The oldest entry is removed, by expire or by Pop.
LEMMA RemovalKeeps ==
  ASSUME StateInv, NEW q \in Queues, queue[q].count > 0, Sets(q, Remove(queue[q])), used' = used - Freed(queue[q]),
         now' = now, call[q].step \in {"push", "pop"}, Calls(q, call[q]) \/ Calls(q, NoCall)
  PROVE  StateInv'
<1>1. PICK Q : Q = Remove(queue[q])
  BY Zenon
<1>2. /\ RingOK(Q) /\ Freed(queue[q]) \in Nat /\ Q.closed = queue[q].closed
      /\ Q.bytes + Q.ringCharge = queue[q].bytes + queue[q].ringCharge - Freed(queue[q])
  BY <1>1, QueueFacts, Removed, Zenon
<1>3. PICK c : Calls(q, c) /\ (c = call[q] \/ c = NoCall)
  BY Zenon
<1>4. CallOK(Q, c, now) /\ c.step \in {"idle", "push", "pop"}
  <2>1. CASE c = NoCall
    BY <2>1, NoCallOK, Zenon
  <2>2. CASE c = call[q]
    BY <1>2, <2>2, QueueFacts, Zenon DEF CallOK
  <2> QED BY <1>3, <2>1, <2>2, Zenon
<1>5. Held(queue[q], call[q]) = queue[q].bytes + queue[q].ringCharge /\ queue[q].bytes + queue[q].ringCharge \in Nat
  <2>1. call[q].step \in {"idle", "push", "pop"}
    BY Zenon
  <2> QED BY <2>1, QueueFacts, HeldIs, Zenon
<1>6. Held(Q, c) = Q.bytes + Q.ringCharge
  BY <1>2, <1>4, HeldIs, Zenon
<1>7. used' \in Int /\ used' <= GlobalLimit /\ used' + Held(queue[q], call[q]) = used + Held(Q, c)
  <2>1. PICK f \in Nat : f = Freed(queue[q])
    BY <1>2, Zenon
  <2>2. PICK h \in Nat : h = Held(queue[q], call[q]) /\ h = queue[q].bytes + queue[q].ringCharge
    BY <1>5, Zenon
  <2>3. Held(Q, c) = h - f
    <3>1. Q.bytes + Q.ringCharge = queue[q].bytes + queue[q].ringCharge - Freed(queue[q])
      BY <1>2, Zenon
    <3>2. queue[q].bytes \in Int /\ queue[q].ringCharge \in Int
      BY QueueFacts, RingNumbers, Zenon
    <3> QED BY <1>6, <2>1, <2>2, <3>1, <3>2, SMTT(30)
  <2> QED BY <2>1, <2>2, <2>3, UsedFacts
<1>8. Moves(q, Q, c)
  BY <1>1, <1>3, Zenon DEF Moves, Sets, Calls
<1> QED BY <1>2, <1>4, <1>7, <1>8, StateMoves, Zenon

\* The entry of a call of Push.
LEMMA EntryFacts ==
  ASSUME StateInv, NEW q \in Queues, call[q].step \in {"push", "grow", "copy"}
  PROVE  /\ Entry(q) \in Entries /\ Entry(q).data = call[q].data /\ Entry(q).at = call[q].at
         /\ Size[call[q].data] \in Nat /\ call[q] \in PushCalls /\ Entry(q).at <= now /\ ~queue[q].closed
<1>1. call[q] \in PushCalls /\ call[q].data \in Datagrams /\ call[q].at \in 0 .. MaxTime
  BY QueueFacts, CallFields, Zenon
<1>2. call[q].at <= now /\ ~queue[q].closed
  BY QueueFacts, Zenon DEF CallOK
<1> QED BY <1>1, <1>2, BufferAssumption, Zenon DEF Entry, Entries

\* A step of a call of Push that goes on to grow the ring.
LEMMA GoesOn ==
  ASSUME StateInv, NEW q \in Queues, call[q].step \in {"push", "grow"}, NEW step \in {"grow", "copy"},
         queue[q].count = Len(queue[q].items), queue[q].count < queue[q].limit,
         queue[q].bytes + Size[call[q].data] <= BurstBytes
  PROVE  \E c : /\ c = [call[q] EXCEPT !.step = step] /\ c.step = step /\ c.data = call[q].data
                /\ CallOK(queue[q], c, now)
<1>1. PICK c : c = [call[q] EXCEPT !.step = step]
  BY Zenon
<1>2. call[q] \in PushCalls /\ ~queue[q].closed /\ call[q].at <= now
  BY EntryFacts, Zenon DEF Entry
<1>3. c \in PushCalls /\ c.step = step /\ c.data = call[q].data /\ c.at = call[q].at
  BY <1>1, <1>2, Zenon DEF PushCalls
<1>4. CallOK(queue[q], c, now)
  BY <1>2, <1>3, Zenon DEF CallOK, CallRecords
<1> QED BY <1>1, <1>3, <1>4, Zenon

\* The payload is paid for, and stored when the ring has room.
LEMMA PushReservesKeeps == ASSUME StateInv, NEW q \in Queues, PushReserves(q) PROVE StateInv'
<1>1. PICK k \in Nat : k = Size[call[q].data]
  BY EntryFacts, Zenon DEF PushReserves
<1>2. PICK b \in Nat : b = queue[q].bytes + queue[q].ringCharge /\ Held(queue[q], call[q]) = b
  <2>1. call[q].step \in {"idle", "push", "pop"}
    BY Zenon DEF PushReserves
  <2> QED BY <2>1, QueueFacts, HeldIs, Zenon
<1>3. /\ call[q].step = "push" /\ used' = used + k /\ used + k <= GlobalLimit /\ now' = now
      /\ queue[q].count < queue[q].limit /\ queue[q].bytes + Size[call[q].data] <= BurstBytes
  <2>1. queue[q].count \in Int /\ queue[q].limit \in Int /\ queue[q].bytes + Size[call[q].data] \in Int /\ BurstBytes \in Int
    <3>1. RingOK(queue[q])
      BY QueueFacts, Zenon
    <3> QED BY <1>1, <3>1, RingNumbers
  <2>2. /\ call[q].step = "push" /\ used' = used + k /\ used + k <= GlobalLimit /\ now' = now
        /\ ~(queue[q].count >= queue[q].limit) /\ ~(queue[q].bytes + Size[call[q].data] > BurstBytes)
    BY <1>1, Zenon DEF PushReserves, Full, Fits
  <2> QED BY <2>1, <2>2
<1>4. CASE queue[q].count = Len(queue[q].items)
  <2>1. PICK c : /\ c = [call[q] EXCEPT !.step = "grow"] /\ c.step = "grow" /\ c.data = call[q].data
                 /\ CallOK(queue[q], c, now)
    BY <1>3, <1>4, GoesOn, Zenon
  <2>2. Moves(q, queue[q], c)
    <3>1. Calls(q, [call[q] EXCEPT !.step = "grow"]) /\ queue' = queue
      BY <1>4, Zenon DEF PushReserves
    <3>2. queue = [queue EXCEPT ![q] = queue[q]]
      BY QueueFacts, Zenon
    <3> QED BY <1>3, <2>1, <3>1, <3>2, Zenon DEF Moves, Calls
  <2>3. Held(queue[q], c) = queue[q].bytes + queue[q].ringCharge + Size[c.data]
    <3>1. RingOK(queue[q])
      BY QueueFacts, Zenon
    <3> QED BY <2>1, <3>1, HeldIs, Zenon
  <2>4. used' \in Int /\ used' <= GlobalLimit /\ used' + Held(queue[q], call[q]) = used + Held(queue[q], c)
    BY <1>1, <1>2, <1>3, <2>1, <2>3, UsedFacts
  <2> QED BY <2>1, <2>2, <2>4, QueueFacts, StateMoves, Zenon
<1>5. CASE queue[q].count # Len(queue[q].items)
  <2>1. PICK Q : Q = Store(queue[q], Entry(q))
    BY Zenon
  <2>2. queue[q].count < Len(queue[q].items) /\ Entry(q) \in Entries /\ queue[q].bytes + Size[Entry(q).data] <= BurstBytes
    <3>1. queue[q].count \in Int /\ Len(queue[q].items) \in Int /\ queue[q].count <= Len(queue[q].items)
      BY QueueFacts, RingNumbers, Zenon
    <3>2. Entry(q) \in Entries /\ Entry(q).data = call[q].data
      BY <1>3, EntryFacts, Zenon
    <3>3. queue[q].count < Len(queue[q].items)
      BY <1>5, <3>1
    <3> QED BY <1>3, <3>2, <3>3, Zenon
  <2>3. RingOK(Q) /\ Q.bytes = queue[q].bytes + Size[Entry(q).data] /\ Q.ringCharge = queue[q].ringCharge
    <3>1. RingOK(queue[q]) /\ queue[q].count < queue[q].limit
      BY <1>3, QueueFacts, Zenon
    <3> QED BY <2>1, <2>2, <3>1, Stored, Zenon
  <2>4. Moves(q, Q, NoCall)
    BY <1>3, <1>5, <2>1, Zenon DEF Moves, PushReserves, Sets, Calls, Returns
  <2>5. Held(Q, NoCall) = Q.bytes + Q.ringCharge
    BY <2>3, NoCallOK, HeldIs, Zenon
  <2>6. used' \in Int /\ used' <= GlobalLimit /\ used' + Held(queue[q], call[q]) = used + Held(Q, NoCall)
    <3>1. Size[Entry(q).data] = k /\ queue[q].bytes \in Int /\ queue[q].ringCharge \in Int
      BY <1>1, <1>3, EntryFacts, QueueFacts, RingNumbers, Zenon
    <3> QED BY <1>2, <1>3, <2>3, <2>5, <3>1, UsedFacts
  <2> QED BY <2>3, <2>4, <2>6, NoCallOK, StateMoves, Zenon
<1> QED BY <1>4, <1>5, Zenon

\* The new ring is paid for, or the payload's charge is given back.
LEMMA PushGrowsKeeps == ASSUME StateInv, NEW q \in Queues, PushGrows(q) PROVE StateInv'
<1>1. /\ RingOK(queue[q]) /\ CallOK(queue[q], call[q], now) /\ call[q].step = "grow" /\ now' = now /\ queue' = queue
      /\ queue = [queue EXCEPT ![q] = queue[q]]
  BY QueueFacts, Zenon DEF PushGrows
<1>2. PICK k \in Nat : k = Size[call[q].data]
  BY <1>1, EntryFacts, Zenon
<1>3. PICK n \in Nat : n = NewRing(queue[q]) * SlotCharge
  <2>1. queue[q].count = Len(queue[q].items) /\ queue[q].count < queue[q].limit
    BY <1>1, Zenon DEF CallOK
  <2> QED BY <1>1, <2>1, GrownRing, Zenon
<1>4. PICK b \in Nat : b = queue[q].bytes + queue[q].ringCharge
  BY <1>1, RingNumbers
<1>5. Held(queue[q], call[q]) = b + k
  BY <1>1, <1>2, <1>4, HeldIs, Zenon
<1>6. CASE Fits(NewRing(queue[q]) * SlotCharge)
  <2>1. used' = used + n /\ used + n <= GlobalLimit /\ Calls(q, [call[q] EXCEPT !.step = "copy"])
    BY <1>3, <1>6, Zenon DEF PushGrows, Fits
  <2>2. PICK c : /\ c = [call[q] EXCEPT !.step = "copy"] /\ c.step = "copy" /\ c.data = call[q].data
                 /\ CallOK(queue[q], c, now)
    <3>1. /\ queue[q].count = Len(queue[q].items) /\ queue[q].count < queue[q].limit
          /\ queue[q].bytes + Size[call[q].data] <= BurstBytes
      BY <1>1, Zenon DEF CallOK
    <3> QED BY <1>1, <3>1, GoesOn, Zenon
  <2>3. Held(queue[q], c) = b + (k + n)
    <3>1. Held(queue[q], c) = queue[q].bytes + queue[q].ringCharge + (Size[c.data] + NewRing(queue[q]) * SlotCharge)
      BY <1>1, <2>2, HeldIs, Zenon
    <3> QED BY <1>2, <1>3, <1>4, <2>2, <3>1, Zenon
  <2>4. Moves(q, queue[q], c)
    BY <1>1, <2>1, <2>2, Zenon DEF Moves, Calls
  <2>5. used' \in Int /\ used' <= GlobalLimit /\ used' + Held(queue[q], call[q]) = used + Held(queue[q], c)
    BY <1>5, <2>1, <2>3, UsedFacts
  <2> QED BY <1>1, <2>2, <2>4, <2>5, StateMoves, Zenon
<1>7. CASE ~Fits(NewRing(queue[q]) * SlotCharge)
  <2>1. used' = used - k /\ Calls(q, NoCall)
    BY <1>2, <1>7, Zenon DEF PushGrows, GivesBack, Returns
  <2>2. Held(queue[q], NoCall) = b
    BY <1>1, <1>4, NoCallOK, HeldIs, Zenon
  <2>3. Moves(q, queue[q], NoCall)
    BY <1>1, <2>1, Zenon DEF Moves, Calls
  <2>4. used' \in Int /\ used' <= GlobalLimit /\ used' + Held(queue[q], call[q]) = used + Held(queue[q], NoCall)
    BY <1>5, <2>1, <2>2, UsedFacts
  <2> QED BY <1>1, <2>3, <2>4, NoCallOK, StateMoves, Zenon
<1> QED BY <1>6, <1>7, Zenon

\* The queue after a ring has grown and taken the entry.
LEMMA CopiedQueue ==
  ASSUME StateInv, NEW q \in Queues, call[q].step = "copy"
  PROVE  \E Q : /\ Q = Store(Grown(queue[q]), Entry(q)) /\ RingOK(Q)
                /\ Contents(Q) = Append(Contents(queue[q]), Entry(q))
                /\ Q.count > 0 /\ Q.burst = queue[q].burst /\ Q.closed = queue[q].closed
                /\ Q.bytes = queue[q].bytes + Size[call[q].data]
                /\ Q.ringCharge = NewRing(queue[q]) * SlotCharge
<1>1. PICK G : G = Grown(queue[q])
  BY Zenon
<1>2. PICK Q : Q = Store(G, Entry(q))
  BY Zenon
<1>3. /\ RingOK(queue[q]) /\ queue[q].count = Len(queue[q].items) /\ queue[q].count < queue[q].limit
      /\ queue[q].bytes + Size[call[q].data] <= BurstBytes
  BY QueueFacts, Zenon DEF CallOK
<1>4. /\ RingOK(G) /\ Contents(G) = Contents(queue[q]) /\ G.ringCharge = NewRing(queue[q]) * SlotCharge
      /\ G.count < Len(G.items) /\ G.count = queue[q].count /\ G.bytes = queue[q].bytes /\ G.limit = queue[q].limit
      /\ G.burst = queue[q].burst /\ G.closed = queue[q].closed
  BY <1>1, <1>3, GrownRing, Zenon
<1>5. Entry(q) \in Entries /\ Entry(q).data = call[q].data
  BY EntryFacts, Zenon
<1>6. G.count < G.limit /\ G.bytes + Size[Entry(q).data] <= BurstBytes
  BY <1>3, <1>4, <1>5, Zenon
<1>7. /\ RingOK(Q) /\ Contents(Q) = Append(Contents(G), Entry(q)) /\ Q.count = G.count + 1
      /\ Q.bytes = G.bytes + Size[Entry(q).data] /\ Q.ringCharge = G.ringCharge
      /\ Q.burst = G.burst /\ Q.closed = G.closed
  BY <1>2, <1>4, <1>5, <1>6, Stored, Zenon
<1>8. Q.count > 0
  <2>1. G.count \in Int /\ G.count >= 0
    BY <1>4, RingNumbers, Zenon
  <2> QED BY <1>7, <2>1
<1> QED BY <1>1, <1>2, <1>4, <1>5, <1>7, <1>8, Zenon

\* The old ring's charge is given back.
LEMMA PushCopiesKeeps == ASSUME StateInv, NEW q \in Queues, PushCopies(q) PROVE StateInv'
<1>1. /\ RingOK(queue[q]) /\ CallOK(queue[q], call[q], now) /\ call[q].step = "copy" /\ now' = now
      /\ used' = used - queue[q].ringCharge /\ Sets(q, Store(Grown(queue[q]), Entry(q))) /\ Calls(q, NoCall)
  BY QueueFacts, Zenon DEF PushCopies, Returns
<1>2. PICK Q : /\ Q = Store(Grown(queue[q]), Entry(q)) /\ RingOK(Q)
               /\ Q.bytes = queue[q].bytes + Size[call[q].data]
               /\ Q.ringCharge = NewRing(queue[q]) * SlotCharge
  BY <1>1, CopiedQueue, Zenon
<1>3. PICK b \in Int, r \in Int : b = queue[q].bytes /\ r = queue[q].ringCharge /\ r >= 0
  BY <1>1, RingNumbers, Zenon
<1>4. PICK k \in Nat : k = Size[call[q].data]
  BY <1>1, EntryFacts, Zenon
<1>5. PICK n \in Int : n = Q.ringCharge
  BY <1>2, RingNumbers, Zenon
<1>6. Held(queue[q], call[q]) = b + r + (k + n)
  <2>1. Held(queue[q], call[q]) = queue[q].bytes + queue[q].ringCharge + (Size[call[q].data] + NewRing(queue[q]) * SlotCharge)
    BY <1>1, HeldIs, Zenon
  <2> QED BY <1>2, <1>3, <1>4, <1>5, <2>1, Zenon
<1>7. Held(Q, NoCall) = (b + k) + n
  <2>1. Held(Q, NoCall) = Q.bytes + Q.ringCharge
    BY <1>2, NoCallOK, HeldIs, Zenon
  <2> QED BY <1>2, <1>3, <1>4, <1>5, <2>1, Zenon
<1>8. Moves(q, Q, NoCall)
  BY <1>1, <1>2, Zenon DEF Moves, Sets, Calls
<1>9. used' \in Int /\ used' <= GlobalLimit /\ used' + Held(queue[q], call[q]) = used + Held(Q, NoCall)
  BY <1>1, <1>3, <1>6, <1>7, UsedFacts
<1> QED BY <1>2, <1>8, <1>9, NoCallOK, StateMoves, Zenon

\* The burst profile raises the limit.
LEMMA EnablesBurstKeeps == ASSUME StateInv, NEW q \in Queues, EnablesBurst(q) PROVE StateInv'
<1>1. /\ RingOK(queue[q]) /\ call[q] = NoCall /\ now' = now /\ used' = used /\ call' = call
      /\ queue[q] \in Records /\ call = [call EXCEPT ![q] = call[q]]
      /\ Sets(q, [queue[q] EXCEPT !.limit = BurstPackets, !.burst = TRUE])
  BY QueueFacts, Zenon DEF EnablesBurst, Idle, RingOK
<1>2. PICK Q : Q = [queue[q] EXCEPT !.limit = BurstPackets, !.burst = TRUE]
  BY Zenon
<1>3. /\ Q \in Records /\ Q.items = queue[q].items /\ Q.head = queue[q].head /\ Q.count = queue[q].count
      /\ Q.bytes = queue[q].bytes /\ Q.ringCharge = queue[q].ringCharge /\ Q.limit = BurstPackets /\ Q.limit \in Nat
  BY <1>1, <1>2, BufferAssumption, Zenon DEF Records
<1>4. \A i \in 0 .. queue[q].count - 1 : At(Q, i) = At(queue[q], i)
  BY <1>3, Zenon DEF At
<1>5. Weighs(Q) /\ \A i \in 0 .. Q.count - 1 : At(Q, i) \in Entries
  BY <1>1, <1>3, <1>4, Moved, Zenon DEF RingOK
<1>6. /\ Q.count <= Len(Q.items) /\ Q.head <= Len(Q.items) /\ (Q.items # <<>> => Q.head < Len(Q.items))
      /\ Q.bytes <= BurstBytes
  BY <1>1, <1>3, Zenon DEF RingOK
<1>7. Q.count <= Q.limit /\ Q.limit <= BurstPackets
  <2>1. queue[q].count \in Nat /\ queue[q].limit \in Nat /\ queue[q].count <= queue[q].limit /\ queue[q].limit <= BurstPackets
    BY <1>1, Zenon DEF RingOK, Records
  <2> QED BY <1>3, <2>1
<1>8. RingOK(Q)
  BY <1>3, <1>5, <1>6, <1>7, Zenon DEF RingOK
<1>9. Held(Q, NoCall) = Held(queue[q], call[q]) /\ Held(Q, NoCall) \in Nat
  <2>1. Held(queue[q], NoCall) = queue[q].bytes + queue[q].ringCharge
    BY <1>1, NoCallOK, HeldIs, Zenon
  <2>2. Held(Q, NoCall) = Q.bytes + Q.ringCharge /\ Held(Q, NoCall) \in Nat
    BY <1>8, NoCallOK, HeldIs, Zenon
  <2> QED BY <1>1, <1>3, <2>1, <2>2, Zenon
<1>10. Moves(q, Q, NoCall)
  BY <1>1, <1>2, Zenon DEF Moves, Sets
<1>11. used' \in Int /\ used' <= GlobalLimit /\ used' + Held(queue[q], call[q]) = used + Held(Q, NoCall)
  BY <1>1, <1>9, UsedFacts, Zenon
<1> QED BY <1>8, <1>10, <1>11, NoCallOK, StateMoves, Zenon

\* An empty queue.
LEMMA EmptyQueue ==
  ASSUME NEW Q \in Records, Q.items = <<>>, Q.head = 0, Q.count = 0, Q.bytes = 0, Q.limit <= BurstPackets
  PROVE  RingOK(Q) /\ Contents(Q) = <<>>
<1>1. Weighs(Q)
  <2>1. PICK s \in [0 .. 0 -> Nat] : s = [i \in 0 .. 0 |-> 0]
    BY Zenon
  <2>2. s[0] = 0 /\ 0 .. Q.count = 0 .. 0 /\ 0 .. Q.count - 1 = {}
    BY <2>1
  <2>3. s \in [0 .. Q.count -> Nat] /\ s[0] = Q.bytes /\ s[Q.count] = 0
    BY <2>2, Zenon
  <2> QED BY <2>2, <2>3, Zenon DEF Weighs
<1>2. \A i \in 0 .. Q.count - 1 : At(Q, i) \in Entries
  OBVIOUS
<1>3. /\ Q.count <= Len(Q.items) /\ Q.head <= Len(Q.items) /\ Q.count <= Q.limit /\ Q.bytes <= BurstBytes
  BY BufferAssumption DEF Records
<1>4. RingOK(Q)
  BY <1>1, <1>2, <1>3, Zenon DEF RingOK
<1>5. Contents(Q) \in Seq(Entries) /\ Len(Contents(Q)) = 0
  BY <1>2, ContentsSeq, Zenon DEF Records
<1> QED BY <1>4, <1>5

\* Close gives everything back.
LEMMA CloseReceiveKeeps == ASSUME StateInv, NEW q \in Queues, CloseReceive(q) PROVE StateInv'
<1>1. /\ RingOK(queue[q]) /\ call[q] = NoCall /\ now' = now /\ call' = call
      /\ used' = used - (queue[q].bytes + queue[q].ringCharge)
      /\ queue[q] \in Records /\ call = [call EXCEPT ![q] = call[q]]
      /\ Sets(q, [NewQueue(queue[q].limit) EXCEPT !.burst = queue[q].burst, !.closed = TRUE])
  BY QueueFacts, Zenon DEF CloseReceive, Idle, RingOK
<1>2. PICK Q : Q = [NewQueue(queue[q].limit) EXCEPT !.burst = queue[q].burst, !.closed = TRUE]
  BY Zenon
<1>3. RingOK(Q) /\ Q.bytes = 0 /\ Q.ringCharge = 0
  <2>1. queue[q].limit \in Nat /\ queue[q].limit <= BurstPackets /\ queue[q].burst \in BOOLEAN
    BY <1>1, Zenon DEF RingOK, Records
  <2>2. Q = [items |-> <<>>, head |-> 0, count |-> 0, bytes |-> 0, ringCharge |-> 0,
             limit |-> queue[q].limit, burst |-> queue[q].burst, closed |-> TRUE]
    BY <1>2, Zenon DEF NewQueue
  <2>3. Q \in Records
    BY <2>1, <2>2 DEF Records
  <2>4. /\ Q.items = <<>> /\ Q.head = 0 /\ Q.count = 0 /\ Q.bytes = 0 /\ Q.ringCharge = 0
        /\ Q.limit = queue[q].limit
    BY <2>2, Zenon
  <2> QED BY <2>1, <2>3, <2>4, EmptyQueue, Zenon
<1>4. PICK b \in Nat : b = queue[q].bytes + queue[q].ringCharge /\ Held(queue[q], call[q]) = b
  BY <1>1, NoCallOK, HeldIs, Zenon
<1>5. Held(Q, NoCall) = 0
  <2>1. Held(Q, NoCall) = Q.bytes + Q.ringCharge
    BY <1>3, NoCallOK, HeldIs, Zenon
  <2> QED BY <1>3, <2>1
<1>6. Moves(q, Q, NoCall)
  BY <1>1, <1>2, Zenon DEF Moves, Sets
<1>7. used' \in Int /\ used' <= GlobalLimit /\ used' + Held(queue[q], call[q]) = used + Held(Q, NoCall)
  BY <1>1, <1>4, <1>5, UsedFacts
<1> QED BY <1>3, <1>6, <1>7, NoCallOK, StateMoves, Zenon

\* Time passes: a call has read an earlier clock.
LEMMA TicksKeeps == ASSUME StateInv, Ticks PROVE StateInv'
<1>1. now' \in 0 .. MaxTime /\ now' = now + 1 /\ now \in 0 .. MaxTime /\ UNCHANGED <<used, queue, call>>
  BY BufferAssumption DEF StateInv, Ticks
<1>2. \A q \in Queues : CallOK(queue[q], call[q], now')
  <2> SUFFICES ASSUME NEW q \in Queues PROVE CallOK(queue[q], call[q], now')
    BY Zenon
  <2>1. CallOK(queue[q], call[q], now) /\ call[q] \in CallRecords
    BY QueueFacts, Zenon
  <2>2. call[q].step # "idle" => call[q].at <= now'
    <3>1. call[q].step # "idle" => call[q].at \in 0 .. MaxTime
      BY <2>1, CallFields, Zenon
    <3> QED BY <1>1, <2>1, <3>1 DEF CallOK
  <2> QED BY <2>1, <2>2, Zenon DEF CallOK
<1>3. Charged' = Charged
  BY <1>1, Zenon DEF Charged
<1> QED BY <1>1, <1>2, <1>3, Zenon DEF StateInv

\* A step that leaves the queues and their calls alone.
LEMMA StateRests == ASSUME StateInv, UNCHANGED <<now, used, queue, call>> PROVE StateInv'
<1>1. Charged' = Charged
  BY Zenon DEF Charged
<1> QED BY <1>1, Zenon DEF StateInv

\* At first every queue is empty and nothing is charged.
LEMMA StateStarts == ASSUME BufferInit PROVE StateInv
<1>1. /\ now = 0 /\ used = 0 /\ queue = [q \in Queues |-> NewQueue(DefaultLimit[q])]
      /\ call = [q \in Queues |-> NoCall]
  BY Zenon DEF BufferInit
<1>2. ASSUME NEW q \in Queues
      PROVE  /\ RingOK(queue[q]) /\ queue[q] \in Records /\ queue[q].bytes = 0 /\ queue[q].ringCharge = 0
             /\ call[q] = NoCall
  <2>1. DefaultLimit[q] \in Nat /\ DefaultLimit[q] <= BurstPackets
    BY BufferAssumption, Zenon
  <2>2. PICK Q : Q = queue[q]
    BY Zenon
  <2>3. Q = [items |-> <<>>, head |-> 0, count |-> 0, bytes |-> 0, ringCharge |-> 0,
             limit |-> DefaultLimit[q], burst |-> FALSE, closed |-> FALSE]
    BY <1>1, <2>2, Zenon DEF NewQueue
  <2>4. Q \in Records
    BY <2>1, <2>3 DEF Records
  <2>5. /\ Q.items = <<>> /\ Q.head = 0 /\ Q.count = 0 /\ Q.bytes = 0 /\ Q.ringCharge = 0
        /\ Q.limit = DefaultLimit[q]
    BY <2>3, Zenon
  <2> QED BY <1>1, <2>1, <2>2, <2>4, <2>5, EmptyQueue, Zenon
<1>3. Charged = {}
  <2>1. ASSUME NEW q \in Queues PROVE {q} \X (1 .. Held(queue[q], call[q])) = {}
    <3>1. Held(queue[q], call[q]) = queue[q].bytes + queue[q].ringCharge
      BY <1>2, NoCallOK, HeldIs, Zenon
    <3>2. Held(queue[q], call[q]) = 0
      BY <1>2, <3>1
    <3> QED BY <3>2
  <2> QED BY <2>1, Zenon DEF Charged
<1>4. IsFiniteSet(Charged) /\ used = Cardinality(Charged)
  BY <1>1, <1>3, FS_EmptySet, Zenon
<1>5. queue \in [Queues -> Records] /\ call \in [Queues -> CallRecords]
  BY <1>1, <1>2, Zenon DEF CallRecords
<1>6. \A q \in Queues : RingOK(queue[q]) /\ CallOK(queue[q], call[q], now)
  BY <1>2, NoCallOK, Zenon
<1>7. now \in 0 .. MaxTime /\ used \in 0 .. GlobalLimit
  BY <1>1, BufferAssumption
<1> QED BY <1>4, <1>5, <1>6, <1>7, Zenon DEF StateInv

--------------------------------------------------------------------------------
(* The receivers. *)

ReceiverStates == Datagrams \union {"none", "waiting", "ended"}

\* A step that changes at most one queue, its token and its receiver.
LEMMA SignalMoves ==
  ASSUME SignalInv, NEW q \in Queues, hasData' \in [Queues -> BOOLEAN], receiver' \in [Queues -> ReceiverStates],
         \A p \in Queues : p # q => hasData'[p] = hasData[p] /\ receiver'[p] = receiver[p] /\ queue'[p] = queue[p],
         receiver'[q] = "waiting" /\ ~hasData'[q] => queue'[q].count = 0 /\ ~queue'[q].closed
  PROVE  SignalInv'
<1>1. ASSUME NEW p \in Queues, receiver'[p] = "waiting", ~hasData'[p]
      PROVE  queue'[p].count = 0 /\ ~queue'[p].closed
  <2>1. CASE p = q
    BY <1>1, <2>1, Zenon
  <2>2. CASE p # q
    <3>1. hasData'[p] = hasData[p] /\ receiver'[p] = receiver[p] /\ queue'[p] = queue[p]
      BY <2>2, Zenon
    <3> QED BY <1>1, <3>1, Zenon DEF SignalInv, NoReceiverForgotten
  <2> QED BY <2>1, <2>2, Zenon
<1> QED BY <1>1, Zenon DEF SignalInv, NoReceiverForgotten, ReceiverStates

\* A step of a queue that leaves the token and the receiver alone.
LEMMA SignalStays ==
  ASSUME StateInv, SignalInv, NEW q \in Queues, NEW Q, Sets(q, Q), UNCHANGED <<hasData, receiver>>,
         queue[q].count = 0 /\ ~queue[q].closed => Q.count = 0 /\ ~Q.closed
  PROVE  SignalInv'
<1>1. queue'[q] = Q /\ \A p \in Queues : p # q => queue'[p] = queue[p]
  BY Zenon DEF Sets, StateInv
<1>2. receiver[q] = "waiting" /\ ~hasData[q] => queue[q].count = 0 /\ ~queue[q].closed
  BY Zenon DEF SignalInv, NoReceiverForgotten
<1>3. hasData' \in [Queues -> BOOLEAN] /\ receiver' \in [Queues -> ReceiverStates]
  BY Zenon DEF SignalInv, ReceiverStates
<1> QED BY <1>1, <1>2, <1>3, SignalMoves, Zenon

\* A step of a queue that puts the token into the channel.
LEMMA SignalArrives ==
  ASSUME StateInv, SignalInv, NEW q \in Queues, NEW Q, Sets(q, Q), Signals(q), receiver' = receiver
  PROVE  SignalInv'
<1>1. queue'[q] = Q /\ \A p \in Queues : p # q => queue'[p] = queue[p]
  BY Zenon DEF Sets, StateInv
<1>2. hasData' \in [Queues -> BOOLEAN] /\ hasData'[q] /\ \A p \in Queues : p # q => hasData'[p] = hasData[p]
  BY Zenon DEF Signals, SignalInv
<1>3. receiver' \in [Queues -> ReceiverStates]
  BY Zenon DEF SignalInv, ReceiverStates
<1> QED BY <1>1, <1>2, <1>3, SignalMoves, Zenon

\* What the oldest entry is, and what is left when it is removed.
LEMMA HeadFacts ==
  ASSUME StateInv, NEW q \in Queues, queue[q].count > 0
  PROVE  /\ At(queue[q], 0) \in Entries /\ Contents(queue[q]) # <<>>
         /\ Head(Contents(queue[q])) = At(queue[q], 0)
         /\ Contents(Remove(queue[q])) = Tail(Contents(queue[q]))
         /\ Remove(queue[q]).burst = queue[q].burst /\ Remove(queue[q]).closed = queue[q].closed
<1>1. /\ RingOK(queue[q]) /\ queue[q].count \in Nat /\ \A i \in 0 .. queue[q].count - 1 : At(queue[q], i) \in Entries
  BY QueueFacts, Zenon DEF RingOK, Records
<1>2. At(queue[q], 0) \in Entries
  BY <1>1
<1>3. /\ Contents(queue[q]) \in Seq(Entries) /\ Len(Contents(queue[q])) = queue[q].count
      /\ \A i \in 1 .. queue[q].count : Contents(queue[q])[i] = At(queue[q], i - 1)
  BY <1>1, ContentsSeq, Zenon
<1>4. Contents(queue[q])[1] = At(queue[q], 0)
  BY <1>1, <1>3
<1>5. Contents(queue[q]) # <<>> /\ Head(Contents(queue[q])) = Contents(queue[q])[1]
  BY <1>1, <1>3
<1>6. /\ Contents(Remove(queue[q])) = Tail(Contents(queue[q]))
      /\ Remove(queue[q]).burst = queue[q].burst /\ Remove(queue[q]).closed = queue[q].closed
  BY <1>1, Removed, Zenon
<1> QED BY <1>2, <1>4, <1>5, <1>6, Zenon

\* Every step keeps the receivers' part of the invariant.
LEMMA SignalKeeps == ASSUME StateInv, SignalInv, [BufferNext]_bufferVars PROVE SignalInv'
<1> USE DEF SignalInv
<1>1. CASE UNCHANGED <<queue, hasData, receiver>>
  BY <1>1, Zenon DEF NoReceiverForgotten
<1>2. ASSUME NEW q \in Queues, PushReserves(q) PROVE SignalInv'
  <2>1. CASE queue[q].count = Len(queue[q].items)
    BY <1>1, <1>2, <2>1, Zenon DEF PushReserves
  <2>2. CASE queue[q].count # Len(queue[q].items)
    <3>1. Sets(q, Store(queue[q], Entry(q))) /\ Signals(q) /\ receiver' = receiver
      BY <1>2, <2>2, Zenon DEF PushReserves
    <3> QED BY <3>1, SignalArrives, Zenon
  <2> QED BY <2>1, <2>2, Zenon
<1>3. ASSUME NEW q \in Queues, PushCopies(q) PROVE SignalInv'
  <2>1. Sets(q, Store(Grown(queue[q]), Entry(q))) /\ Signals(q) /\ receiver' = receiver
    BY <1>3, Zenon DEF PushCopies
  <2> QED BY <2>1, SignalArrives, Zenon
<1>4. ASSUME NEW q \in Queues, CloseReceive(q) PROVE SignalInv'
  <2>1. /\ Sets(q, [NewQueue(queue[q].limit) EXCEPT !.burst = queue[q].burst, !.closed = TRUE])
        /\ Signals(q) /\ receiver' = receiver
    BY <1>4, Zenon DEF CloseReceive, ClosesLoudly
  <2> QED BY <2>1, SignalArrives, Zenon
<1>5. ASSUME NEW q \in Queues, EnablesBurst(q) PROVE SignalInv'
  <2>1. PICK Q : Q = [queue[q] EXCEPT !.limit = BurstPackets, !.burst = TRUE]
    BY Zenon
  <2>2. Sets(q, Q) /\ UNCHANGED <<hasData, receiver>>
    BY <1>5, <2>1, Zenon DEF EnablesBurst
  <2>3. queue[q] \in Records
    BY QueueFacts, Zenon DEF RingOK
  <2>4. Q.count = queue[q].count /\ Q.closed = queue[q].closed
    BY <2>1, <2>3, Zenon DEF Records
  <2> QED BY <2>2, <2>4, SignalStays, Zenon
<1>6. ASSUME NEW q \in Queues, Expires(q) PROVE SignalInv'
  <2>1. Sets(q, Remove(queue[q])) /\ UNCHANGED <<hasData, receiver>> /\ queue[q].count > 0
    BY <1>6, Zenon DEF Expires, StaleHead
  <2> QED BY <2>1, SignalStays, SMTT(30)
<1>7. ASSUME NEW q \in Queues, PopTakes(q) PROVE SignalInv'
  <2>1. /\ Sets(q, Remove(queue[q])) /\ hasData' = hasData /\ queue[q].count > 0
        /\ receiver' = [receiver EXCEPT ![q] = At(queue[q], 0).data]
    BY <1>7, Zenon DEF PopTakes
  <2>2. At(queue[q], 0).data \in Datagrams
    BY <2>1, HeadFacts, Zenon DEF Entries
  <2>3. receiver' \in [Queues -> ReceiverStates] /\ receiver'[q] # "waiting"
    BY <2>1, <2>2, BufferAssumption, Zenon DEF ReceiverStates
  <2>4. \A p \in Queues : p # q => queue'[p] = queue[p] /\ receiver'[p] = receiver[p]
    BY <2>1, Zenon DEF Sets, StateInv
  <2> QED BY <2>1, <2>3, <2>4, SignalMoves, Zenon
<1>8. ASSUME NEW q \in Queues, PopFindsNone(q) PROVE SignalInv'
  <2>1. /\ UNCHANGED <<hasData, queue>> /\ queue[q].count = 0
        /\ receiver' = [receiver EXCEPT ![q] = IF queue[q].closed THEN "ended" ELSE "waiting"]
    BY <1>8, Zenon DEF PopFindsNone
  <2>2. /\ receiver' \in [Queues -> ReceiverStates] /\ (receiver'[q] = "waiting" => ~queue[q].closed)
        /\ \A p \in Queues : p # q => receiver'[p] = receiver[p]
    BY <2>1, Zenon DEF ReceiverStates
  <2> QED BY <2>1, <2>2, SignalMoves, Zenon
<1>9. ASSUME NEW q \in Queues, TakesToken(q) PROVE SignalInv'
  <2>1. /\ hasData' = [hasData EXCEPT ![q] = FALSE] /\ receiver' = [receiver EXCEPT ![q] = "none"] /\ queue' = queue
    BY <1>9, Zenon DEF TakesToken
  <2>2. /\ receiver' \in [Queues -> ReceiverStates] /\ hasData' \in [Queues -> BOOLEAN] /\ receiver'[q] # "waiting"
        /\ \A p \in Queues : p # q => receiver'[p] = receiver[p] /\ hasData'[p] = hasData[p]
    BY <2>1, Zenon DEF ReceiverStates
  <2> QED BY <2>1, <2>2, SignalMoves, Zenon
<1>9a. ASSUME NEW q \in Queues, ContextDone(q) PROVE SignalInv'
  <2>1. UNCHANGED <<queue, hasData>> /\ receiver' = [receiver EXCEPT ![q] = "none"]
    BY <1>9a, Zenon DEF ContextDone
  <2>2. /\ receiver' \in [Queues -> ReceiverStates] /\ receiver'[q] # "waiting"
        /\ \A p \in Queues : p # q => receiver'[p] = receiver[p]
    BY <2>1, Zenon DEF ReceiverStates
  <2> QED BY <2>1, <2>2, SignalMoves, Zenon
<1>10. CASE Ticks \/ UNCHANGED bufferVars
  BY <1>1, <1>10, Zenon DEF Ticks, bufferVars
<1>11. ASSUME NEW q \in Queues, NEW d \in Datagrams, PushBegins(q, d) PROVE SignalInv'
  BY <1>1, <1>11, Zenon DEF PushBegins
<1>12. ASSUME NEW q \in Queues, PushDrops(q) \/ PushGrows(q) \/ PopBegins(q) PROVE SignalInv'
  BY <1>1, <1>12, Zenon DEF PushDrops, PushGrows, PopBegins
<1> QED BY <1>2, <1>3, <1>4, <1>5, <1>6, <1>7, <1>8, <1>9, <1>9a, <1>10, <1>11, <1>12, ZenonT(30) DEF BufferNext

--------------------------------------------------------------------------------
(* The invariant holds. *)

\* The invariant holds in every state: each ring holds what its counters say, `used` is
\* what all queues are charged for, and no receiver waits beside data or a closed queue
\* (Push, Pop, remove, expire, Close; ReceiveDatagram, enqueueDatagram, closeReceive).
THEOREM BufferInvariant == BufferSpec => []BufferInv
<1>1. BufferInit => BufferInv
  <2>1. BufferInit => SignalInv
    BY Zenon DEF BufferInit, SignalInv, NoReceiverForgotten
  <2> QED BY <2>1, StateStarts, Zenon DEF BufferInv
<1>2. BufferInv /\ [BufferNext]_bufferVars => BufferInv'
  <2> SUFFICES ASSUME StateInv, SignalInv, [BufferNext]_bufferVars PROVE StateInv'
    BY SignalKeeps, Zenon DEF BufferInv
  <2>1. CASE UNCHANGED bufferVars
    BY <2>1, StateRests, Zenon DEF bufferVars
  <2>2. CASE Ticks
    BY <2>2, TicksKeeps, Zenon
  <2>3. ASSUME NEW q \in Queues, NEW d \in Datagrams, PushBegins(q, d) PROVE StateInv'
    BY <2>3, PushBeginsKeeps, Zenon
  <2>4. ASSUME NEW q \in Queues, PushDrops(q) \/ PopFindsNone(q) PROVE StateInv'
    BY <2>4, ReturnsKeep, Zenon
  <2>5. ASSUME NEW q \in Queues, PushReserves(q) PROVE StateInv'
    BY <2>5, PushReservesKeeps, Zenon
  <2>6. ASSUME NEW q \in Queues, PushGrows(q) PROVE StateInv'
    BY <2>6, PushGrowsKeeps, Zenon
  <2>7. ASSUME NEW q \in Queues, PushCopies(q) PROVE StateInv'
    BY <2>7, PushCopiesKeeps, Zenon
  <2>8. ASSUME NEW q \in Queues, PopBegins(q) PROVE StateInv'
    BY <2>8, PopBeginsKeeps, Zenon
  <2>9. ASSUME NEW q \in Queues, PopTakes(q) PROVE StateInv'
    <3>1. /\ queue[q].count > 0 /\ Sets(q, Remove(queue[q])) /\ used' = used - Freed(queue[q]) /\ now' = now
          /\ call[q].step \in {"push", "pop"} /\ Calls(q, NoCall)
      BY <2>9, Zenon DEF PopTakes, Returns
    <3> QED BY <3>1, RemovalKeeps, Zenon
  <2>10. ASSUME NEW q \in Queues, Expires(q) PROVE StateInv'
    <3>1. /\ queue[q].count > 0 /\ Sets(q, Remove(queue[q])) /\ used' = used - Freed(queue[q]) /\ now' = now
          /\ call[q].step \in {"push", "pop"} /\ call' = call
      BY <2>10, Zenon DEF Expires, StaleHead
    <3>2. Calls(q, call[q])
      BY <3>1, QueueFacts, Zenon DEF Calls
    <3> QED BY <3>1, <3>2, RemovalKeeps, Zenon
  <2>11. ASSUME NEW q \in Queues, TakesToken(q) \/ ContextDone(q) PROVE StateInv'
    BY <2>11, StateRests, Zenon DEF TakesToken, ContextDone
  <2>12. ASSUME NEW q \in Queues, EnablesBurst(q) PROVE StateInv'
    BY <2>12, EnablesBurstKeeps, Zenon
  <2>13. ASSUME NEW q \in Queues, CloseReceive(q) PROVE StateInv'
    BY <2>13, CloseReceiveKeeps, Zenon
  <2> QED BY <2>1, <2>2, <2>3, <2>4, <2>5, <2>6, <2>7, <2>8, <2>9, <2>10, <2>11, <2>12, <2>13, Zenon DEF BufferNext
<1> QED BY <1>1, <1>2, PTL DEF BufferSpec

\* The budget never leaks and is never given back twice: `used` is exactly what the
\* payloads, the rings and the calls in progress are charged for, and every queue keeps
\* its limits (Push, remove, expire, Close).
THEOREM BudgetIsExact == BufferSpec => []BudgetExact
<1>1. BufferInv => BudgetExact
  <2> SUFFICES ASSUME BufferInv PROVE BufferTypeOK
    BY Zenon DEF BudgetExact, BufferInv, StateInv
  <2>1. /\ StateInv /\ hasData \in [Queues -> BOOLEAN]
        /\ receiver \in [Queues -> Datagrams \union {"none", "waiting", "ended"}]
    BY Zenon DEF BufferInv, SignalInv
  <2>2. ASSUME NEW Q, RingOK(Q)
        PROVE  /\ Q.count \in 0 .. Len(Q.items) /\ Q.count <= Q.limit
               /\ Q.head \in 0 .. Max({0, Len(Q.items) - 1})
               /\ Q.bytes \in 0 .. BurstBytes
               /\ \A i \in 1 .. Q.count : Contents(Q)[i] \in Entries
    <3>1. /\ Q.count \in Nat /\ Q.head \in Nat /\ Q.items \in Seq(Slots) /\ Q.head <= Len(Q.items)
          /\ (Q.items # <<>> => Q.head < Len(Q.items)) /\ Q.bytes \in Nat /\ Q.bytes <= BurstBytes
          /\ Q.count <= Len(Q.items) /\ Q.count <= Q.limit /\ BurstBytes \in Nat
      BY <2>2, BufferAssumption, Zenon DEF RingOK, Records
    <3>2. PICK n \in Nat : n = Len(Q.items) /\ Q.head <= n /\ (n > 0 => Q.head < n)
      BY <3>1
    <3>3. Max({0, n - 1}) = IF 0 >= n - 1 THEN 0 ELSE n - 1
      <4>1. 0 \in Int /\ n - 1 \in Int
        OBVIOUS
      <4> QED BY <4>1, MaxOfTwo, Zenon
    <3>4. Q.head \in 0 .. Max({0, n - 1})
      BY <3>1, <3>2, <3>3
    <3>5. \A i \in 1 .. Q.count : Contents(Q)[i] \in Entries
      <4>1. Contents(Q) \in Seq(Entries) /\ Len(Contents(Q)) = Q.count
        BY <2>2, <3>1, ContentsSeq, Zenon DEF RingOK
      <4> QED BY <4>1
    <3> QED BY <3>1, <3>2, <3>4, <3>5
  <2>3. \A q \in Queues : RingOK(queue[q]) /\ call[q] \in {NoCall} \union PushCalls \union PopCalls
    BY <2>1, Zenon DEF StateInv, CallOK, CallRecords
  <2>4. now \in 0 .. MaxTime /\ used \in 0 .. GlobalLimit
    BY <2>1, Zenon DEF StateInv
  <2>5. \A q \in Queues : receiver[q] \in Datagrams \union {"none", "waiting", "ended"}
    BY <2>1, Zenon
  <2> QED BY <2>1, <2>2, <2>3, <2>4, <2>5, Zenon DEF BufferTypeOK
<1> QED BY <1>1, BufferInvariant, PTL

\* No receiver sleeps beside a datagram or a closed queue without a token that will wake
\* it, whatever order the calls come in (enqueueDatagram, closeReceive, ReceiveDatagram).
THEOREM ReceiversRemembered == BufferSpec => []NoReceiverForgotten
<1>1. BufferInv => NoReceiverForgotten
  BY Zenon DEF BufferInv, SignalInv
<1> QED BY <1>1, BufferInvariant, PTL

--------------------------------------------------------------------------------
(* The promise: the queues as DatagramFifo sees them, and each step as a step of it. *)

Lists == [q \in Queues |-> Contents(queue[q])]
Bursts == {q \in Queues : queue[q].burst}
Opens == {q \in Queues : ~queue[q].closed}
Asking == [q \in Queues |-> IF call[q].step = "pop" THEN {call[q].at} ELSE {}]

\* A step of one ring.
LEMMA ListsMove ==
  ASSUME StateInv, NEW q \in Queues, NEW Q, Sets(q, Q), Q.burst = queue[q].burst, Q.closed = queue[q].closed
  PROVE  Lists' = [Lists EXCEPT ![q] = Contents(Q)] /\ Bursts' = Bursts /\ Opens' = Opens
<1>1. queue'[q] = Q /\ \A p \in Queues : p # q => queue'[p] = queue[p]
  BY Zenon DEF Sets, StateInv
<1>2. \A p \in Queues : queue'[p].burst = queue[p].burst /\ queue'[p].closed = queue[p].closed
  BY <1>1, Zenon
<1>3. Bursts' = Bursts /\ Opens' = Opens
  BY <1>2, Zenon DEF Bursts, Opens
<1>4. \A p \in Queues : Contents(queue'[p]) = IF p = q THEN Contents(Q) ELSE Contents(queue[p])
  BY <1>1, Zenon
<1>5. Lists' = [Lists EXCEPT ![q] = Contents(Q)]
  BY <1>4, Zenon DEF Lists
<1> QED BY <1>3, <1>5, Zenon

\* A step of one call.
LEMMA AskedMoves ==
  ASSUME StateInv, NEW q \in Queues, NEW c, Calls(q, c)
  PROVE  /\ Asking' = [Asking EXCEPT ![q] = IF c.step = "pop" THEN {c.at} ELSE {}]
         /\ call[q].step # "pop" /\ c.step # "pop" => Asking' = Asking
<1>1. call'[q] = c /\ \A p \in Queues : p # q => call'[p] = call[p]
  BY Zenon DEF Calls, StateInv
<1>2. Asking' = [Asking EXCEPT ![q] = IF c.step = "pop" THEN {c.at} ELSE {}]
  BY <1>1, Zenon DEF Asking
<1>3. ASSUME call[q].step # "pop", c.step # "pop" PROVE Asking' = Asking
  <2>1. Asking[q] = {} /\ Asking' = [Asking EXCEPT ![q] = {}]
    BY <1>2, <1>3, Zenon DEF Asking
  <2> QED BY <2>1, Zenon DEF Asking
<1> QED BY <1>2, <1>3, Zenon

\* Queues that rest, and calls that rest.
LEMMA MapsRest ==
  /\ queue' = queue => Lists' = Lists /\ Bursts' = Bursts /\ Opens' = Opens
  /\ call' = call => Asking' = Asking
BY Zenon  DEF Lists, Bursts, Opens, Asking

\* A step within a call of Push is no step of the promise.
LEMMA StepIsSilent ==
  ASSUME StateInv, UNCHANGED <<now, queue, receiver>>, Asking' = Asking
  PROVE  UNCHANGED Fifo!fifoVars
<1>1. Lists' = Lists /\ Bursts' = Bursts /\ Opens' = Opens
  BY MapsRest, Zenon
<1> QED BY <1>1, Zenon DEF Fifo!fifoVars, Lists, Bursts, Opens, Asking

\* Push stores the entry.
LEMMA StoreAccepts ==
  ASSUME StateInv, NEW q \in Queues, call[q].step \in {"push", "copy"}, NEW Q, Sets(q, Q), Calls(q, NoCall),
         Contents(Q) = Append(Contents(queue[q]), Entry(q)), Q.burst = queue[q].burst, Q.closed = queue[q].closed,
         UNCHANGED <<now, receiver>>
  PROVE  Entry(q) \in Fifo!Entries /\ Fifo!Accepts(q, Entry(q))
<1>1. Lists' = [Lists EXCEPT ![q] = Contents(Q)] /\ Bursts' = Bursts /\ Opens' = Opens
  BY ListsMove, Zenon
<1>2. Asking' = Asking
  BY AskedMoves, NoCallOK, Zenon
<1>3. Lists[q] = Contents(queue[q])
  BY Zenon DEF Lists
<1>4. Lists' = [Lists EXCEPT ![q] = Append(@, Entry(q))]
  BY <1>1, <1>3, Zenon
<1>5. Entry(q) \in Entries /\ Entry(q).at <= now /\ ~queue[q].closed
  BY EntryFacts, Zenon
<1>6. q \in Opens
  BY <1>5, Zenon DEF Opens
<1>7. Fifo!Accepts(q, Entry(q))
  BY <1>1, <1>2, <1>4, <1>5, <1>6, Zenon DEF Fifo!Accepts, Lists, Bursts, Opens, Asking
<1> QED BY <1>5, <1>7, Zenon DEF Fifo!Entries, Entries

\* expire drops the head.
LEMMA ExpiresDrops == ASSUME StateInv, NEW q \in Queues, Expires(q) PROVE Fifo!DropsStale(q)
<1>1. /\ Sets(q, Remove(queue[q])) /\ call' = call /\ UNCHANGED <<now, receiver>> /\ queue[q].count > 0
      /\ queue[q].burst /\ call[q].at - At(queue[q], 0).at > BurstAge /\ call[q].step \in {"push", "pop"}
  BY Zenon DEF Expires, StaleHead, Stale
<1>2. /\ At(queue[q], 0) \in Entries /\ Contents(queue[q]) # <<>>
      /\ Head(Contents(queue[q])) = At(queue[q], 0)
      /\ Contents(Remove(queue[q])) = Tail(Contents(queue[q]))
      /\ Remove(queue[q]).burst = queue[q].burst /\ Remove(queue[q]).closed = queue[q].closed
  BY <1>1, HeadFacts, Zenon
<1>3. Lists' = [Lists EXCEPT ![q] = Contents(Remove(queue[q]))] /\ Bursts' = Bursts /\ Opens' = Opens
  BY <1>1, <1>2, ListsMove, Zenon
<1>4. Lists[q] = Contents(queue[q]) /\ Asking' = Asking
  BY <1>1, MapsRest, Zenon DEF Lists
<1>5. Lists' = [Lists EXCEPT ![q] = Tail(@)]
  BY <1>2, <1>3, <1>4, Zenon
<1>6. now - At(queue[q], 0).at > BurstAge
  <2>1. call[q] \in CallRecords /\ call[q].at <= now /\ now \in Int
    BY <1>1, QueueFacts DEF CallOK
  <2>2. call[q].at \in Int
    BY <1>1, <2>1, CallFields, SMTT(30)
  <2>3. At(queue[q], 0).at \in Int /\ BurstAge \in Int
    BY <1>2, BufferAssumption DEF Entries
  <2> QED BY <1>1, <2>1, <2>2, <2>3, SMTT(30)
<1>7. q \in Bursts
  BY <1>1, Zenon DEF Bursts
<1>8. Fifo!Stale(q, Head(Lists[q]), now)
  BY <1>2, <1>4, <1>6, <1>7, Zenon DEF Fifo!Stale, Bursts
<1> QED BY <1>1, <1>2, <1>3, <1>4, <1>5, <1>8, Zenon DEF Fifo!DropsStale, Lists, Bursts, Opens, Asking

\* A receiver asks.
LEMMA PopBeginsAsks == ASSUME BufferInv, NEW q \in Queues, PopBegins(q) PROVE Fifo!Asks(q)
<1>1. /\ call[q] = NoCall /\ receiver[q] \in Datagrams \union {"none"} /\ Calls(q, [step |-> "pop", at |-> now])
      /\ UNCHANGED <<now, queue, receiver>> /\ StateInv
  BY Zenon DEF PopBegins, Idle, BufferInv
<1>2. Lists' = Lists /\ Bursts' = Bursts /\ Opens' = Opens
  BY <1>1, MapsRest, Zenon
<1>3. PICK c : c = [step |-> "pop", at |-> now]
  BY Zenon
<1>4. c.step = "pop" /\ c.at = now
  BY <1>3, Zenon
<1>5. Asking' = [Asking EXCEPT ![q] = {now}]
  BY <1>1, <1>3, <1>4, AskedMoves, Zenon
<1>6. Asking[q] = {}
  BY <1>1, NoCallOK, Zenon DEF Asking
<1>7. receiver[q] \notin {"waiting", "ended"}
  BY <1>1, BufferAssumption, Zenon
<1> QED BY <1>1, <1>2, <1>5, <1>6, <1>7, Zenon DEF Fifo!Asks, Lists, Bursts, Opens, Asking

\* The receiver gets the oldest entry.
LEMMA PopTakesHands == ASSUME BufferInv, NEW q \in Queues, PopTakes(q) PROVE Fifo!Hands(q)
<1>1. /\ Sets(q, Remove(queue[q])) /\ Calls(q, NoCall) /\ now' = now /\ queue[q].count > 0 /\ StateInv
      /\ receiver' = [receiver EXCEPT ![q] = At(queue[q], 0).data] /\ call[q].step = "pop"
      /\ ~(queue[q].burst /\ call[q].at - At(queue[q], 0).at > BurstAge)
  BY Zenon  DEF PopTakes, StaleHead, Stale, Returns, BufferInv
<1>2. /\ Contents(queue[q]) # <<>> /\ Head(Contents(queue[q])) = At(queue[q], 0)
      /\ Contents(Remove(queue[q])) = Tail(Contents(queue[q]))
      /\ Remove(queue[q]).burst = queue[q].burst /\ Remove(queue[q]).closed = queue[q].closed
  BY <1>1, HeadFacts, Zenon
<1>3. Lists' = [Lists EXCEPT ![q] = Contents(Remove(queue[q]))] /\ Bursts' = Bursts /\ Opens' = Opens
  BY <1>1, <1>2, ListsMove, Zenon
<1>4. Lists[q] = Contents(queue[q]) /\ Asking[q] = {call[q].at}
  BY <1>1, Zenon DEF Lists, Asking
<1>5. Lists' = [Lists EXCEPT ![q] = Tail(@)]
  BY <1>2, <1>3, <1>4, Zenon
<1>6. Asking' = [Asking EXCEPT ![q] = {}]
  BY <1>1, AskedMoves, NoCallOK, Zenon
<1>7. q \in Bursts <=> queue[q].burst
  BY Zenon  DEF Bursts
<1>8. ~Fifo!Stale(q, Head(Lists[q]), call[q].at)
  BY <1>1, <1>2, <1>4, <1>7, Zenon DEF Fifo!Stale, Bursts
<1>9. \E time \in Asking[q] : ~Fifo!Stale(q, Head(Lists[q]), time)
  BY <1>4, <1>8, Zenon
<1>10. receiver' = [receiver EXCEPT ![q] = Head(Lists[q]).data]
  BY <1>1, <1>2, <1>4, Zenon
<1> QED BY <1>1, <1>2, <1>3, <1>4, <1>5, <1>6, <1>9, <1>10, ZenonT(30) DEF Fifo!Hands, Lists, Bursts, Opens, Asking

\* The receiver finds nothing.
LEMMA PopFindsNoneHands == ASSUME BufferInv, NEW q \in Queues, PopFindsNone(q) PROVE Fifo!HandsNothing(q)
<1>1. /\ Calls(q, NoCall) /\ UNCHANGED <<now, queue>> /\ queue[q].count = 0 /\ call[q].step = "pop" /\ StateInv
      /\ receiver' = [receiver EXCEPT ![q] = IF queue[q].closed THEN "ended" ELSE "waiting"]
  BY Zenon DEF PopFindsNone, Returns, BufferInv
<1>2. Lists' = Lists /\ Bursts' = Bursts /\ Opens' = Opens
  BY <1>1, MapsRest, Zenon
<1>3. Lists[q] = <<>>
  <2>1. RingOK(queue[q])
    BY <1>1, QueueFacts, Zenon
  <2>2. Contents(queue[q]) \in Seq(Entries) /\ Len(Contents(queue[q])) = 0
    BY <1>1, <2>1, ContentsSeq, Zenon DEF RingOK, Records
  <2>3. Contents(queue[q]) = <<>>
    BY <2>2
  <2> QED BY <2>3, Zenon DEF Lists
<1>4. Asking[q] # {} /\ Asking' = [Asking EXCEPT ![q] = {}]
  <2>1. Asking[q] = {call[q].at}
    BY <1>1, Zenon DEF Asking
  <2>2. Asking' = [Asking EXCEPT ![q] = {}]
    BY <1>1, AskedMoves, NoCallOK, Zenon
  <2> QED BY <2>1, <2>2, Zenon
<1>5. receiver' = [receiver EXCEPT ![q] = IF q \in Opens THEN "waiting" ELSE "ended"]
  <2>1. q \in Opens <=> ~queue[q].closed
    BY Zenon DEF Opens
  <2> QED BY <1>1, <2>1, Zenon
<1> QED BY <1>1, <1>2, <1>3, <1>4, <1>5, Zenon DEF Fifo!HandsNothing, Lists, Bursts, Opens, Asking

\* A queue enters burst mode.
LEMMA EnablesBurstEnters == ASSUME BufferInv, NEW q \in Queues, EnablesBurst(q) PROVE Fifo!EntersBurst(q)
<1>1. /\ Sets(q, [queue[q] EXCEPT !.limit = BurstPackets, !.burst = TRUE]) /\ UNCHANGED <<now, call, receiver>>
      /\ StateInv /\ queue[q] \in Records
  BY QueueFacts, Zenon DEF EnablesBurst, BufferInv, RingOK
<1>2. PICK Q : Q = [queue[q] EXCEPT !.limit = BurstPackets, !.burst = TRUE]
  BY Zenon
<1>3. /\ Q.burst /\ Q.closed = queue[q].closed /\ Q.count = queue[q].count
      /\ Q.items = queue[q].items /\ Q.head = queue[q].head
  BY <1>1, <1>2, Zenon DEF Records
<1>4. queue'[q] = Q /\ \A p \in Queues : p # q => queue'[p] = queue[p]
  BY <1>1, <1>2, Zenon DEF Sets, StateInv
<1>5. Contents(Q) = Contents(queue[q])
  BY <1>3, Zenon DEF Contents, At
<1>6. Lists' = Lists
  <2>1. \A p \in Queues : Contents(queue'[p]) = Contents(queue[p])
    BY <1>4, <1>5, Zenon
  <2> QED BY <2>1, Zenon DEF Lists
<1>7. Bursts' = Bursts \union {q}
  BY <1>3, <1>4, Zenon DEF Bursts
<1>8. Opens' = Opens
  <2>1. \A p \in Queues : queue'[p].closed = queue[p].closed
    BY <1>3, <1>4, Zenon
  <2> QED BY <2>1, Zenon DEF Opens
<1>9. Asking' = Asking
  BY <1>1, MapsRest, Zenon
<1> QED BY <1>1, <1>6, <1>7, <1>8, <1>9, Zenon DEF Fifo!EntersBurst, Lists, Bursts, Opens, Asking

\* A queue is shut and emptied.
LEMMA CloseReceiveShuts == ASSUME BufferInv, NEW q \in Queues, CloseReceive(q) PROVE Fifo!Shuts(q)
<1>1. /\ Sets(q, [NewQueue(queue[q].limit) EXCEPT !.burst = queue[q].burst, !.closed = TRUE])
      /\ UNCHANGED <<now, call, receiver>> /\ StateInv /\ RingOK(queue[q])
  BY QueueFacts, Zenon DEF CloseReceive, BufferInv
<1>2. PICK Q : Q = [NewQueue(queue[q].limit) EXCEPT !.burst = queue[q].burst, !.closed = TRUE]
  BY Zenon
<1>3. Q.burst = queue[q].burst /\ Q.closed /\ Contents(Q) = <<>>
  <2>1. queue[q].limit \in Nat /\ queue[q].limit <= BurstPackets /\ queue[q].burst \in BOOLEAN
    BY <1>1, Zenon DEF RingOK, Records
  <2>2. Q = [items |-> <<>>, head |-> 0, count |-> 0, bytes |-> 0, ringCharge |-> 0,
             limit |-> queue[q].limit, burst |-> queue[q].burst, closed |-> TRUE]
    BY <1>2, Zenon DEF NewQueue
  <2>3. Q \in Records
    BY <2>1, <2>2 DEF Records
  <2>4. /\ Q.items = <<>> /\ Q.head = 0 /\ Q.count = 0 /\ Q.bytes = 0 /\ Q.limit = queue[q].limit
        /\ Q.burst = queue[q].burst /\ Q.closed
    BY <2>2, Zenon
  <2> QED BY <2>1, <2>3, <2>4, EmptyQueue, Zenon
<1>4. queue'[q] = Q /\ \A p \in Queues : p # q => queue'[p] = queue[p]
  BY <1>1, <1>2, Zenon DEF Sets, StateInv
<1>5. Lists' = [Lists EXCEPT ![q] = <<>>]
  <2>1. \A p \in Queues : Contents(queue'[p]) = IF p = q THEN <<>> ELSE Contents(queue[p])
    BY <1>3, <1>4, Zenon
  <2> QED BY <2>1, Zenon DEF Lists
<1>6. Bursts' = Bursts
  <2>1. \A p \in Queues : queue'[p].burst = queue[p].burst
    BY <1>3, <1>4, Zenon
  <2> QED BY <2>1, Zenon DEF Bursts
<1>7. Opens' = Opens \ {q}
  BY <1>3, <1>4, Zenon DEF Opens
<1>8. Asking' = Asking
  BY <1>1, MapsRest, Zenon
<1> QED BY <1>1, <1>5, <1>6, <1>7, <1>8, Zenon DEF Fifo!Shuts, Lists, Bursts, Opens, Asking

\* Every step of the queues is a step of the promise, or none.
LEMMA StepImplements ==
  ASSUME BufferInv, [BufferNext]_bufferVars
  PROVE  [Fifo!FifoNext]_Fifo!fifoVars
<1>1. StateInv
  BY Zenon DEF BufferInv
<1>2. CASE UNCHANGED bufferVars
  <2>1. UNCHANGED <<now, queue, receiver>> /\ Asking' = Asking
    BY <1>2, MapsRest, Zenon DEF bufferVars
  <2> QED BY <1>1, <2>1, StepIsSilent, Zenon
<1>3. CASE Ticks
  <2>1. now' = now + 1 /\ receiver' = receiver /\ Lists' = Lists /\ Bursts' = Bursts /\ Opens' = Opens /\ Asking' = Asking
    BY <1>3, MapsRest, Zenon DEF Ticks
  <2>2. Fifo!Ages
    BY <2>1, Zenon DEF Fifo!Ages, Lists, Bursts, Opens, Asking
  <2> QED BY <2>2, Zenon DEF Fifo!FifoNext
<1>4. ASSUME NEW q \in Queues, NEW d \in Datagrams, PushBegins(q, d) PROVE UNCHANGED Fifo!fifoVars
  <2>1. PICK c : c = [step |-> "push", data |-> d, at |-> now]
    BY Zenon
  <2>2. c.step # "pop"
    BY <2>1, Zenon
  <2>3. UNCHANGED <<now, queue, receiver>> /\ Calls(q, c) /\ call[q].step # "pop"
    BY <1>4, <2>1, NoCallOK, Zenon DEF PushBegins, Idle
  <2>4. Asking' = Asking
    BY <1>1, <2>2, <2>3, AskedMoves, Zenon
  <2> QED BY <1>1, <2>3, <2>4, StepIsSilent, Zenon
<1>5. ASSUME NEW q \in Queues, PushDrops(q) PROVE UNCHANGED Fifo!fifoVars
  <2>1. UNCHANGED <<now, queue, receiver>> /\ Calls(q, NoCall) /\ call[q].step # "pop"
    BY <1>5, Zenon DEF PushDrops, Returns
  <2>2. Asking' = Asking
    BY <1>1, <2>1, AskedMoves, NoCallOK, Zenon
  <2> QED BY <1>1, <2>1, <2>2, StepIsSilent, Zenon
<1>6. ASSUME NEW q \in Queues, NEW step \in {"grow", "copy"}, Calls(q, [call[q] EXCEPT !.step = step]),
             call[q].step \in {"push", "grow"}
      PROVE  Asking' = Asking
  <2>1. PICK c : c = [call[q] EXCEPT !.step = step]
    BY Zenon
  <2>2. call[q] \in PushCalls
    BY <1>1, <1>6, EntryFacts, Zenon
  <2>3. c.step # "pop"
    BY <2>1, <2>2, Zenon DEF PushCalls
  <2> QED BY <1>1, <1>6, <2>1, <2>3, AskedMoves, Zenon
<1>7. ASSUME NEW q \in Queues, PushGrows(q) PROVE UNCHANGED Fifo!fifoVars
  <2>1. /\ UNCHANGED <<now, queue, receiver>> /\ call[q].step = "grow"
        /\ Calls(q, [call[q] EXCEPT !.step = "copy"]) \/ Calls(q, NoCall)
    BY <1>7, Zenon DEF PushGrows, Returns
  <2>2. Calls(q, NoCall) => Asking' = Asking
    BY <1>1, <2>1, AskedMoves, NoCallOK, Zenon
  <2>3. Asking' = Asking
    BY <1>6, <2>1, <2>2, Zenon
  <2> QED BY <1>1, <2>1, <2>3, StepIsSilent, Zenon
<1>8. ASSUME NEW q \in Queues, PushReserves(q), queue[q].count = Len(queue[q].items) PROVE UNCHANGED Fifo!fifoVars
  <2>1. /\ UNCHANGED <<now, queue, receiver>> /\ call[q].step = "push" /\ Calls(q, [call[q] EXCEPT !.step = "grow"])
    BY <1>8, Zenon DEF PushReserves
  <2>2. Asking' = Asking
    BY <1>6, <2>1, Zenon
  <2> QED BY <1>1, <2>1, <2>2, StepIsSilent, Zenon
<1>9. ASSUME NEW q \in Queues, PushReserves(q), queue[q].count # Len(queue[q].items)
      PROVE  \E e \in Fifo!Entries : Fifo!Accepts(q, e)
  <2>1. /\ UNCHANGED <<now, receiver>> /\ call[q].step \in {"push", "copy"} /\ Calls(q, NoCall)
        /\ Sets(q, Store(queue[q], Entry(q))) /\ ~Full(queue[q], Size[call[q].data])
    BY <1>9, Zenon DEF PushReserves, Returns
  <2>2. PICK Q : Q = Store(queue[q], Entry(q))
    BY Zenon
  <2>3. RingOK(queue[q]) /\ Entry(q) \in Entries /\ Entry(q).data = call[q].data /\ Size[call[q].data] \in Nat
    BY <1>1, <2>1, QueueFacts, EntryFacts, Zenon
  <2>4. /\ queue[q].count < Len(queue[q].items) /\ queue[q].count < queue[q].limit
        /\ queue[q].bytes + Size[Entry(q).data] <= BurstBytes
    <3>1. /\ queue[q].count \in Int /\ queue[q].limit \in Int /\ queue[q].bytes \in Int /\ Len(queue[q].items) \in Int
          /\ queue[q].count <= Len(queue[q].items) /\ BurstBytes \in Int
      BY <2>3, RingNumbers, Zenon
    <3> QED BY <1>9, <2>1, <2>3, <3>1, SMTT(30) DEF Full
  <2>5. Contents(Q) = Append(Contents(queue[q]), Entry(q)) /\ Q.burst = queue[q].burst /\ Q.closed = queue[q].closed
    BY <2>2, <2>3, <2>4, Stored, Zenon
  <2>6. Entry(q) \in Fifo!Entries /\ Fifo!Accepts(q, Entry(q))
    BY <1>1, <2>1, <2>2, <2>5, StoreAccepts, Zenon
  <2> QED BY <2>6, Zenon
<1>10. ASSUME NEW q \in Queues, PushCopies(q) PROVE \E e \in Fifo!Entries : Fifo!Accepts(q, e)
  <2>1. /\ UNCHANGED <<now, receiver>> /\ call[q].step = "copy" /\ Calls(q, NoCall)
        /\ Sets(q, Store(Grown(queue[q]), Entry(q)))
    BY <1>10, Zenon DEF PushCopies, Returns
  <2>2. PICK Q : /\ Q = Store(Grown(queue[q]), Entry(q))
                 /\ Contents(Q) = Append(Contents(queue[q]), Entry(q))
                 /\ Q.burst = queue[q].burst /\ Q.closed = queue[q].closed
    BY <1>1, <2>1, CopiedQueue, Zenon
  <2>3. Entry(q) \in Fifo!Entries /\ Fifo!Accepts(q, Entry(q))
    <3>1. call[q].step \in {"push", "copy"} /\ Sets(q, Q)
      BY <2>1, <2>2, Zenon
    <3> QED BY <1>1, <2>1, <2>2, <3>1, StoreAccepts, Zenon
  <2> QED BY <2>3, Zenon
<1>11. ASSUME NEW q \in Queues, TakesToken(q) \/ ContextDone(q) PROVE Fifo!AsksAgain(q)
  <2>1. /\ receiver[q] = "waiting" /\ receiver' = [receiver EXCEPT ![q] = "none"] /\ now' = now
        /\ Lists' = Lists /\ Bursts' = Bursts /\ Opens' = Opens /\ Asking' = Asking
    BY <1>11, MapsRest, Zenon DEF TakesToken, ContextDone
  <2> QED BY <2>1, Zenon DEF Fifo!AsksAgain, Lists, Bursts, Opens, Asking
<1>12. ASSUME NEW q \in Queues,
              \/ PopBegins(q) \/ PopTakes(q) \/ PopFindsNone(q) \/ Expires(q) \/ TakesToken(q) \/ ContextDone(q)
              \/ EnablesBurst(q) \/ CloseReceive(q)
       PROVE  \/ Fifo!Asks(q) \/ Fifo!Hands(q) \/ Fifo!HandsNothing(q) \/ Fifo!DropsStale(q)
              \/ Fifo!AsksAgain(q) \/ Fifo!EntersBurst(q) \/ Fifo!Shuts(q)
  BY <1>1, <1>11, <1>12, PopBeginsAsks, PopTakesHands, PopFindsNoneHands, ExpiresDrops,
     EnablesBurstEnters, CloseReceiveShuts, Zenon
<1>13. ASSUME NEW q \in Queues, PushReserves(q)
       PROVE  UNCHANGED Fifo!fifoVars \/ \E e \in Fifo!Entries : Fifo!Accepts(q, e)
  BY <1>8, <1>9, <1>13, Zenon
<1> QED BY <1>2, <1>3, <1>4, <1>5, <1>7, <1>10, <1>12, <1>13, Zenon DEF BufferNext, Fifo!FifoNext

\* The ring buffers keep the promise of a queue: accepted datagrams come out in order, each
\* at most once, none that was stale when its receiver asked, and only stale ones or those of
\* a closed queue are lost (Push, expire, remove, Pop, Close; ReceiveDatagram).
THEOREM BufferImplementsFifo == BufferSpec => ImplementsFifo
<1>1. BufferInit => Fifo!FifoInit
  <2> SUFFICES ASSUME BufferInit PROVE Fifo!FifoInit
    BY Zenon
  <2>1. /\ now = 0 /\ queue = [q \in Queues |-> NewQueue(DefaultLimit[q])] /\ call = [q \in Queues |-> NoCall]
        /\ receiver = [q \in Queues |-> "none"]
    BY Zenon DEF BufferInit
  <2>2. ASSUME NEW q \in Queues PROVE ~queue[q].burst /\ ~queue[q].closed /\ Contents(queue[q]) = <<>> /\ call[q].step # "pop"
    <3>1. queue[q] = NewQueue(DefaultLimit[q]) /\ call[q] = NoCall
      BY <2>1, Zenon
    <3>2. queue[q].count = 0 /\ ~queue[q].burst /\ ~queue[q].closed
      BY <3>1 DEF NewQueue
    <3>3. Contents(queue[q]) \in Seq(Entries) /\ Len(Contents(queue[q])) = 0
      BY <3>2, ContentsSeq
    <3> QED BY <3>1, <3>2, <3>3, NoCallOK
  <2>3. Lists = [q \in Queues |-> <<>>] /\ Bursts = {} /\ Opens = Queues /\ Asking = [q \in Queues |-> {}]
    BY <2>2, Zenon DEF Lists, Bursts, Opens, Asking
  <2> QED BY <2>1, <2>3, Zenon DEF Fifo!FifoInit, Lists, Bursts, Opens, Asking
<1>2. BufferInv /\ [BufferNext]_bufferVars => [Fifo!FifoNext]_Fifo!fifoVars
  BY StepImplements, Zenon
<1> QED BY <1>1, <1>2, BufferInvariant, PTL DEF BufferSpec, ImplementsFifo, Fifo!FifoSpec

================================================================================
