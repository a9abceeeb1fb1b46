---------------------------- MODULE AlgorithmProofs ----------------------------
(***************************************************************************)
(* The operators without state, for every input: the groups of an access     *)
(* file in order, the judgement of an address, Start's measure of an         *)
(* advertisement, and the codec of its group list.                           *)
(*                                                                         *)
(* What a recursive definition computes is proved by induction on sets of    *)
(* numbers: Induction and InductionTo take the set where a fact holds, and   *)
(* Recursion and RecursionTo give the function that a definition names.      *)
(***************************************************************************)
EXTENDS ServerStart, DiscoveryCodec, WellFoundedInduction, FiniteSetTheorems, TLAPS

--------------------------------------------------------------------------------
(* Order. *)

\* A set of numbers that is not empty has a least one.
LEMMA Least ==
  ASSUME NEW S \in SUBSET Nat, S # {}
  PROVE  \E m \in S : \A n \in S : m <= n
<1>1. PICK m \in S : \A n \in S : <<n, m>> \notin OpToRel(<, Nat)
  <2> DEFINE R == OpToRel(<, Nat)
  <2>1. IsWellFoundedOn(R, Nat)
    BY NatLessThanWellFounded, Zenon
  <2> HIDE DEF R
  <2>2. \E x \in S : \A y \in S : ~(<<y, x>> \in R)
    BY <2>1, WFMin, Zenon
  <2> QED BY <2>2, Zenon DEF R
<1>2. \A n \in S : ~(n < m)
  BY <1>1, Zenon DEF OpToRel
<1> QED BY <1>2

Enumerates(e, k, T) ==
  /\ e \in [1 .. k -> T]
  /\ \A t \in T : \E i \in 1 .. k : e[i] = t
  /\ \A i, j \in 1 .. k : i < j => e[i] < e[j]

\* A finite set of numbers can be written in increasing order.
LEMMA Enumerable ==
  ASSUME NEW T \in SUBSET Nat, IsFiniteSet(T)
  PROVE  \E e : Enumerates(e, Cardinality(T), T)
<1> DEFINE Bad == {k \in Nat : \E U \in SUBSET Nat : IsFiniteSet(U) /\ Cardinality(U) = k /\ ~\E e : Enumerates(e, k, U)}
<1>1. ASSUME Bad # {} PROVE FALSE
  <2>1. PICK k \in Bad : \A n \in Bad : k <= n
    BY <1>1, Least, Zenon
  <2>2. PICK U \in SUBSET Nat : IsFiniteSet(U) /\ Cardinality(U) = k /\ ~\E e : Enumerates(e, k, U)
    BY <2>1
  <2>3. k \in Nat
    BY <2>1
  <2>4. U # {}
    <3>1. SUFFICES ASSUME U = {} PROVE FALSE
      OBVIOUS
    <3>2. k = 0
      BY <3>1, <2>2, FS_EmptySet
    <3>3. Enumerates([i \in 1 .. 0 |-> 0], k, U)
      BY <3>1, <3>2 DEF Enumerates
    <3> QED BY <3>3, <2>2
  <2>5. PICK m \in U : \A n \in U : m <= n
    BY <2>4, Least
  <2>6. IsFiniteSet(U \ {m}) /\ Cardinality(U \ {m}) = k - 1
    BY <2>2, FS_RemoveElement
  <2>7. k - 1 \in Nat
    BY <2>6, FS_CardinalityType
  <2>8. k - 1 \notin Bad
    BY <2>1, <2>3
  <2>9. PICK d : Enumerates(d, k - 1, U \ {m})
    BY <2>6, <2>7, <2>8
  <2> DEFINE e == [i \in 1 .. k |-> IF i = 1 THEN m ELSE d[i - 1]]
  <2>10. Enumerates(e, k, U)
    <3>1. e \in [1 .. k -> U]
      BY <2>3, <2>7, <2>9 DEF Enumerates
    <3>2. ASSUME NEW t \in U PROVE \E i \in 1 .. k : e[i] = t
      <4>1. CASE t = m
        BY <4>1, <2>3, <2>7
      <4>2. CASE t # m
        <5>1. PICK i \in 1 .. k - 1 : d[i] = t
          BY <4>2, <2>9 DEF Enumerates
        <5> QED BY <5>1, <2>3, <2>7
      <4> QED BY <4>1, <4>2
    <3>3. ASSUME NEW i \in 1 .. k, NEW j \in 1 .. k, i < j PROVE e[i] < e[j]
      <4>1. j - 1 \in 1 .. k - 1 /\ e[j] = d[j - 1] /\ d[j - 1] \in U \ {m}
        BY <3>3, <2>3, <2>9 DEF Enumerates
      <4>2. CASE i = 1
        <5>1. e[i] = m /\ m \in Nat /\ d[j - 1] \in Nat /\ d[j - 1] # m /\ m <= d[j - 1]
          BY <4>1, <4>2, <2>5, Zenon
        <5> QED BY <4>1, <5>1
      <4>3. CASE i # 1
        BY <4>1, <4>3, <3>3, <2>3, <2>9 DEF Enumerates
      <4> QED BY <4>2, <4>3
    <3> QED BY <3>1, <3>2, <3>3 DEF Enumerates
  <2> QED BY <2>2, <2>10
<1>2. Cardinality(T) \in Nat
  BY FS_CardinalityType
<1> QED BY <1>1, <1>2

\* The groups of a valid file can be sorted, and Sorted names the result.
LEMMA SortedGroups ==
  ASSUME NEW groups \in Seq(Nat), Cardinality(Range(groups)) = Len(groups)
  PROVE  /\ Sorted(groups) \in [1 .. Len(groups) -> Range(groups)]
         /\ Range(Sorted(groups)) = Range(groups)
         /\ \A i, j \in 1 .. Len(groups) : i < j => Sorted(groups)[i] < Sorted(groups)[j]
<1> DEFINE n == Len(groups)
<1>0. DOMAIN groups = 1 .. n /\ n \in Nat /\ \A i \in 1 .. n : groups[i] \in Nat
  OBVIOUS
<1> HIDE DEF n
<1>1. (\A i \in 1 .. n : groups[i] \in Range(groups)) /\ \A t \in Range(groups) : \E i \in 1 .. n : groups[i] = t
  BY <1>0, Zenon DEF Range
<1> DEFINE T == Range(groups)
           P(s) == Range(s) = T /\ \A i, j \in DOMAIN s : i < j => s[i] < s[j]
<1> HIDE DEF T
<1>2. T \in SUBSET Nat /\ IsFiniteSet(T)
  <2>1. groups \in Seq(T)
    BY <1>0, <1>1 DEF T, n
  <2>2. T \in SUBSET Nat
    BY <1>0, <1>1, Zenon DEF T
  <2> QED BY <1>1, <2>1, <2>2, Zenon DEF IsFiniteSet, T, n
<1>3. PICK e : Enumerates(e, n, T)
  <2>1. Cardinality(T) = n
    BY Zenon DEF T, n
  <2> QED BY <1>2, <2>1, Enumerable, Zenon
<1>4. e \in [1 .. n -> T] /\ P(e)
  <2>1. e \in [1 .. n -> T] /\ DOMAIN e = 1 .. n
    BY <1>3, Zenon DEF Enumerates
  <2>2. Range(e) = T
    BY <2>1, <1>3, Zenon DEF Enumerates, Range
  <2> QED BY <2>1, <2>2, <1>3, Zenon DEF Enumerates
<1>5. Sorted(groups) = CHOOSE s \in [1 .. n -> T] : P(s)
  BY Zenon DEF Sorted, T, n
<1>6. Sorted(groups) \in [1 .. n -> T] /\ P(Sorted(groups))
  <2> HIDE DEF P
  <2> QED BY <1>4, <1>5, Zenon
<1>7. DOMAIN Sorted(groups) = 1 .. n
  BY <1>6, Zenon
<1> QED BY <1>6, <1>7, Zenon DEF T, n

--------------------------------------------------------------------------------
(* Addresses. *)

\* What the code refuses: the registry's blocks and 192.0.0.0/16.
Refused(n) == SpecialPurpose(n) \/ ProtocolBlock(n)

\* These blocks by the octets of their addresses.
LEMMA RefusedBlocks ==
  ASSUME NEW o \in Octets
  PROVE  /\ PrivateOrLoopback(NetOf(o)) <=> Private(o) \/ Loopback(o)
         /\ Between(Net(100, 64, 0), NetOf(o), Net(100, 127, 255)) <=> SharedSpace(o)
         /\ Refused(NetOf(o)) <=> Private(o) \/ Loopback(o) \/ LinkLocal(o) \/ SpecialOctets(o)
<1> DEFINE p == o[1]  q == o[2]  r == o[3]
<1>0. p \in Nat /\ p <= 255 /\ q \in Nat /\ q <= 255 /\ r \in Nat /\ r <= 255
  BY DEF Octets
<1>1. /\ Private(o) <=> p = 10 \/ (p = 172 /\ Between(16, q, 31)) \/ (p = 192 /\ q = 168)
      /\ Loopback(o) <=> p = 127
      /\ LinkLocal(o) <=> p = 169 /\ q = 254
      /\ SharedSpace(o) <=> p = 100 /\ Between(64, q, 127)
      /\ NetOf(o) = Net(p, q, r)
  BY DEF Private, Loopback, LinkLocal, SharedSpace, NetOf
<1>2. SpecialOctets(o) <=>
        \/ p = 0 \/ p >= 224 \/ (p = 100 /\ Between(64, q, 127)) \/ (p = 192 /\ q = 0)
        \/ p = 198 /\ (q \in {18, 19} \/ (q = 51 /\ r = 100))
        \/ p = 203 /\ q = 0 /\ r = 113
  BY DEF SpecialOctets, SharedSpace
<1> HIDE DEF p, q, r
<1>3. PrivateOrLoopback(Net(p, q, r)) <=>
        p = 10 \/ p = 127 \/ (p = 172 /\ Between(16, q, 31)) \/ (p = 192 /\ q = 168)
  BY <1>0 DEF PrivateOrLoopback, Net, Between
<1>4. Refused(Net(p, q, r)) <=>
        \/ PrivateOrLoopback(Net(p, q, r))
        \/ p = 0 \/ p >= 224 \/ (p = 100 /\ Between(64, q, 127)) \/ (p = 192 /\ q = 0)
        \/ p = 198 /\ (q \in {18, 19} \/ (q = 51 /\ r = 100))
        \/ p = 203 /\ q = 0 /\ r = 113
        \/ p = 169 /\ q = 254
  BY <1>0 DEF Refused, SpecialPurpose, ProtocolBlock, Net, Between
<1>5. Between(Net(100, 64, 0), Net(p, q, r), Net(100, 127, 255)) <=> p = 100 /\ Between(64, q, 127)
  BY <1>0 DEF Net, Between
<1> QED BY <1>1, <1>2, <1>3, <1>4, <1>5

\* The kinds of an IPv4 address, however it is written.
LEMMA V4Kinds ==
  ASSUME NEW o, NEW m \in BOOLEAN
  PROVE  /\ Unmap(V4(o, m)) = V4(o, FALSE) /\ V4(o, m).family = 4 /\ V4(o, m).octets = o
         /\ Is4(V4(o, FALSE))
         /\ Is(V4(o, m), "unspecified") <=> Unspecified(o) /\ ~m
         /\ Is(V4(o, m), "loopback") <=> Loopback(o)
         /\ Is(V4(o, m), "multicast") <=> Multicast(o)
         /\ Is(V4(o, m), "link-local") <=> LinkLocal(o)
         /\ Is(V4(o, m), "private") <=> Private(o)
<1>1. V4(o, m).family = 4 /\ V4(o, m).octets = o /\ V4(o, m).mapped = m
  BY Zenon DEF V4
<1>2. Unmap(V4(o, m)) = V4(o, FALSE) /\ Is4(V4(o, FALSE))
  BY Zenon DEF V4, Unmap, Is4
<1>3. ASSUME NEW kind PROVE Is(V4(o, m), kind) <=> V4Kind(o, kind) /\ (kind = "unspecified" => ~m)
  BY <1>1, Zenon DEF Is
<1>4. /\ V4Kind(o, "unspecified") <=> Unspecified(o)
      /\ V4Kind(o, "loopback") <=> Loopback(o)
      /\ V4Kind(o, "multicast") <=> Multicast(o)
      /\ V4Kind(o, "link-local") <=> LinkLocal(o)
      /\ V4Kind(o, "private") <=> Private(o)
  BY Zenon DEF V4Kind
<1> QED BY <1>1, <1>2, <1>3, <1>4, Zenon

\* publiclyRoutable on an IPv4 address, however it is written.
LEMMA RoutableV4 ==
  ASSUME NEW o \in Octets, NEW m \in BOOLEAN
  PROVE  publiclyRoutable(V4(o, m)) <=> ~Refused(NetOf(o))
<1>1. publiclyRoutable(V4(o, m)) <=>
        /\ ~Unspecified(o) /\ ~Loopback(o) /\ ~Multicast(o) /\ ~LinkLocal(o) /\ ~Private(o)
        /\ ~SpecialOctets(o)
  <2>1. /\ Unmap(V4(o, m)) = V4(o, FALSE) /\ V4(o, FALSE).family # 6 /\ V4(o, FALSE).octets = o
        /\ Is4(V4(o, FALSE))
    <3>1. V4(o, FALSE).family = 4 /\ 4 # 6
      BY V4Kinds, 4 # 6, Zenon
    <3> QED BY <3>1, V4Kinds, Zenon
  <2> DEFINE a == V4(o, FALSE)
  <2>2. publiclyRoutable(V4(o, m)) <=>
          /\ \A kind \in {"unspecified", "loopback", "multicast", "link-local", "private"} : ~Is(a, kind)
          /\ ~SpecialOctets(o)
    BY <2>1, Zenon DEF publiclyRoutable
  <2>3. (\A kind \in {"unspecified", "loopback", "multicast", "link-local", "private"} : ~Is(a, kind)) <=>
          ~Unspecified(o) /\ ~Loopback(o) /\ ~Multicast(o) /\ ~LinkLocal(o) /\ ~Private(o)
    BY V4Kinds, Zenon
  <2> QED BY <2>2, <2>3, Zenon
<1>2. Unspecified(o) => SpecialOctets(o)
  BY DEF Unspecified, SpecialOctets
<1>3. Multicast(o) => SpecialOctets(o)
  BY DEF Multicast, SpecialOctets, Octets, Between
<1> QED BY <1>1, <1>2, <1>3, RefusedBlocks, Zenon

\* Where a target may be forwarded to, whatever the way it and the exception are written.
AllowedAt(o, mo, x, mx, private) ==
  targetAllowed([address |-> V4(o, mo), port |-> 1], {[address |-> V4(x, mx), port |-> 1]}, private) <=>
    \/ ~Refused(NetOf(o))
    \/ PrivateOrLoopback(NetOf(o)) /\ (private \/ o = x)

\* Every target may be forwarded to or not by where it is.
LEMMA AllowedV4 ==
  ASSUME NEW o \in Octets, NEW x \in Octets, NEW mo \in BOOLEAN, NEW mx \in BOOLEAN, NEW private \in BOOLEAN
  PROVE  AllowedAt(o, mo, x, mx, private)
<1> DEFINE target == [address |-> V4(o, mo), port |-> 1]
           exception == [address |-> V4(x, mx), port |-> 1]
           t == [address |-> V4(o, FALSE), port |-> 1]
           e == [address |-> V4(x, FALSE), port |-> 1]
<1>1. /\ target.address = V4(o, mo) /\ target.port # 0 /\ [target EXCEPT !.address = V4(o, FALSE)] = t
      /\ exception.address = V4(x, mx) /\ [exception EXCEPT !.address = V4(x, FALSE)] = e
  <2>1. target.port # 0
    <3>1. target.port = 1 /\ 1 # 0
      OBVIOUS
    <3> QED BY <3>1, Zenon
  <2>2. ASSUME NEW u, NEW v PROVE [[address |-> u, port |-> 1] EXCEPT !.address = v] = [address |-> v, port |-> 1]
    OBVIOUS
  <2>3. target.address = V4(o, mo) /\ exception.address = V4(x, mx)
    BY Zenon
  <2> QED BY <2>1, <2>2, <2>3, Zenon
<1>2. Unmap(V4(o, mo)) = V4(o, FALSE) /\ Unmap(V4(x, mx)) = V4(x, FALSE) /\ Unmap(V4(o, FALSE)) = V4(o, FALSE)
  BY V4Kinds, Zenon
<1>3. t = e <=> o = x
  <2>1. t.address.octets = o /\ e.address.octets = x
    BY Zenon DEF V4
  <2> QED BY <2>1, Zenon
<1>4. allowedTargets({exception}) = {e}
  <2>1. allowedTargets({exception}) = {[exception EXCEPT !.address = Unmap(exception.address)]}
    BY Zenon DEF allowedTargets
  <2> QED BY <2>1, <1>1, <1>2, Zenon
<1>5. V4(o, FALSE).family # 6
  <2>1. V4(o, FALSE).family = 4 /\ 4 # 6
    BY V4Kinds, 4 # 6, Zenon
  <2> QED BY <2>1, Zenon
<1>6. targetAllowed(target, {exception}, private) <=>
        /\ ~Unspecified(o) /\ ~Multicast(o)
        /\ publiclyRoutable(V4(o, FALSE)) \/ ((Private(o) \/ Loopback(o)) /\ (o = x \/ private))
  <2> DEFINE a == V4(o, FALSE)
  <2>1. targetAllowed(target, {exception}, private) <=>
          /\ ~Is(a, "unspecified") /\ ~Is(a, "multicast")
          /\ publiclyRoutable(a) \/ ((Is(a, "private") \/ Is(a, "loopback")) /\ (t \in {e} \/ private))
    <3> HIDE DEF target, exception, t, e
    <3> QED BY <1>1, <1>2, <1>4, <1>5, Zenon DEF targetAllowed
  <2> QED BY <2>1, <1>3, V4Kinds, Zenon
<1>7. (Unspecified(o) \/ Multicast(o)) => ~Private(o) /\ ~Loopback(o) /\ SpecialOctets(o)
  <2>1. o[1] \in Nat
    BY DEF Octets
  <2> QED BY <2>1 DEF Unspecified, Multicast, Private, Loopback, SpecialOctets, Between
<1>8. publiclyRoutable(V4(o, FALSE)) <=> ~Refused(NetOf(o))
  BY RoutableV4, Zenon
<1> QED BY <1>6, <1>7, <1>8, RefusedBlocks, Zenon DEF AllowedAt

\* isPublicInternetAddress on an IPv4 address, in either spelling.
LEMMA MappableV4 ==
  ASSUME NEW o \in Octets, NEW m \in BOOLEAN
  PROVE  /\ ~Refused(NetOf(o)) => isPublicInternetAddress(V4(o, m))
         /\ isPublicInternetAddress(V4(o, m)) => ~Private(o) /\ ~Loopback(o) /\ (SharedSpace(o) => m)
<1> DEFINE a == V4(o, m)
<1>1. a.octets = o /\ (Is4(a) <=> ~m)
  BY V4Kinds, Zenon DEF V4, Is4
<1>2. isPublicInternetAddress(a) <=>
        /\ ~(Unspecified(o) /\ ~m) /\ ~Loopback(o) /\ ~Multicast(o) /\ ~LinkLocal(o) /\ ~Private(o)
        /\ ~m => ~Broadcast(o) /\ ~SharedSpace(o)
  <2>1. (\A kind \in {"unspecified", "loopback", "multicast", "link-local"} : ~Is(a, kind)) <=>
          ~(Unspecified(o) /\ ~m) /\ ~Loopback(o) /\ ~Multicast(o) /\ ~LinkLocal(o)
    BY V4Kinds, Zenon
  <2>2. Is(a, "private") <=> Private(o)
    BY V4Kinds, Zenon
  <2>3. IsGlobalUnicast(a) <=>
          ~(Unspecified(o) /\ ~m) /\ ~Loopback(o) /\ ~Multicast(o) /\ ~LinkLocal(o) /\ (~m => ~Broadcast(o))
    <3> HIDE DEF a
    <3> QED BY <1>1, <2>1, Zenon DEF IsGlobalUnicast
  <2> HIDE DEF a
  <2> QED BY <1>1, <2>2, <2>3, Zenon DEF isPublicInternetAddress
<1>3. Unspecified(o) \/ Multicast(o) \/ Broadcast(o) \/ SharedSpace(o) => SpecialOctets(o)
  BY DEF Broadcast, Unspecified, Multicast, SpecialOctets, Octets, Between
<1> QED BY <1>2, <1>3, RefusedBlocks, Zenon

\* And both tests on an IPv6 address.
LEMMA MappableV6 ==
  ASSUME NEW kind \in V6Kinds, NEW zone \in BOOLEAN, publiclyRoutable(V6(kind, zone))
  PROVE  isPublicInternetAddress(V6(kind, zone))
<1> DEFINE a == V6(kind, zone)
<1>1. a.family = 6 /\ a.family # 4 /\ Unmap(a) = a /\ ~Is4(a)
  <2>1. a.family = 6 /\ 6 # 4
    BY 6 # 4, Zenon DEF V6
  <2> QED BY <2>1, Zenon DEF Unmap, Is4
<1>2. \A k \in {"unspecified", "loopback", "multicast", "link-local", "private"} : ~Is(a, k)
  BY <1>1, Zenon DEF publiclyRoutable
<1> HIDE DEF a
<1>3. IsGlobalUnicast(a) /\ ~Is(a, "private")
  BY <1>1, <1>2, Zenon DEF IsGlobalUnicast
<1>4. isPublicInternetAddress(a)
  BY <1>1, <1>3, Zenon DEF isPublicInternetAddress
<1> QED BY <1>4, Zenon DEF a

\* On every IPv4 address and every exception, in both spellings: what is routable is outside
\* the registry's blocks, and what is outside them and 192.0.0.0/16 is routable; UPnP passes
\* what is routable, and nothing private, loopback or (unless mapped) shared; a target is
\* judged by its place.  UPnP passes what is routable of IPv6 too (publiclyRoutable,
\* isPublicInternetAddress, targetAllowed).
THEOREM EveryAddressJudged == AddressesJudged(Octets, Octets)
<1>1. RoutableMatchesRegistry(Octets)
  BY RoutableV4, Zenon DEF RoutableMatchesRegistry, Refused
<1>2. MappableIfRoutable(Octets)
  <2>1. ASSUME NEW o \in Octets, NEW m \in BOOLEAN
        PROVE  /\ publiclyRoutable(V4(o, m)) => isPublicInternetAddress(V4(o, m))
               /\ isPublicInternetAddress(V4(o, m)) =>
                    /\ ~PrivateOrLoopback(NetOf(o))
                    /\ Between(Net(100, 64, 0), NetOf(o), Net(100, 127, 255)) => m
    BY RoutableV4, MappableV4, RefusedBlocks, Zenon
  <2> QED BY <2>1, MappableV6, Zenon DEF MappableIfRoutable
<1>3. JudgedByPlace(Octets)
  <2> SUFFICES ASSUME NEW o \in Octets, NEW x \in Octets,
                      NEW mo \in BOOLEAN, NEW mx \in BOOLEAN, NEW private \in BOOLEAN
               PROVE  LET target(p, m) == [address |-> V4(p, m), port |-> 1]
                          allowed == targetAllowed(target(o, mo), {target(x, mx)}, private)
                          excepted == PrivateOrLoopback(NetOf(o)) /\ (private \/ o = x)
                      IN /\ allowed <=> targetAllowed(target(o, FALSE), {target(x, FALSE)}, private)
                         /\ allowed => ~SpecialPurpose(NetOf(o)) \/ excepted
                         /\ (~SpecialPurpose(NetOf(o)) /\ ~ProtocolBlock(NetOf(o))) \/ excepted => allowed
    BY Zenon DEF JudgedByPlace
  <2> DEFINE target(p, m) == [address |-> V4(p, m), port |-> 1]
             excepted == PrivateOrLoopback(NetOf(o)) /\ (private \/ o = x)
  <2>0. AllowedAt(o, mo, x, mx, private) /\ AllowedAt(o, FALSE, x, FALSE, private)
    BY AllowedV4, Zenon
  <2>1. targetAllowed(target(o, mo), {target(x, mx)}, private) <=> ~Refused(NetOf(o)) \/ excepted
    BY <2>0, Zenon DEF AllowedAt
  <2>2. targetAllowed(target(o, FALSE), {target(x, FALSE)}, private) <=> ~Refused(NetOf(o)) \/ excepted
    BY <2>0, Zenon DEF AllowedAt
  <2> QED BY <2>1, <2>2, Zenon DEF Refused
<1> QED BY <1>1, <1>2, <1>3, Zenon DEF AddressesJudged

\* The addresses that TLC judges are addresses.
LEMMA EdgesAreOctets == EdgeOctets \subseteq Octets /\ KindOctets \subseteq Octets
<1>1. ASSUME NEW b \in Nat, NEW n \in Nat, n <= b PROVE n \in 0 .. b
  BY <1>1
<1> DEFINE A == {0, 9, 10, 11, 99, 100, 101, 126, 127, 128, 168, 169, 170, 171, 172, 173, 191, 192, 193, 197,
                 198, 199, 202, 203, 204, 223, 224, 239, 240, 255}
           B == {0, 1, 15, 16, 17, 18, 19, 20, 31, 32, 50, 51, 52, 63, 64, 127, 128, 167, 168, 169, 253, 254, 255}
           C == {0, 1, 2, 3, 99, 100, 101, 112, 113, 114}
           D == {0, 1, 255}
           E == {8, 0, 1, 10, 127, 172, 31, 192, 168, 169, 254, 224}
           byte == 255
<1>2. /\ \A n \in A : n \in Nat /\ n <= byte
      /\ \A n \in B : n \in Nat /\ n <= byte
      /\ \A n \in C : n \in Nat /\ n <= byte
      /\ \A n \in D : n \in Nat /\ n <= byte
      /\ \A n \in E : n \in Nat /\ n <= byte
      /\ byte \in Nat
  OBVIOUS
<1>3. EdgeOctets = A \X B \X C \X D
  BY DEF EdgeOctets
<1>4. KindOctets \subseteq E \X E \X E \X E
  BY DEF KindOctets
<1>5. Octets = (0 .. byte) \X (0 .. byte) \X (0 .. byte) \X (0 .. byte)
  BY DEF Octets
<1> HIDE DEF A, B, C, D, E, byte
<1>6. /\ A \subseteq 0 .. byte /\ B \subseteq 0 .. byte /\ C \subseteq 0 .. byte /\ D \subseteq 0 .. byte /\ E \subseteq 0 .. byte
  BY <1>1, <1>2, Zenon
<1> QED BY <1>3, <1>4, <1>5, <1>6, Zenon

\* Where an address is that Start accepts as its own.
Advertisable(a, local) ==
  \/ local /\ Is(a, "loopback")
  \/ a.family = 4 /\ ~SpecialPurpose(NetOf(a.octets))
  \/ /\ a.family = 6 /\ a.kind \notin {"loopback", "multicast", "link-local", "private"}
     /\ a.kind \in {"unspecified", "documentation"} => a.zone

\* Start's test of its own address, for an address of either family.
LEMMA AdvertisedWhere ==
  ASSUME NEW a \in Addresses, NEW local,
         publiclyRoutable(a) \/ (local /\ Is(a, "loopback"))
  PROVE  Advertisable(Unmap(a), local)
<1>1. CASE a \in [family: {4}, octets: Octets, mapped: BOOLEAN]
  <2>1. PICK o \in Octets, m \in BOOLEAN : a = V4(o, m)
    <3>1. a.octets \in Octets /\ a.mapped \in BOOLEAN /\ a = V4(a.octets, a.mapped)
      BY <1>1 DEF V4
    <3> QED BY <3>1, Zenon
  <2>2. /\ Unmap(a) = V4(o, FALSE) /\ V4(o, FALSE).family = 4 /\ V4(o, FALSE).octets = o
        /\ Is(a, "loopback") <=> Is(V4(o, FALSE), "loopback")
    BY <2>1, V4Kinds, Zenon
  <2>3. publiclyRoutable(a) => ~SpecialPurpose(NetOf(o))
    BY <2>1, RoutableV4, Zenon DEF Refused
  <2> QED BY <2>2, <2>3, Zenon DEF Advertisable
<1>2. CASE a \in [family: {6}, kind: V6Kinds, zone: BOOLEAN]
  <2>1. a.family = 6 /\ a.family # 4 /\ a.kind \in V6Kinds /\ a.zone \in BOOLEAN
    BY <1>2
  <2>2. Unmap(a) = a
    BY <2>1, Zenon DEF Unmap
  <2>3. \A kind : Is(a, kind) <=> a.kind = kind /\ (kind = "unspecified" => ~a.zone)
    BY <2>1, Zenon DEF Is
  <2>4. publiclyRoutable(a) =>
          /\ a.kind \notin {"loopback", "multicast", "link-local", "private"}
          /\ a.kind \in {"unspecified", "documentation"} => a.zone
    BY <2>1, <2>2, <2>3, Zenon DEF publiclyRoutable
  <2> QED BY <2>1, <2>2, <2>4, Zenon DEF Advertisable
<1> QED BY <1>1, <1>2, Zenon DEF Addresses

--------------------------------------------------------------------------------
(* Recursion. *)

\* Complete induction: H holds of a number if it holds of all those before it.
LEMMA Induction ==
  ASSUME NEW D \in SUBSET Nat, NEW H, \A n \in D : (\A m \in D : m < n => m \in H) => n \in H
  PROVE  D \subseteq H
<1>1. ASSUME D \ H # {} PROVE FALSE
  <2>1. PICK n \in D \ H : \A m \in D \ H : n <= m
    BY <1>1, Least, Zenon
  <2>2. \A m \in D : m < n => m \in H
    BY <2>1
  <2> QED BY <2>1, <2>2, Zenon
<1> QED BY <1>1, Zenon

\* f is defined on D by recursion: from `base` below k, from an earlier value at and above k.
Unfolds(f, D, k, prev, base, next) ==
  \A n \in D : /\ n < k => f[n] = base[n]
               /\ ~(n < k) => f[n] = next[<<n, f[prev[n]]>>]

\* A function that is defined by such a recursion exists.
LEMMA Recursion ==
  ASSUME NEW S, NEW k \in Nat, NEW prev \in [Nat -> Nat], \A n \in Nat : ~(n < k) => prev[n] < n,
         NEW base \in [Nat -> S], NEW next \in [Nat \X S -> S]
  PROVE  \E f \in [Nat -> S] : Unfolds(f, Nat, k, prev, base, next)
<1> DEFINE G(N) == {g \in [0 .. N -> S] : Unfolds(g, 0 .. N, k, prev, base, next)}
<1>0. ASSUME NEW n \in Nat, ~(n < k) PROVE prev[n] \in 0 .. n - 1 /\ prev[n] \in 0 .. n /\ prev[n] # n /\ n - 1 \in Nat
  BY <1>0
<1>1. ASSUME NEW N0 \in Nat PROVE G(N0) # {}
  <2> DEFINE Bad == {N \in Nat : G(N) = {}}
  <2>1. ASSUME Bad # {} PROVE FALSE
    <3>0. Bad \in SUBSET Nat
      BY Zenon
    <3>1. PICK N \in Bad : \A M \in Bad : N <= M
      BY <2>1, <3>0, Least, Zenon
    <3>2. N \in Nat /\ G(N) = {}
      BY <3>1, Zenon
    <3>3. CASE N < k
      <4> DEFINE g == [n \in 0 .. N |-> base[n]]
      <4>1. g \in [0 .. N -> S]
        BY <3>2
      <4>2. Unfolds(g, 0 .. N, k, prev, base, next)
        BY <3>2, <3>3 DEF Unfolds
      <4> QED BY <4>1, <4>2, <3>2
    <3>4. CASE ~(N < k)
      <4>1. N - 1 \in Nat
        BY <3>2, <3>4
      <4>2. N - 1 \notin Bad
        BY <3>1, <3>2, <4>1
      <4>3. PICK h \in [0 .. N - 1 -> S] : Unfolds(h, 0 .. N - 1, k, prev, base, next)
        BY <4>1, <4>2, Zenon
      <4>4. prev[N] \in 0 .. N - 1 /\ prev[N] \in 0 .. N /\ prev[N] # N /\ N \in 0 .. N
        BY <3>2, <3>4
      <4> DEFINE v == next[<<N, h[prev[N]]>>]
      <4>5. v \in S
        BY <3>2, <4>3, <4>4, Zenon
      <4> DEFINE g == [n \in 0 .. N |-> IF n = N THEN v ELSE h[n]]
      <4>6. g \in [0 .. N -> S]
        BY <3>2, <4>5
      <4>7. ASSUME NEW n \in 0 .. N
            PROVE  (n < k => g[n] = base[n]) /\ (~(n < k) => g[n] = next[<<n, g[prev[n]]>>])
        <5>1. CASE n = N
          <6>1. g[prev[N]] = h[prev[N]] /\ g[N] = v
            BY <4>4, Zenon
          <6> QED BY <5>1, <6>1, <3>4, Zenon
        <5>2. CASE n # N
          <6>1. n \in 0 .. N - 1 /\ n \in Nat /\ (prev[n] \in 0 .. n - 1 => prev[n] \in 0 .. N /\ prev[n] # N)
            <7>1. n \in 0 .. N - 1 /\ n \in Nat
              BY <5>2, <3>2
            <7>2. ASSUME NEW q \in 0 .. n - 1 PROVE q \in 0 .. N /\ q # N
              BY <7>1, <3>2
            <7> QED BY <7>1, <7>2, Zenon
          <6>2. g[n] = h[n] /\ (~(n < k) => g[prev[n]] = h[prev[n]])
            BY <5>2, <6>1, <1>0, Zenon
          <6> QED BY <6>1, <6>2, <4>3, Zenon DEF Unfolds
        <5> QED BY <5>1, <5>2, Zenon
      <4>8. Unfolds(g, 0 .. N, k, prev, base, next)
        BY <4>7, Zenon DEF Unfolds
      <4> HIDE DEF g
      <4> QED BY <4>6, <4>8, <3>2, Zenon
    <3> QED BY <3>3, <3>4, Zenon
  <2> QED BY <2>1, Zenon
<1>2. ASSUME NEW N \in Nat, NEW M \in Nat, N <= M, NEW g \in G(N), NEW h \in G(M), NEW l \in 0 .. N
      PROVE  g[l] = h[l]
  <2> DEFINE Bad == {n \in 0 .. N : g[n] # h[n]}
  <2>1. ASSUME Bad # {} PROVE FALSE
    <3>0. Bad \in SUBSET Nat
      OBVIOUS
    <3>1. PICK n \in Bad : \A m \in Bad : n <= m
      BY <2>1, <3>0, Least, Zenon
    <3>2. n \in 0 .. N /\ n \in 0 .. M /\ n \in Nat /\ g[n] # h[n]
      BY <3>1, <1>2
    <3>3. /\ n < k => g[n] = base[n] /\ h[n] = base[n]
          /\ ~(n < k) => g[n] = next[<<n, g[prev[n]]>>] /\ h[n] = next[<<n, h[prev[n]]>>]
      <4>1. Unfolds(g, 0 .. N, k, prev, base, next) /\ Unfolds(h, 0 .. M, k, prev, base, next)
        BY Zenon
      <4> QED BY <3>2, <4>1, Zenon DEF Unfolds
    <3>4. ~(n < k) => prev[n] \in 0 .. N /\ ~(n <= prev[n])
      <4>1. ASSUME NEW p \in 0 .. n - 1 PROVE p \in 0 .. N /\ ~(n <= p)
        <5> HIDE DEF Bad, G
        <5> QED BY <3>2
      <4> QED BY <1>0, <3>2, <4>1, Zenon
    <3>5. ~(n < k) => g[prev[n]] = h[prev[n]]
      BY <3>1, <3>4, Zenon
    <3>6. CASE n < k
      BY <3>2, <3>3, <3>6, Zenon
    <3>7. CASE ~(n < k)
      BY <3>2, <3>3, <3>5, <3>7, Zenon
    <3> QED BY <3>6, <3>7, Zenon
  <2> QED BY <2>1, Zenon
<1> DEFINE pick == [n \in Nat |-> CHOOSE g \in G(n) : TRUE]
           f == [n \in Nat |-> pick[n][n]]
<1>3. ASSUME NEW n \in Nat PROVE pick[n] \in G(n)
  BY <1>1, Zenon
<1>4. ASSUME NEW n \in Nat, NEW N \in Nat, n <= N, NEW g \in G(N) PROVE f[n] = g[n]
  <2>1. n \in 0 .. n
    OBVIOUS
  <2>2. f[n] = pick[n][n]
    BY Zenon
  <2> HIDE DEF f, pick
  <2>3. pick[n] \in G(n) /\ g \in G(N)
    BY <1>3, Zenon
  <2> HIDE DEF G
  <2> QED BY <1>2, <1>4, <2>1, <2>2, <2>3
<1>5. f \in [Nat -> S]
  <2>1. ASSUME NEW n \in Nat PROVE pick[n][n] \in S
    <3> HIDE DEF pick
    <3>1. n \in 0 .. n
      OBVIOUS
    <3> QED BY <1>3, <3>1, Zenon
  <2> HIDE DEF pick
  <2> QED BY <2>1, Zenon
<1>6. ASSUME NEW n \in Nat PROVE (n < k => f[n] = base[n]) /\ (~(n < k) => f[n] = next[<<n, f[prev[n]]>>])
  <2>1. PICK g \in G(n) : TRUE
    BY <1>1, Zenon
  <2>2. n \in 0 .. n /\ n <= n /\ (~(n < k) => prev[n] \in Nat /\ prev[n] <= n)
    OBVIOUS
  <2> HIDE DEF f
  <2>3. f[n] = g[n] /\ (~(n < k) => f[prev[n]] = g[prev[n]])
    BY <1>4, <2>2, Zenon
  <2> QED BY <2>2, <2>3, Zenon DEF Unfolds
<1> HIDE DEF f
<1> QED BY <1>5, <1>6, Zenon DEF Unfolds

\* Whatever is defined by such a recursion has its values in S.
LEMMA RecursionType ==
  ASSUME NEW S, NEW k \in Nat, NEW prev \in [Nat -> Nat], \A n \in Nat : ~(n < k) => prev[n] < n,
         NEW g, g = [n \in Nat |-> g[n]],
         \A n \in Nat : n < k \/ g[prev[n]] \in S => g[n] \in S
  PROVE  g \in [Nat -> S]
<1> DEFINE H == {i \in Nat : g[i] \in S}
<1>1. ASSUME NEW n \in Nat, \A m \in Nat : m < n => m \in H
      PROVE  n \in H
  <2>1. CASE n < k
    BY <2>1, Zenon
  <2>2. CASE ~(n < k)
    BY <1>1, <2>2, Zenon
  <2> QED BY <2>1, <2>2, Zenon
<1>2. Nat \subseteq H
  <2> HIDE DEF H
  <2> QED BY <1>1, Induction, Zenon
<1> QED BY <1>2, Zenon

\* The same on the numbers up to N, one at a time.
Follows(f, N, first, then) == f[0] = first /\ \A n \in 1 .. N : f[n] = then[<<n, f[n - 1]>>]

\* A function that is defined so exists.
LEMMA RecursionTo ==
  ASSUME NEW S, NEW N \in Nat, NEW first \in S, NEW then \in [(1 .. N) \X S -> S]
  PROVE  \E f \in [0 .. N -> S] : Follows(f, N, first, then)
<1> DEFINE prev == [n \in Nat |-> IF n = 0 THEN 0 ELSE n - 1]
           base == [n \in Nat |-> first]
           next == [x \in Nat \X S |-> IF x[1] \in 1 .. N THEN then[x] ELSE first]
<1>1. prev \in [Nat -> Nat] /\ base \in [Nat -> S] /\ \A n \in Nat : ~(n < 1) => prev[n] < n
  OBVIOUS
<1>2. next \in [Nat \X S -> S]
  OBVIOUS
<1>3. \A n \in 1 .. N, v \in S : next[<<n, v>>] = then[<<n, v>>]
  OBVIOUS
<1>4. \A n \in 1 .. N : prev[n] = n - 1 /\ n - 1 \in Nat /\ ~(n < 1) /\ n \in Nat /\ n - 1 \in 0 .. N /\ n \in 0 .. N
  OBVIOUS
<1>5. base[0] = first
  BY Zenon
<1> HIDE DEF prev, base, next
<1>6. PICK f \in [Nat -> S] : Unfolds(f, Nat, 1, prev, base, next)
  BY <1>1, <1>2, Recursion, Zenon
<1> DEFINE g == [n \in 0 .. N |-> f[n]]
<1>7. 0 \in Nat /\ 0 \in 0 .. N /\ 0 < 1 /\ 0 .. N \subseteq Nat /\ 1 \in Nat
  OBVIOUS
<1>8. g \in [0 .. N -> S]
  BY <1>7, Zenon
<1>9. g[0] = first
  BY <1>5, <1>6, <1>7, Zenon DEF Unfolds
<1>10. ASSUME NEW n \in 1 .. N PROVE g[n] = then[<<n, g[n - 1]>>]
  <2>1. f[n] = next[<<n, f[n - 1]>>]
    BY <1>4, <1>6, Zenon DEF Unfolds
  <2>2. f[n - 1] \in S
    BY <1>4, Zenon
  <2> QED BY <1>3, <1>4, <2>1, <2>2, Zenon
<1> HIDE DEF g
<1> QED BY <1>8, <1>9, <1>10, Zenon DEF Follows

\* Induction on the numbers up to N, one at a time.
LEMMA InductionTo ==
  ASSUME NEW N \in Nat, NEW H, 0 \in H, \A n \in 1 .. N : n - 1 \in H => n \in H
  PROVE  0 .. N \subseteq H
<1>1. ASSUME NEW n \in 0 .. N, \A m \in 0 .. N : m < n => m \in H PROVE n \in H
  <2>1. CASE n = 0
    BY <2>1, Zenon
  <2>2. CASE n # 0
    <3>1. n \in 1 .. N /\ n - 1 \in 0 .. N /\ n - 1 < n
      BY <2>2
    <3> QED BY <1>1, <3>1, Zenon
  <2> QED BY <2>1, <2>2, Zenon
<1>2. 0 .. N \in SUBSET Nat
  OBVIOUS
<1> QED BY <1>1, <1>2, Induction, Zenon

\* Whatever is defined by such a recursion has its values in S.
LEMMA RecursionToType ==
  ASSUME NEW S, NEW N \in Nat, NEW g, g = [n \in 0 .. N |-> g[n]], g[0] \in S,
         \A n \in 1 .. N : g[n - 1] \in S => g[n] \in S
  PROVE  g \in [0 .. N -> S]
<1> DEFINE H == {n \in 0 .. N : g[n] \in S}
<1>1. 0 \in H
  OBVIOUS
<1>2. ASSUME NEW n \in 1 .. N, n - 1 \in H PROVE n \in H
  <2>1. n \in 0 .. N
    OBVIOUS
  <2> QED BY <1>2, <2>1, Zenon
<1>3. 0 .. N \subseteq H
  <2> HIDE DEF H
  <2> QED BY <1>1, <1>2, InductionTo, Zenon
<1> QED BY <1>3, Zenon

--------------------------------------------------------------------------------
(* The length of an advertisement. *)

\* The loop over one group.
LEMMA GroupBytesUnfolds ==
  /\ GroupBytes \in [Nat -> Nat]
  /\ \A n \in Nat : GroupBytes[n] = IF n < 128 THEN 1 ELSE 1 + GroupBytes[n \div 128]
<1> DEFINE radix == 128
           prev == [n \in Nat |-> n \div radix]
           base == [n \in Nat |-> 1]
           next == [x \in Nat \X Nat |-> 1 + x[2]]
           body(g) == [n \in Nat |-> IF n < radix THEN 1 ELSE 1 + g[n \div radix]]
<1>1. prev \in [Nat -> Nat] /\ base \in [Nat -> Nat] /\ \A n \in Nat : ~(n < radix) => prev[n] < n
  OBVIOUS
<1>2. next \in [Nat \X Nat -> Nat] /\ \A n, v \in Nat : next[<<n, v>>] = 1 + v
  OBVIOUS
<1>3. \A n \in Nat : prev[n] = n \div radix /\ n \div radix \in Nat /\ base[n] = 1
  OBVIOUS
<1>4. radix \in Nat /\ 1 \in Nat /\ \A n \in Nat : 1 + n \in Nat
  OBVIOUS
<1>5. GroupBytes = CHOOSE g : g = body(g)
  BY Zenon DEF GroupBytes
<1> HIDE DEF prev, base, next, radix
<1>6. PICK f \in [Nat -> Nat] : Unfolds(f, Nat, radix, prev, base, next)
  BY <1>1, <1>2, <1>4, Recursion, Zenon
<1>7. ASSUME NEW n \in Nat PROVE f[n] = IF n < radix THEN 1 ELSE 1 + f[n \div radix]
  <2>1. n < radix => f[n] = 1
    BY <1>3, <1>6, Zenon DEF Unfolds
  <2>2. ~(n < radix) => f[n] = 1 + f[n \div radix]
    <3>1. ~(n < radix) => f[n] = next[<<n, f[n \div radix]>>]
      BY <1>3, <1>6, Zenon DEF Unfolds
    <3>2. f[n \div radix] \in Nat
      BY <1>3, Zenon
    <3> QED BY <1>2, <3>1, <3>2, Zenon
  <2> QED BY <2>1, <2>2, Zenon
<1>8. f = body(f)
  BY <1>7, Zenon
<1>9. GroupBytes = body(GroupBytes)
  <2> HIDE DEF body
  <2> QED BY <1>5, <1>8, Zenon
<1>10. ASSUME NEW n \in Nat PROVE GroupBytes[n] = IF n < radix THEN 1 ELSE 1 + GroupBytes[n \div radix]
  BY <1>9, Zenon
<1>11. GroupBytes = [n \in Nat |-> GroupBytes[n]]
  BY <1>9, Zenon
<1>12. \A n \in Nat : n < radix \/ GroupBytes[prev[n]] \in Nat => GroupBytes[n] \in Nat
  <2> SUFFICES ASSUME NEW n \in Nat, n < radix \/ GroupBytes[prev[n]] \in Nat PROVE GroupBytes[n] \in Nat
    BY Zenon
  <2>1. n < radix \/ GroupBytes[n \div radix] \in Nat
    BY <1>3, Zenon
  <2> QED BY <1>4, <1>10, <2>1, Zenon
<1>13. GroupBytes \in [Nat -> Nat]
  BY <1>1, <1>4, <1>11, <1>12, RecursionType, Zenon
<1> QED BY <1>10, <1>13, Zenon DEF radix

\* What the encoding needs of its base.
Radix(r) ==
  /\ r \in Nat /\ 1 < r
  /\ \A n \in Nat : /\ n \div r \in Nat /\ n % r \in Nat /\ n % r < r /\ n = (n % r) + r * (n \div r)
                     /\ ~(n < r) => n \div r < n /\ 0 < n \div r

\* Base 128 of the code, and base 2 of the lists that are enumerated.
LEMMA Radixes == Radix(2) /\ Radix(128)
BY DEF Radix

\* encode's loop over one group.
LEMMA EncodeGroupUnfolds ==
  ASSUME NEW r, Radix(r)
  PROVE  \A n \in Nat : /\ EncodeGroup(r, n) \in Seq(Nat)
                        /\ n < r => EncodeGroup(r, n) = <<n>>
                        /\ ~(n < r) => EncodeGroup(r, n) = <<(n % r) + r>> \o EncodeGroup(r, n \div r)
<1> DEFINE S == Seq(Nat)
           prev == [n \in Nat |-> n \div r]
           base == [n \in Nat |-> <<n>>]
           next == [x \in Nat \X S |-> <<(x[1] % r) + r>> \o x[2]]
           body(g) == [n \in Nat |-> IF n < r THEN <<n>> ELSE <<(n % r) + r>> \o g[n \div r]]
           d == CHOOSE g : g = body(g)
<1>0. /\ r \in Nat
      /\ \A n \in Nat : n \div r \in Nat /\ n % r \in Nat /\ (~(n < r) => n \div r < n)
  BY DEF Radix
<1>1. prev \in [Nat -> Nat] /\ \A n \in Nat : ~(n < r) => prev[n] < n
  BY <1>0, Zenon
<1>2. ASSUME NEW m \in Nat PROVE <<m>> \in S
  OBVIOUS
<1>3. ASSUME NEW m \in Nat, NEW s \in S PROVE <<(m % r) + r>> \o s \in S
  <2>1. (m % r) + r \in Nat
    BY <1>0
  <2>2. ASSUME NEW c \in Nat PROVE <<c>> \o s \in S
    OBVIOUS
  <2> QED BY <2>1, <2>2, Zenon
<1>4. base \in [Nat -> S]
  BY <1>2, Zenon
<1>5. next \in [Nat \X S -> S] /\ \A m \in Nat, s \in S : next[<<m, s>>] = <<(m % r) + r>> \o s
  <2>1. ASSUME NEW x \in Nat \X S PROVE x[1] \in Nat /\ x[2] \in S
    OBVIOUS
  <2>2. ASSUME NEW m \in Nat, NEW s \in S PROVE <<m, s>> \in Nat \X S /\ <<m, s>>[1] = m /\ <<m, s>>[2] = s
    OBVIOUS
  <2> HIDE DEF S
  <2> QED BY <1>3, <2>1, <2>2, Zenon
<1>6. \A n \in Nat : prev[n] = n \div r /\ base[n] = <<n>>
  BY Zenon
<1> HIDE DEF prev, base, next, S
<1>7. PICK f \in [Nat -> S] : Unfolds(f, Nat, r, prev, base, next)
  BY <1>0, <1>1, <1>4, <1>5, Recursion, Zenon
<1>8. ASSUME NEW n \in Nat PROVE f[n] = IF n < r THEN <<n>> ELSE <<(n % r) + r>> \o f[n \div r]
  <2>1. n < r => f[n] = <<n>>
    BY <1>6, <1>7, Zenon DEF Unfolds
  <2>2. ~(n < r) => f[n] = <<(n % r) + r>> \o f[n \div r]
    <3>1. ~(n < r) => f[n] = next[<<n, f[n \div r]>>]
      BY <1>6, <1>7, Zenon DEF Unfolds
    <3>2. f[n \div r] \in S
      BY <1>0, Zenon
    <3> QED BY <1>5, <3>1, <3>2, Zenon
  <2> QED BY <2>1, <2>2, Zenon
<1>9. f = body(f)
  BY <1>8, Zenon
<1>10. d = body(d)
  <2> HIDE DEF body
  <2> QED BY <1>9, Zenon
<1>11. \A n \in Nat : EncodeGroup(r, n) = d[n]
  BY Zenon DEF EncodeGroup
<1> HIDE DEF d
<1>12. ASSUME NEW n \in Nat PROVE d[n] = IF n < r THEN <<n>> ELSE <<(n % r) + r>> \o d[n \div r]
  BY <1>10, Zenon
<1>13. d = [n \in Nat |-> d[n]]
  BY <1>10, Zenon
<1>14. ASSUME NEW n \in Nat, n < r \/ d[prev[n]] \in S PROVE d[n] \in S
  <2>1. n < r \/ d[n \div r] \in S
    BY <1>6, <1>14, Zenon
  <2> QED BY <1>2, <1>3, <1>12, <2>1, Zenon
<1>15. d \in [Nat -> S]
  BY <1>0, <1>1, <1>13, <1>14, RecursionType, Zenon
<1> QED BY <1>0, <1>11, <1>12, <1>15, Zenon DEF S

\* Start counts the bytes that encode makes of a group.
LEMMA GroupBytesAgree == \A n \in Nat : Len(EncodeGroup(128, n)) = GroupBytes[n]
<1> DEFINE r == 128
           H == {n \in Nat : Len(EncodeGroup(r, n)) = GroupBytes[n]}
<1>1. Radix(r)
  BY Radixes, Zenon
<1>2. \A n \in Nat : GroupBytes[n] = IF n < r THEN 1 ELSE 1 + GroupBytes[n \div r]
  BY GroupBytesUnfolds, Zenon
<1> HIDE DEF r
<1>3. ASSUME NEW n \in Nat, \A m \in Nat : m < n => m \in H PROVE n \in H
  <2>1. CASE n < r
    <3>1. EncodeGroup(r, n) = <<n>> /\ GroupBytes[n] = 1
      BY <1>1, <1>2, <2>1, EncodeGroupUnfolds, Zenon
    <3>2. Len(<<n>>) = 1
      OBVIOUS
    <3> QED BY <3>1, <3>2, Zenon
  <2>2. CASE ~(n < r)
    <3>1. n \div r \in Nat /\ n \div r < n
      BY <1>1, <2>2 DEF Radix
    <3>2. Len(EncodeGroup(r, n \div r)) = GroupBytes[n \div r] /\ GroupBytes[n] = 1 + GroupBytes[n \div r]
      BY <1>2, <1>3, <2>2, <3>1, Zenon
    <3>3. EncodeGroup(r, n \div r) \in Seq(Nat) /\ EncodeGroup(r, n) = <<(n % r) + r>> \o EncodeGroup(r, n \div r)
      BY <1>1, <2>2, <3>1, EncodeGroupUnfolds, Zenon
    <3>4. ASSUME NEW c, NEW s \in Seq(Nat) PROVE Len(<<c>> \o s) = 1 + Len(s)
      OBVIOUS
    <3> QED BY <3>2, <3>3, <3>4, Zenon
  <2> QED BY <2>1, <2>2, Zenon
<1>4. Nat \subseteq H
  <2> HIDE DEF H
  <2> QED BY <1>3, Induction, Zenon
<1> QED BY <1>4, Zenon DEF r

\* Start's loop over all groups.
LEMMA AllGroupBytesUnfolds ==
  ASSUME NEW groups \in Seq(Nat)
  PROVE  \E b \in [0 .. Len(groups) -> Nat] :
           /\ AllGroupBytes(groups) = b[Len(groups)]
           /\ b[0] = 0 /\ \A n \in 1 .. Len(groups) : b[n] = b[n - 1] + GroupBytes[groups[n]]
<1> DEFINE N == Len(groups)
           then == [x \in (1 .. N) \X Nat |-> x[2] + GroupBytes[groups[x[1]]]]
           body(g) == [n \in 0 .. N |-> IF n = 0 THEN 0 ELSE g[n - 1] + GroupBytes[groups[n]]]
           b == CHOOSE g : g = body(g)
<1>1. N \in Nat /\ 0 \in Nat /\ 0 \in 0 .. N
  OBVIOUS
<1>2. ASSUME NEW n \in 1 .. N, NEW v \in Nat PROVE v + GroupBytes[groups[n]] \in Nat
  <2>1. groups[n] \in Nat
    OBVIOUS
  <2>2. GroupBytes[groups[n]] \in Nat
    BY <2>1, GroupBytesUnfolds, ZenonT(30)
  <2> QED BY <2>2
<1>3. AllGroupBytes(groups) = b[N]
  BY Zenon DEF AllGroupBytes
<1> HIDE DEF N
<1>4. ASSUME NEW n \in 1 .. N PROVE n \in 0 .. N /\ n # 0 /\ n - 1 \in 0 .. N
  BY <1>1
<1>5. then \in [(1 .. N) \X Nat -> Nat] /\ \A n \in 1 .. N, v \in Nat : then[<<n, v>>] = v + GroupBytes[groups[n]]
  <2>1. ASSUME NEW x \in (1 .. N) \X Nat PROVE x[1] \in 1 .. N /\ x[2] \in Nat
    OBVIOUS
  <2>2. ASSUME NEW n \in 1 .. N, NEW v \in Nat PROVE <<n, v>> \in (1 .. N) \X Nat /\ <<n, v>>[1] = n /\ <<n, v>>[2] = v
    OBVIOUS
  <2> QED BY <1>2, <2>1, <2>2, Zenon
<1> HIDE DEF then
<1>6. PICK f \in [0 .. N -> Nat] : Follows(f, N, 0, then)
  <2>1. then \in [(1 .. N) \X Nat -> Nat]
    BY <1>5, Zenon
  <2> QED BY <1>1, <2>1, RecursionTo, Zenon
<1>7. ASSUME NEW n \in 0 .. N PROVE f[n] = IF n = 0 THEN 0 ELSE f[n - 1] + GroupBytes[groups[n]]
  <2>1. CASE n = 0
    BY <1>6, <2>1, Zenon DEF Follows
  <2>2. CASE n # 0
    <3>1. n \in 1 .. N
      BY <2>2, <1>1
    <3> QED BY <1>4, <1>5, <1>6, <2>2, <3>1, Zenon DEF Follows
  <2> QED BY <2>1, <2>2, Zenon
<1>8. f = body(f)
  BY <1>7, Zenon
<1>9. b = body(b)
  <2> HIDE DEF body
  <2> QED BY <1>8, Zenon
<1> HIDE DEF b
<1>10. b[0] = 0 /\ \A n \in 1 .. N : b[n] = b[n - 1] + GroupBytes[groups[n]]
  BY <1>1, <1>4, <1>9, Zenon
<1>11. b = [n \in 0 .. N |-> b[n]]
  BY <1>9, Zenon
<1>12. b \in [0 .. N -> Nat]
  <2>1. \A n \in 1 .. N : b[n - 1] \in Nat => b[n] \in Nat
    BY <1>2, <1>10, Zenon
  <2>2. b[0] \in Nat
    BY <1>1, <1>10, Zenon
  <2> QED BY <1>1, <1>11, <2>1, <2>2, RecursionToType, Zenon
<1> QED BY <1>3, <1>10, <1>12, Zenon DEF N

\* p[n]: the first n of the N groups, encoded.
Packs(p, r, groups, N) ==
  /\ EncodeGroups(r, groups) = p[N]
  /\ p[0] = <<>> /\ \A n \in 1 .. N : p[n] = p[n - 1] \o EncodeGroup(r, groups[n])

\* encode's loop over all groups.
LEMMA EncodeGroupsUnfolds ==
  ASSUME NEW r, Radix(r), NEW groups \in Seq(Nat)
  PROVE  \E p \in [0 .. Len(groups) -> Seq(Nat)] : Packs(p, r, groups, Len(groups))
<1> DEFINE S == Seq(Nat)
           N == Len(groups)
           then == [x \in (1 .. N) \X S |-> x[2] \o EncodeGroup(r, groups[x[1]])]
           body(g) == [n \in 0 .. N |-> IF n = 0 THEN <<>> ELSE g[n - 1] \o EncodeGroup(r, groups[n])]
           b == CHOOSE g : g = body(g)
<1>1. N \in Nat /\ <<>> \in S /\ 0 \in 0 .. N
  OBVIOUS
<1>2. ASSUME NEW n \in 1 .. N, NEW v \in S PROVE v \o EncodeGroup(r, groups[n]) \in S
  <2>1. groups[n] \in Nat
    OBVIOUS
  <2>2. EncodeGroup(r, groups[n]) \in S
    BY <2>1, EncodeGroupUnfolds, Zenon
  <2>3. ASSUME NEW u \in S PROVE v \o u \in S
    OBVIOUS
  <2> QED BY <2>2, <2>3, Zenon
<1>3. EncodeGroups(r, groups) = b[N]
  BY Zenon DEF EncodeGroups
<1> HIDE DEF N, S
<1>4. ASSUME NEW n \in 1 .. N PROVE n \in 0 .. N /\ n # 0 /\ n - 1 \in 0 .. N
  BY <1>1
<1>5. then \in [(1 .. N) \X S -> S] /\ \A n \in 1 .. N, v \in S : then[<<n, v>>] = v \o EncodeGroup(r, groups[n])
  <2>1. ASSUME NEW x \in (1 .. N) \X S PROVE x[1] \in 1 .. N /\ x[2] \in S
    OBVIOUS
  <2>2. ASSUME NEW n \in 1 .. N, NEW v \in S PROVE <<n, v>> \in (1 .. N) \X S /\ <<n, v>>[1] = n /\ <<n, v>>[2] = v
    OBVIOUS
  <2> QED BY <1>2, <2>1, <2>2, Zenon
<1> HIDE DEF then
<1>6. PICK f \in [0 .. N -> S] : Follows(f, N, <<>>, then)
  <2>1. then \in [(1 .. N) \X S -> S]
    BY <1>5, Zenon
  <2> QED BY <1>1, <2>1, RecursionTo, Zenon
<1>7. ASSUME NEW n \in 0 .. N PROVE f[n] = IF n = 0 THEN <<>> ELSE f[n - 1] \o EncodeGroup(r, groups[n])
  <2>1. CASE n = 0
    BY <1>6, <2>1, Zenon DEF Follows
  <2>2. CASE n # 0
    <3>1. n \in 1 .. N
      BY <2>2, <1>1
    <3> QED BY <1>4, <1>5, <1>6, <2>2, <3>1, Zenon DEF Follows
  <2> QED BY <2>1, <2>2, Zenon
<1>8. f = body(f)
  BY <1>7, Zenon
<1>9. b = body(b)
  <2> HIDE DEF body
  <2> QED BY <1>8, Zenon
<1> HIDE DEF b
<1>10. b[0] = <<>> /\ \A n \in 1 .. N : b[n] = b[n - 1] \o EncodeGroup(r, groups[n])
  BY <1>1, <1>4, <1>9, Zenon
<1>11. b = [n \in 0 .. N |-> b[n]]
  BY <1>9, Zenon
<1>12. b \in [0 .. N -> S]
  <2>1. \A n \in 1 .. N : b[n - 1] \in S => b[n] \in S
    BY <1>2, <1>10, Zenon
  <2>2. b[0] \in S
    BY <1>1, <1>10, Zenon
  <2> QED BY <1>1, <1>11, <2>1, <2>2, RecursionToType, Zenon
<1>13. Packs(b, r, groups, N)
  BY <1>3, <1>10, Zenon DEF Packs
<1> QED BY <1>12, <1>13, Zenon DEF N, S

\* A group takes at most five bytes.
LEMMA FiveBytes == \A n \in Nat : n <= MaxInt32 => GroupBytes[n] <= 5
<1> SUFFICES ASSUME NEW n \in Nat, n <= MaxInt32 PROVE GroupBytes[n] <= 5
  OBVIOUS
<1> DEFINE a == n \div 128  b == a \div 128  c == b \div 128  d == c \div 128
<1>1. /\ a \in Nat /\ b \in Nat /\ c \in Nat /\ d \in Nat
      /\ a <= 16777215 /\ b <= 131071 /\ c <= 1023 /\ d < 128
  BY DEF MaxInt32
<1> HIDE DEF a, b, c, d
<1>2. /\ GroupBytes[n] = IF n < 128 THEN 1 ELSE 1 + GroupBytes[a]
      /\ GroupBytes[a] = IF a < 128 THEN 1 ELSE 1 + GroupBytes[b]
      /\ GroupBytes[b] = IF b < 128 THEN 1 ELSE 1 + GroupBytes[c]
      /\ GroupBytes[c] = IF c < 128 THEN 1 ELSE 1 + GroupBytes[d]
      /\ GroupBytes[d] = IF d < 128 THEN 1 ELSE 1 + GroupBytes[d \div 128]
  BY <1>1, GroupBytesUnfolds DEF a, b, c, d
<1> QED BY <1>1, <1>2

\* Start counts the bytes of a list as encode makes them, at most five for each group.
LEMMA AllGroupBytesAgree ==
  ASSUME NEW groups \in Seq(Nat)
  PROVE  /\ Len(EncodeGroups(128, groups)) = AllGroupBytes(groups)
         /\ AllGroupBytes(groups) \in Nat
         /\ (\A i \in 1 .. Len(groups) : groups[i] <= MaxInt32) => AllGroupBytes(groups) <= 5 * Len(groups)
<1> DEFINE N == Len(groups)
<1>1. PICK b \in [0 .. N -> Nat] :
        /\ AllGroupBytes(groups) = b[N]
        /\ b[0] = 0 /\ \A n \in 1 .. N : b[n] = b[n - 1] + GroupBytes[groups[n]]
  BY AllGroupBytesUnfolds, Zenon
<1>2. PICK p \in [0 .. N -> Seq(Nat)] :
        /\ EncodeGroups(128, groups) = p[N]
        /\ p[0] = <<>> /\ \A n \in 1 .. N : p[n] = p[n - 1] \o EncodeGroup(128, groups[n])
  BY EncodeGroupsUnfolds, Radixes, Zenon DEF Packs
<1>3. N \in Nat /\ \A n \in 1 .. N : groups[n] \in Nat
  OBVIOUS
<1> HIDE DEF N
<1> DEFINE H == {n \in 0 .. N : Len(p[n]) = b[n]}
           J == {n \in 0 .. N : b[n] <= 5 * n}
<1>4. ASSUME NEW n \in 1 .. N, n - 1 \in H PROVE n \in H
  <2>1. /\ n \in 0 .. N /\ n - 1 \in 0 .. N
    BY <1>3
  <2>2. p[n - 1] \in Seq(Nat) /\ Len(p[n - 1]) = b[n - 1]
    BY <1>4, <2>1, Zenon
  <2> DEFINE e == EncodeGroup(128, groups[n])
  <2>3. e \in Seq(Nat) /\ Len(e) = GroupBytes[groups[n]] /\ p[n] = p[n - 1] \o e
    BY <1>2, <1>3, Radixes, EncodeGroupUnfolds, GroupBytesAgree, Zenon
  <2> HIDE DEF e
  <2>4. ASSUME NEW s \in Seq(Nat), NEW t \in Seq(Nat) PROVE Len(s \o t) = Len(s) + Len(t)
    OBVIOUS
  <2>5. Len(p[n]) = Len(p[n - 1]) + Len(e)
    BY <2>2, <2>3, <2>4, Zenon
  <2>6. Len(p[n]) = b[n]
    BY <1>1, <2>2, <2>3, <2>5, Zenon
  <2> QED BY <2>1, <2>6, Zenon
<1>5. 0 \in H
  <2>1. 0 \in 0 .. N /\ Len(<<>>) = 0
    BY <1>3
  <2> QED BY <1>1, <1>2, <2>1, Zenon
<1>6. 0 .. N \subseteq H
  <2> HIDE DEF H
  <2> QED BY <1>3, <1>4, <1>5, InductionTo, Zenon
<1>7. ASSUME \A i \in 1 .. N : groups[i] <= MaxInt32 PROVE 0 .. N \subseteq J
  <2>1. ASSUME NEW n \in 1 .. N, n - 1 \in J PROVE n \in J
    <3>1. n \in 0 .. N /\ n - 1 \in 0 .. N /\ n \in Nat
      BY <1>3
    <3>2. b[n - 1] \in Nat /\ b[n - 1] <= 5 * (n - 1)
      BY <2>1, <3>1, Zenon
    <3>3. GroupBytes[groups[n]] \in Nat /\ GroupBytes[groups[n]] <= 5
      <4>1. groups[n] \in Nat /\ groups[n] <= MaxInt32
        BY <1>3, <1>7, Zenon
      <4> QED BY <4>1, FiveBytes, GroupBytesUnfolds, ZenonT(30)
    <3>4. b[n] = b[n - 1] + GroupBytes[groups[n]]
      BY <1>1, Zenon
    <3>5. b[n] <= 5 * n
      BY <3>1, <3>2, <3>3, <3>4
    <3> QED BY <3>1, <3>5, Zenon
  <2>2. 0 \in J
    BY <1>1, <1>3
  <2> HIDE DEF J
  <2> QED BY <1>3, <2>1, <2>2, InductionTo, Zenon
<1>8. N \in 0 .. N
  BY <1>3
<1> QED BY <1>1, <1>2, <1>6, <1>7, <1>8, ZenonT(30) DEF N

\* Start's capacity test is encode's, for every name, address and list of groups; and a list
\* of sixteen fits with a name of at most nineteen bytes.
LEMMA CapacityIsLength ==
  ASSUME NEW name \in Nat, NEW v6 \in BOOLEAN, NEW groups \in Seq(Nat),
         NEW r, r = [name |-> name, v6 |-> v6, groups |-> groups]
  PROVE  /\ FitsAnnouncement(r) <=> PayloadLength(r) <= MaxPayload
         /\ name <= 19 /\ Len(groups) <= 16 /\ (\A i \in 1 .. Len(groups) : groups[i] <= MaxInt32) => FitsAnnouncement(r)
<1> DEFINE bytes == AllGroupBytes(groups)
<1>0. r.name = name /\ r.v6 = v6 /\ r.groups = groups
  BY Zenon
<1>1. Len(EncodeGroups(128, groups)) = bytes /\ bytes \in Nat
  BY AllGroupBytesAgree, Zenon
<1>2. Len(groups) <= 16 /\ (\A i \in 1 .. Len(groups) : groups[i] <= MaxInt32) => bytes <= 80
  <2>1. Len(groups) \in Nat
    OBVIOUS
  <2>2. (\A i \in 1 .. Len(groups) : groups[i] <= MaxInt32) => bytes <= 5 * Len(groups)
    BY AllGroupBytesAgree, Zenon
  <2> HIDE DEF bytes
  <2> QED BY <1>1, <2>1, <2>2
<1> HIDE DEF bytes
<1>3. CASE groups = <<>>
  <2>1. FitsAnnouncement(r) <=> 4 + (IF v6 THEN 16 ELSE 4) + 6 + 32 + name + bytes + 96 <= 316
    BY <1>0, <1>3 DEF FitsAnnouncement, MaxPayload, bytes
  <2>2. PayloadLength(r) = 4 + (IF v6 THEN 16 ELSE 4) + (2 + 4) + 32 + name + bytes + 32 + 64
    BY <1>0, <1>1, <1>3 DEF PayloadLength
  <2> QED BY <1>1, <1>2, <2>1, <2>2 DEF MaxPayload
<1>4. CASE groups # <<>>
  <2>1. FitsAnnouncement(r) <=> 3 + (IF v6 THEN 16 ELSE 4) + 6 + 32 + name + bytes + 160 <= 316
    BY <1>0, <1>4 DEF FitsAnnouncement, MaxPayload, bytes
  <2>2. PayloadLength(r) = 3 + (IF v6 THEN 16 ELSE 4) + (2 + 4) + 32 + name + bytes + (64 + 32) + 64
    BY <1>0, <1>1, <1>4 DEF PayloadLength
  <2> QED BY <1>1, <1>2, <2>1, <2>2 DEF MaxPayload
<1> QED BY <1>3, <1>4, Zenon

\* The digits of the groups that are ever encoded.
LEMMA ShortGroups ==
  /\ \A n \in Nat : n <= MaxInt32 => Len(EncodeGroup(128, n)) <= 5
  /\ \A n \in 1 .. 5 : Len(EncodeGroup(2, n)) <= 3
<1>1. \A n \in Nat : n <= MaxInt32 => Len(EncodeGroup(128, n)) <= 5
  BY FiveBytes, GroupBytesAgree, Zenon
<1>2. ASSUME NEW n \in 1 .. 5 PROVE Len(EncodeGroup(2, n)) <= 3
  <2> DEFINE E(m) == EncodeGroup(2, m)
  <2>1. ASSUME NEW m \in Nat PROVE /\ E(m) \in Seq(Nat) /\ (m < 2 => E(m) = <<m>>)
                                   /\ ~(m < 2) => E(m) = <<(m % 2) + 2>> \o E(m \div 2)
    BY Radixes, EncodeGroupUnfolds, Zenon
  <2> HIDE DEF E
  <2>2. ASSUME NEW m \in Nat, m < 2 PROVE Len(E(m)) = 1
    <3>1. E(m) = <<m>>
      BY <2>1, <2>2, Zenon
    <3> QED BY <3>1
  <2>3. ASSUME NEW m \in Nat, ~(m < 2) PROVE Len(E(m)) = 1 + Len(E(m \div 2))
    <3>1. m \div 2 \in Nat /\ (m % 2) + 2 \in Nat
      OBVIOUS
    <3>2. E(m \div 2) \in Seq(Nat) /\ E(m) = <<(m % 2) + 2>> \o E(m \div 2)
      BY <2>1, <2>3, <3>1, Zenon
    <3>3. ASSUME NEW c \in Nat, NEW t \in Seq(Nat) PROVE Len(<<c>> \o t) = 1 + Len(t)
      OBVIOUS
    <3> QED BY <3>1, <3>2, <3>3, Zenon
  <2> DEFINE a == n \div 2  b == a \div 2
  <2>4. n \in Nat /\ a \in Nat /\ b \in Nat /\ a < 3 /\ b < 2
    OBVIOUS
  <2>5. Len(E(b)) = 1
    BY <2>2, <2>4, Zenon
  <2>6. (a < 2 => Len(E(a)) = 1) /\ (~(a < 2) => Len(E(a)) = 1 + Len(E(b)))
    <3> HIDE DEF a
    <3> QED BY <2>2, <2>3, <2>4, Zenon
  <2>7. (n < 2 => Len(E(n)) = 1) /\ (~(n < 2) => Len(E(n)) = 1 + Len(E(a)))
    BY <2>2, <2>3, <2>4, Zenon
  <2> HIDE DEF a, b
  <2>8. Len(E(n)) <= 3
    <3>1. ASSUME NEW x, NEW y, NEW z, z = 1, y = 1 \/ y = 1 + z, x = 1 \/ x = 1 + y PROVE x <= 3
      BY <3>1
    <3> QED BY <2>5, <2>6, <2>7, <3>1, Zenon
  <2> QED BY <2>8, Zenon DEF E
<1> QED BY <1>1, <1>2, Zenon

--------------------------------------------------------------------------------
(* The digits of one group. *)

\* Division by the base, of what is put together from a digit and the rest.
Divides(r) ==
  /\ \A a \in Nat : a < r => a % r = a /\ (a + r) % r = a
  /\ \A a, v \in Nat : a < r => /\ a + r * v \in Nat /\ (a + r * v) % r = a /\ (a + r * v) \div r = v
                                /\ 0 < v => ~(a + r * v < r)

\* Both bases again.
LEMMA BasesDivide == Divides(2) /\ Divides(128)
BY DEF Divides

\* The digit that is split off.
LEMMA DigitType ==
  ASSUME NEW r, Radix(r), NEW n \in Nat
  PROVE  r \in Nat /\ 0 < r /\ n % r \in Nat
BY DEF Radix

\* v[n]: what the last n of the N digits are worth.
Sums(v, r, digits, N) ==
  /\ Value(r, digits) = v[N]
  /\ v[0] = 0 /\ \A n \in 1 .. N : v[n] = (digits[N - n + 1] % r) + r * v[n - 1]

\* What the last digits of a group are worth.
LEMMA ValueUnfolds ==
  ASSUME NEW r, Radix(r), NEW digits \in Seq(Nat)
  PROVE  \E v \in [0 .. Len(digits) -> Nat] : Sums(v, r, digits, Len(digits))
<1> DEFINE N == Len(digits)
           digit(n) == digits[N - n + 1] % r
           then == [x \in (1 .. N) \X Nat |-> digit(x[1]) + r * x[2]]
           body(g) == [n \in 0 .. N |-> IF n = 0 THEN 0 ELSE digit(n) + r * g[n - 1]]
           b == CHOOSE g : g = body(g)
<1>1. N \in Nat /\ 0 \in Nat /\ 0 \in 0 .. N
  OBVIOUS
<1>2. ASSUME NEW n \in 1 .. N, NEW v \in Nat PROVE digit(n) + r * v \in Nat
  <2>1. N - n + 1 \in 1 .. N
    BY <1>1
  <2>2. digits[N - n + 1] \in Nat
    BY <2>1
  <2>3. digit(n) \in Nat /\ r \in Nat
    BY <2>2, DigitType, Zenon
  <2> HIDE DEF digit
  <2> QED BY <2>3
<1>3. Value(r, digits) = b[N]
  BY Zenon DEF Value
<1> HIDE DEF N, digit
<1>4. ASSUME NEW n \in 1 .. N PROVE n \in 0 .. N /\ n # 0 /\ n - 1 \in 0 .. N
  BY <1>1
<1>5. then \in [(1 .. N) \X Nat -> Nat] /\ \A n \in 1 .. N, v \in Nat : then[<<n, v>>] = digit(n) + r * v
  <2>1. ASSUME NEW x \in (1 .. N) \X Nat PROVE x[1] \in 1 .. N /\ x[2] \in Nat
    OBVIOUS
  <2>2. ASSUME NEW n \in 1 .. N, NEW v \in Nat PROVE <<n, v>> \in (1 .. N) \X Nat /\ <<n, v>>[1] = n /\ <<n, v>>[2] = v
    OBVIOUS
  <2> QED BY <1>2, <2>1, <2>2, Zenon
<1> HIDE DEF then
<1>6. PICK f \in [0 .. N -> Nat] : Follows(f, N, 0, then)
  <2>1. then \in [(1 .. N) \X Nat -> Nat]
    BY <1>5, Zenon
  <2> QED BY <1>1, <2>1, RecursionTo, Zenon
<1>7. ASSUME NEW n \in 0 .. N PROVE f[n] = IF n = 0 THEN 0 ELSE digit(n) + r * f[n - 1]
  <2>1. CASE n = 0
    BY <1>6, <2>1, Zenon DEF Follows
  <2>2. CASE n # 0
    <3>1. n \in 1 .. N
      BY <2>2, <1>1
    <3> QED BY <1>4, <1>5, <1>6, <2>2, <3>1, Zenon DEF Follows
  <2> QED BY <2>1, <2>2, Zenon
<1>8. f = body(f)
  BY <1>7, Zenon
<1>9. b = body(b)
  <2> HIDE DEF body
  <2> QED BY <1>8, Zenon
<1> HIDE DEF b
<1>10. b[0] = 0 /\ \A n \in 1 .. N : b[n] = digit(n) + r * b[n - 1]
  BY <1>1, <1>4, <1>9, Zenon
<1>11. b = [n \in 0 .. N |-> b[n]]
  BY <1>9, Zenon
<1>12. b \in [0 .. N -> Nat]
  <2>1. \A n \in 1 .. N : b[n - 1] \in Nat => b[n] \in Nat
    BY <1>2, <1>10, Zenon
  <2>2. b[0] \in Nat
    BY <1>1, <1>10, Zenon
  <2> QED BY <1>1, <1>11, <2>1, <2>2, RecursionToType, Zenon
<1>13. Sums(b, r, digits, N)
  BY <1>3, <1>10, Zenon DEF Sums, digit
<1> QED BY <1>12, <1>13, Zenon DEF N

\* The value of a group, by its first digit.
LEMMA ValueByDigits ==
  ASSUME NEW r, Radix(r)
  PROVE  /\ Value(r, <<>>) = 0
         /\ \A t \in Seq(Nat) : Value(r, t) \in Nat
         /\ \A c \in Nat, t \in Seq(Nat) : Value(r, <<c>> \o t) = (c % r) + r * Value(r, t)
<1>1. Value(r, <<>>) = 0
  <2>1. <<>> \in Seq(Nat) /\ Len(<<>>) = 0
    OBVIOUS
  <2>2. PICK v \in [0 .. Len(<<>>) -> Nat] : Sums(v, r, <<>>, Len(<<>>))
    BY <2>1, ValueUnfolds, Zenon
  <2> QED BY <2>1, <2>2, Zenon DEF Sums
<1>2. ASSUME NEW t \in Seq(Nat) PROVE Value(r, t) \in Nat
  <2>1. Len(t) \in Nat /\ Len(t) \in 0 .. Len(t)
    OBVIOUS
  <2>2. PICK v \in [0 .. Len(t) -> Nat] : Sums(v, r, t, Len(t))
    BY ValueUnfolds, Zenon
  <2> QED BY <2>1, <2>2, Zenon DEF Sums
<1>3. ASSUME NEW c \in Nat, NEW t \in Seq(Nat) PROVE Value(r, <<c>> \o t) = (c % r) + r * Value(r, t)
  <2> DEFINE s == <<c>> \o t
             M == Len(t)
             N == M + 1
  <2>1. s \in Seq(Nat) /\ Len(s) = N /\ M \in Nat /\ s[1] = c /\ 1 <= N
    OBVIOUS
  <2>2. ASSUME NEW n \in 1 .. M PROVE s[N - n + 1] = t[M - n + 1]
    <3>1. ASSUME NEW i \in 1 .. M PROVE s[i + 1] = t[i]
      OBVIOUS
    <3> HIDE DEF M, s
    <3>2. M - n + 1 \in 1 .. M /\ N - n + 1 = (M - n + 1) + 1
      BY <2>1
    <3>3. s[(M - n + 1) + 1] = t[M - n + 1]
      BY <3>1, <3>2, Zenon
    <3> HIDE DEF N
    <3> QED BY <3>2, <3>3, Zenon
  <2> HIDE DEF s
  <2>3. PICK v \in [0 .. N -> Nat] : Sums(v, r, s, N)
    <3>1. PICK v \in [0 .. Len(s) -> Nat] : Sums(v, r, s, Len(s))
      BY <2>1, ValueUnfolds, Zenon
    <3> QED BY <2>1, <3>1, Zenon
  <2>4. PICK w \in [0 .. M -> Nat] : Sums(w, r, t, M)
    BY ValueUnfolds, Zenon
  <2> DEFINE H == {n \in 0 .. M : v[n] = w[n]}
  <2>5. 0 \in H
    BY <2>1, <2>3, <2>4 DEF Sums
  <2>6. ASSUME NEW n \in 1 .. M, n - 1 \in H PROVE n \in H
    <3>1. n \in 0 .. M /\ n \in 1 .. N
      BY <2>1
    <3>2. v[n - 1] = w[n - 1]
      BY <2>6, Zenon
    <3>3. v[n] = (s[N - n + 1] % r) + r * v[n - 1] /\ w[n] = (t[M - n + 1] % r) + r * w[n - 1]
      BY <2>3, <2>4, <3>1, Zenon DEF Sums
    <3> QED BY <2>2, <3>1, <3>2, <3>3, Zenon
  <2>7. M \in H
    <3> HIDE DEF H, M
    <3>1. M \in 0 .. M
      BY <2>1
    <3>2. 0 .. M \subseteq H
      BY <2>1, <2>5, <2>6, InductionTo, Zenon
    <3> QED BY <3>1, <3>2, Zenon
  <2>8. N \in 1 .. N /\ N - N + 1 = 1 /\ N - 1 = M
    BY <2>1
  <2>9. v[N] = (s[1] % r) + r * v[M]
    <3> HIDE DEF M, N
    <3> QED BY <2>3, <2>8, Zenon DEF Sums
  <2>10. v[M] = w[M]
    BY <2>7, Zenon
  <2>11. Value(r, s) = (c % r) + r * Value(r, t)
    <3> HIDE DEF M, N
    <3> QED BY <2>1, <2>3, <2>4, <2>9, <2>10, Zenon DEF Sums
  <2> QED BY <2>11, Zenon DEF s
<1> QED BY <1>1, <1>2, <1>3, Zenon

\* The digits of one group: all but the last are marked.
Digits(r, s) ==
  /\ s \in Seq(Nat) /\ 0 < Len(s) /\ s[Len(s)] < r
  /\ \A i \in 1 .. Len(s) - 1 : ~(s[i] < r) /\ s[i] < r + r

\* encode's digits of a group: marked as they should be, the last one zero only for zero,
\* and worth the group.
Encoded(r, n) ==
  /\ Digits(r, EncodeGroup(r, n))
  /\ 0 < n => EncodeGroup(r, n)[Len(EncodeGroup(r, n))] # 0
  /\ Value(r, EncodeGroup(r, n)) = n

\* A digit and the digits after it.
LEMMA DigitsCons ==
  ASSUME NEW r \in Nat, NEW c \in Nat, NEW t \in Seq(Nat), 0 < Len(t)
  PROVE  /\ (<<c>> \o t)[Len(<<c>> \o t)] = t[Len(t)]
         /\ Digits(r, t) /\ ~(c < r) /\ c < r + r => Digits(r, <<c>> \o t)
<1> DEFINE s == <<c>> \o t
<1>1. s \in Seq(Nat) /\ Len(s) = Len(t) + 1 /\ s[1] = c /\ s[Len(t) + 1] = t[Len(t)]
  OBVIOUS
<1>2. ASSUME NEW i \in 1 .. Len(s) - 1, i # 1 PROVE i - 1 \in 1 .. Len(t) - 1 /\ s[i] = t[i - 1]
  BY <1>2
<1> HIDE DEF s
<1>3. ASSUME Digits(r, t), ~(c < r), c < r + r PROVE Digits(r, s)
  <2>1. \A i \in 1 .. Len(s) - 1 : ~(s[i] < r) /\ s[i] < r + r
    BY <1>1, <1>2, <1>3, Zenon DEF Digits
  <2>2. 0 < Len(s) /\ s[Len(s)] < r
    BY <1>1, <1>3 DEF Digits
  <2> QED BY <1>1, <2>1, <2>2, Zenon DEF Digits
<1> QED BY <1>1, <1>3, Zenon DEF s

\* Taking the last digit off, and putting one on.
LEMMA Splits ==
  ASSUME NEW r, Radix(r), Divides(r), NEW n \in Nat, ~(n < r)
  PROVE  /\ n \div r \in Nat /\ n \div r < n /\ 0 < n \div r
         /\ (n % r) + r \in Nat /\ ~((n % r) + r < r) /\ (n % r) + r < r + r
         /\ ((n % r) + r) % r = n % r /\ (n % r) + r * (n \div r) = n
<1>1. /\ r \in Nat /\ n % r \in Nat /\ n % r < r /\ n \div r \in Nat
      /\ n \div r < n /\ 0 < n \div r /\ n = (n % r) + r * (n \div r)
  BY DEF Radix
<1>2. ASSUME NEW a \in Nat, a < r PROVE (a + r) % r = a
  BY <1>2, Zenon DEF Divides
<1>3. ASSUME NEW a \in Nat, a < r PROVE a + r \in Nat /\ ~(a + r < r) /\ a + r < r + r
  BY <1>1, <1>3
<1>4. ((n % r) + r) % r = n % r
  BY <1>1, <1>2, Zenon
<1>5. (n % r) + r \in Nat /\ ~((n % r) + r < r) /\ (n % r) + r < r + r
  BY <1>1, <1>3, Zenon
<1> QED BY <1>1, <1>4, <1>5, Zenon

\* What encode makes of one group.
LEMMA EncodedDigits ==
  ASSUME NEW r, Radix(r), Divides(r)
  PROVE  \A n \in Nat : Encoded(r, n)
<1> DEFINE H == {n \in Nat : Encoded(r, n)}
<1>1. ASSUME NEW n \in Nat, \A m \in Nat : m < n => m \in H PROVE n \in H
  <2>1. CASE n < r
    <3> DEFINE e == <<n>>
    <3>1. EncodeGroup(r, n) = e
      BY <2>1, EncodeGroupUnfolds, Zenon
    <3>2. e \in Seq(Nat) /\ Len(e) = 1 /\ e[1] = n /\ e = e \o <<>> /\ <<>> \in Seq(Nat)
      OBVIOUS
    <3>3. r \in Nat /\ n % r = n
      BY <2>1, DigitType, Zenon DEF Divides
    <3>4. Value(r, <<n>> \o <<>>) = (n % r) + r * 0
      BY <3>2, ValueByDigits, Zenon
    <3> HIDE DEF e
    <3>5. Digits(r, e)
      BY <2>1, <3>2 DEF Digits
    <3>6. (n % r) + r * 0 = n
      BY <3>3
    <3>7. Value(r, e) = n
      BY <3>2, <3>4, <3>6, Zenon DEF e
    <3>8. 0 < n => e[Len(e)] # 0
      BY <3>2
    <3> QED BY <3>1, <3>5, <3>7, <3>8, Zenon DEF Encoded
  <2>2. CASE ~(n < r)
    <3> DEFINE q == n \div r
               c == (n % r) + r
               t == EncodeGroup(r, q)
               e == <<c>> \o t
    <3>1. /\ q \in Nat /\ q < n /\ 0 < q /\ c \in Nat /\ ~(c < r) /\ c < r + r
          /\ c % r = n % r /\ (n % r) + r * q = n
      BY <2>2, Splits, Zenon
    <3>2. EncodeGroup(r, n) = e
      BY <2>2, EncodeGroupUnfolds, Zenon
    <3> HIDE DEF q, c
    <3>3. Encoded(r, q)
      BY <1>1, <3>1, Zenon
    <3>4. t \in Seq(Nat) /\ Digits(r, t) /\ 0 < Len(t) /\ t[Len(t)] # 0 /\ Value(r, t) = q
      BY <3>1, <3>3, Zenon DEF Encoded, Digits
    <3> HIDE DEF t
    <3>5. r \in Nat
      BY <3>1, DigitType, Zenon
    <3>6. Digits(r, e) /\ e[Len(e)] # 0
      BY <3>1, <3>4, <3>5, DigitsCons, Zenon
    <3>7. Value(r, e) = n
      BY <3>1, <3>4, ValueByDigits, Zenon
    <3> QED BY <3>2, <3>6, <3>7, Zenon DEF Encoded
  <2> QED BY <2>1, <2>2, Zenon
<1> HIDE DEF H
<1>2. Nat \subseteq H
  BY <1>1, Induction, Zenon
<1> QED BY <1>2, Zenon DEF H

\* Those digits are the ones decode accepts.
LEMMA EncodedCanonical ==
  ASSUME NEW r, Radix(r), Divides(r), NEW n \in Nat
  PROVE  Canonical(EncodeGroup(r, n))
<1>1. CASE n = 0
  <2>1. r \in Nat /\ 0 < r
    BY DigitType, Zenon
  <2>2. EncodeGroup(r, n) = <<n>>
    BY <1>1, <2>1, EncodeGroupUnfolds, Zenon
  <2> QED BY <2>2 DEF Canonical
<1>2. CASE n # 0
  <2>1. 0 < n
    BY <1>2
  <2> QED BY <2>1, EncodedDigits, Zenon DEF Encoded, Canonical
<1> QED BY <1>1, <1>2, Zenon

\* Whatever digits decode accepts are the ones encode makes of their value.
LEMMA DigitsEncode ==
  ASSUME NEW r, Radix(r), Divides(r)
  PROVE  \A s : Digits(r, s) /\ Canonical(s) => EncodeGroup(r, Value(r, s)) = s
<1> DEFINE Same(s) == EncodeGroup(r, Value(r, s)) = s /\ (s[Len(s)] # 0 => 0 < Value(r, s))
           H == {k \in Nat : \A s : Digits(r, s) /\ Canonical(s) /\ Len(s) = k => Same(s)}
<1>1. ASSUME NEW k \in Nat, \A m \in Nat : m < k => m \in H PROVE k \in H
  <2> SUFFICES ASSUME NEW s, Digits(r, s), Canonical(s), Len(s) = k PROVE Same(s)
    BY Zenon
  <2>1. s \in Seq(Nat) /\ 0 < Len(s) /\ s[Len(s)] < r /\ r \in Nat /\ Len(s) \in Nat
    BY DigitType DEF Digits
  <2> DEFINE c == s[1]
             t == Tail(s)
  <2>2. c \in Nat /\ t \in Seq(Nat) /\ s = <<c>> \o t /\ Len(t) = Len(s) - 1
    BY <2>1
  <2>3. CASE Len(s) = 1
    <3>1. s = <<c>> /\ c < r /\ s[Len(s)] = c /\ s = <<c>> \o <<>> /\ <<>> \in Seq(Nat)
      BY <2>1, <2>3
    <3> HIDE DEF c
    <3>2. c % r = c
      BY <2>2, <3>1, Zenon DEF Divides
    <3>3. Value(r, <<c>> \o <<>>) = (c % r) + r * 0
      BY <2>2, <3>1, ValueByDigits, ZenonT(30)
    <3>4. (c % r) + r * 0 = c
      BY <2>1, <2>2, <3>2
    <3>5. Value(r, s) = c
      BY <3>1, <3>3, <3>4, Zenon
    <3>6. EncodeGroup(r, c) = s
      BY <2>2, <3>1, EncodeGroupUnfolds, Zenon
    <3>7. c # 0 => 0 < c
      BY <2>2
    <3> QED BY <3>1, <3>5, <3>6, <3>7, Zenon
  <2>4. CASE Len(s) # 1
    <3>1. 1 \in 1 .. Len(s) - 1 /\ 0 < Len(t) /\ t[Len(t)] = s[Len(s)] /\ Len(s) > 1
      BY <2>1, <2>2, <2>4
    <3>2. ASSUME NEW i \in 1 .. Len(t) - 1 PROVE i + 1 \in 1 .. Len(s) - 1 /\ t[i] = s[i + 1]
      BY <2>1, <2>2
    <3>3. Len(t) \in Nat /\ Len(t) < k
      BY <2>1, <2>2
    <3> HIDE DEF c, t
    <3>4. ~(c < r) /\ c < r + r
      BY <3>1, Zenon DEF Digits, c
    <3>5. Digits(r, t)
      <4>1. \A i \in 1 .. Len(t) - 1 : ~(t[i] < r) /\ t[i] < r + r
        BY <3>2, Zenon DEF Digits
      <4> QED BY <2>1, <2>2, <3>1, <4>1, Zenon DEF Digits
    <3>6. t[Len(t)] # 0
      BY <3>1, Zenon DEF Canonical
    <3>7. Same(t)
      <4>1. Canonical(t)
        BY <3>6, Zenon DEF Canonical
      <4> HIDE DEF Same
      <4> QED BY <1>1, <3>3, <3>5, <4>1, Zenon
    <3> DEFINE a == c - r
               V == Value(r, t)
    <3>8. a \in Nat /\ a < r /\ c = a + r
      BY <2>1, <2>2, <3>4
    <3>9. V \in Nat
      BY <2>2, ValueByDigits, Zenon
    <3> HIDE DEF a
    <3>10. c % r = a
      BY <3>8, Zenon DEF Divides
    <3>11. Value(r, s) = a + r * V
      BY <2>2, <3>10, ValueByDigits, Zenon
    <3>12. 0 < V /\ EncodeGroup(r, V) = t
      BY <3>6, <3>7, Zenon
    <3> HIDE DEF V
    <3>13. /\ a + r * V \in Nat /\ (a + r * V) % r = a /\ (a + r * V) \div r = V
           /\ ~(a + r * V < r)
      BY <3>8, <3>9, <3>12, Zenon DEF Divides
    <3>14. EncodeGroup(r, a + r * V) = <<a + r>> \o t
      BY <3>12, <3>13, EncodeGroupUnfolds, Zenon
    <3>15. EncodeGroup(r, Value(r, s)) = s
      BY <2>2, <3>8, <3>11, <3>14, Zenon
    <3>16. ASSUME NEW x \in Nat, ~(x < r) PROVE 0 < x
      BY <2>1, <3>8, <3>16
    <3>17. 0 < Value(r, s)
      BY <3>11, <3>13, <3>16, Zenon
    <3> QED BY <3>15, <3>17, Zenon
  <2> QED BY <2>3, <2>4, Zenon
<1> HIDE DEF H
<1>2. Nat \subseteq H
  BY <1>1, Induction, Zenon
<1>3. ASSUME NEW s, Digits(r, s), Canonical(s) PROVE EncodeGroup(r, Value(r, s)) = s
  <2>1. Len(s) \in Nat
    BY <1>3 DEF Digits
  <2> QED BY <1>2, <1>3, <2>1, Zenon DEF H
<1> QED BY <1>3, Zenon

--------------------------------------------------------------------------------
(* A list of groups. *)

\* The digits that start after the offset are found.
LEMMA DigitsFound ==
  ASSUME NEW r \in Nat, NEW maxDigits \in Nat, NEW raw \in Seq(Nat), NEW offset \in Nat,
         NEW s, Digits(r, s), Len(s) <= maxDigits, offset + Len(s) <= Len(raw),
         \A i \in 1 .. Len(s) : raw[offset + i] = s[i]
  PROVE  DigitsAt(r, maxDigits, raw, offset) = s
<1> DEFINE ends == {n \in 1 .. maxDigits :
                      /\ offset + n <= Len(raw) /\ raw[offset + n] < r
                      /\ \A m \in 1 .. n - 1 : raw[offset + m] >= r}
           L == Len(s)
           found(n) == [i \in 1 .. n |-> raw[offset + i]]
<1>1. s \in Seq(Nat) /\ L \in 1 .. maxDigits /\ L \in 1 .. L /\ L \in Nat /\ \A m \in 1 .. L : s[m] \in Nat
  <2>1. s \in Seq(Nat) /\ 0 < L
    BY Zenon DEF Digits
  <2>2. L \in Nat /\ \A m \in 1 .. L : s[m] \in Nat
    BY <2>1
  <2> HIDE DEF L
  <2>3. L <= maxDigits
    BY Zenon DEF L
  <2> QED BY <2>1, <2>2, <2>3
<1> HIDE DEF L
<1>2. L \in ends
  <2>1. offset + L <= Len(raw) /\ raw[offset + L] < r
    BY <1>1, Zenon DEF Digits, L
  <2>2. ASSUME NEW m \in 1 .. L - 1 PROVE raw[offset + m] >= r
    <3>1. m \in 1 .. L
      BY <1>1
    <3>2. ~(s[m] < r) /\ raw[offset + m] = s[m] /\ s[m] \in Nat
      BY <1>1, <3>1, Zenon DEF Digits, L
    <3>3. ASSUME NEW x \in Nat, ~(x < r) PROVE x >= r
      BY <3>3
    <3> QED BY <3>2, <3>3, Zenon
  <2> QED BY <1>1, <2>1, <2>2, Zenon
<1>3. ASSUME NEW n \in ends PROVE n = L
  <2>1. n \in 1 .. maxDigits /\ raw[offset + n] < r /\ \A m \in 1 .. n - 1 : raw[offset + m] >= r
    BY Zenon
  <2> HIDE DEF ends
  <2>2. ASSUME n < L PROVE FALSE
    <3>1. n \in 1 .. L - 1 /\ n \in 1 .. L
      BY <1>1, <2>1, <2>2
    <3> QED BY <2>1, <3>1, Zenon DEF Digits, L
  <2>3. ASSUME L < n PROVE FALSE
    <3>1. L \in 1 .. n - 1
      BY <1>1, <2>1, <2>3
    <3>2. raw[offset + L] >= r /\ raw[offset + L] = s[L] /\ s[L] < r /\ s[L] \in Nat
      BY <1>1, <2>1, <3>1, Zenon DEF Digits, L
    <3> QED BY <3>2
  <2> QED BY <1>1, <2>1, <2>2, <2>3
<1>4. DigitsAt(r, maxDigits, raw, offset) = IF ends = {} THEN <<>> ELSE found(CHOOSE n \in ends : TRUE)
  BY Zenon DEF DigitsAt
<1>5. (CHOOSE n \in ends : TRUE) = L
  <2> HIDE DEF ends
  <2> QED BY <1>2, <1>3, Zenon
<1>6. found(L) = s
  <2>1. s = [i \in 1 .. L |-> s[i]]
    BY <1>1 DEF L
  <2> QED BY <2>1, Zenon DEF L
<1> HIDE DEF ends, found
<1> QED BY <1>2, <1>4, <1>5, <1>6, Zenon

\* Bytes that are digits, marked or not.
Bytes(r, raw) == \A i \in 1 .. Len(raw) : raw[i] < r + r

\* Such digits after the offset, if any.
Found(r, raw, offset, s) ==
  /\ s \in Seq(Nat)
  /\ s # <<>> => /\ Bytes(r, raw) => Digits(r, s)
                 /\ offset + Len(s) <= Len(raw)
                 /\ \A i \in 1 .. Len(s) : raw[offset + i] = s[i]

\* The digits that are found start after the offset.
LEMMA DigitsRead ==
  ASSUME NEW r \in Nat, NEW maxDigits \in Nat, NEW raw \in Seq(Nat), NEW offset \in Nat
  PROVE  Found(r, raw, offset, DigitsAt(r, maxDigits, raw, offset))
<1> DEFINE ends == {n \in 1 .. maxDigits :
                      /\ offset + n <= Len(raw) /\ raw[offset + n] < r
                      /\ \A m \in 1 .. n - 1 : raw[offset + m] >= r}
           found(n) == [i \in 1 .. n |-> raw[offset + i]]
           n0 == CHOOSE n \in ends : TRUE
           s == DigitsAt(r, maxDigits, raw, offset)
<1>1. s = IF ends = {} THEN <<>> ELSE found(n0)
  BY Zenon DEF DigitsAt
<1>2. ASSUME NEW n \in ends PROVE /\ found(n) \in Seq(Nat) /\ (Bytes(r, raw) => Digits(r, found(n))) /\ offset + Len(found(n)) <= Len(raw)
                                  /\ \A i \in 1 .. Len(found(n)) : raw[offset + i] = found(n)[i]
  <2>1. /\ n \in Nat /\ 1 <= n /\ offset + n <= Len(raw) /\ raw[offset + n] < r
        /\ \A m \in 1 .. n - 1 : raw[offset + m] >= r
    OBVIOUS
  <2>2. ASSUME NEW i \in 1 .. n PROVE offset + i \in 1 .. Len(raw) /\ raw[offset + i] \in Nat
    BY <2>1
  <2>3. found(n) \in [1 .. n -> Nat]
    BY <2>2, Zenon
  <2> DEFINE f == found(n)
  <2>4. \A i \in 1 .. n : f[i] = raw[offset + i]
    BY Zenon
  <2> HIDE DEF f, ends
  <2>5. f \in Seq(Nat) /\ Len(f) = n
    BY <2>1, <2>3 DEF f
  <2>6. ASSUME Bytes(r, raw), NEW i \in 1 .. n - 1 PROVE ~(f[i] < r) /\ f[i] < r + r
    <3>1. i \in 1 .. n
      BY <2>1
    <3>2. f[i] = raw[offset + i] /\ raw[offset + i] >= r /\ raw[offset + i] < r + r /\ raw[offset + i] \in Nat
      BY <2>1, <2>2, <2>4, <2>6, <3>1, Zenon DEF Bytes
    <3> QED BY <3>2
  <2>7. n \in 1 .. n /\ 0 < n
    BY <2>1
  <2>8. Bytes(r, raw) => Digits(r, f)
    BY <2>1, <2>4, <2>5, <2>6, <2>7, Zenon DEF Digits
  <2> QED BY <2>1, <2>4, <2>5, <2>8, Zenon DEF f
<1>3. <<>> \in Seq(Nat)
  OBVIOUS
<1>4. CASE ends = {}
  <2> HIDE DEF s, ends
  <2>1. s = <<>>
    BY <1>1, <1>4, Zenon
  <2> QED BY <1>3, <2>1, Zenon DEF s, Found
<1>5. CASE ends # {}
  <2> HIDE DEF s, ends, found
  <2>1. n0 \in ends /\ s = found(n0)
    BY <1>1, <1>5, Zenon
  <2> QED BY <1>2, <2>1, Zenon DEF s, Found
<1> QED BY <1>4, <1>5, Zenon

\* A group at the end of a list.
LEMMA EncodeAppend ==
  ASSUME NEW r, Radix(r), NEW t \in Seq(Nat), NEW x \in Nat
  PROVE  EncodeGroups(r, Append(t, x)) = EncodeGroups(r, t) \o EncodeGroup(r, x)
<1> DEFINE s == Append(t, x)
           M == Len(t)
           N == M + 1
<1>1. s \in Seq(Nat) /\ Len(s) = N /\ M \in Nat /\ s[N] = x
  OBVIOUS
<1>2. ASSUME NEW n \in 1 .. M PROVE s[n] = t[n]
  OBVIOUS
<1> HIDE DEF s
<1>3. PICK v \in [0 .. N -> Seq(Nat)] : Packs(v, r, s, N)
  <2>1. PICK v \in [0 .. Len(s) -> Seq(Nat)] : Packs(v, r, s, Len(s))
    BY <1>1, EncodeGroupsUnfolds, Zenon
  <2> QED BY <1>1, <2>1, Zenon
<1>4. PICK w \in [0 .. M -> Seq(Nat)] : Packs(w, r, t, M)
  BY EncodeGroupsUnfolds, Zenon
<1> DEFINE H == {n \in 0 .. M : v[n] = w[n]}
<1>5. 0 \in H
  <2>1. 0 \in 0 .. M
    BY <1>1
  <2> QED BY <1>3, <1>4, <2>1, Zenon DEF Packs
<1>6. ASSUME NEW n \in 1 .. M, n - 1 \in H PROVE n \in H
  <2>1. n \in 0 .. M /\ n \in 1 .. N
    BY <1>1
  <2>2. v[n - 1] = w[n - 1]
    BY <1>6, Zenon
  <2>3. v[n] = v[n - 1] \o EncodeGroup(r, s[n]) /\ w[n] = w[n - 1] \o EncodeGroup(r, t[n])
    BY <1>3, <1>4, <2>1, Zenon DEF Packs
  <2> QED BY <1>2, <2>1, <2>2, <2>3, Zenon
<1>7. M \in H
  <2> HIDE DEF H, M
  <2>1. M \in 0 .. M
    BY <1>1
  <2>2. 0 .. M \subseteq H
    BY <1>1, <1>5, <1>6, InductionTo, Zenon
  <2> QED BY <2>1, <2>2, Zenon
<1>8. N \in 1 .. N /\ N - 1 = M
  BY <1>1
<1>9. v[N] = v[M] \o EncodeGroup(r, s[N])
  <2> HIDE DEF M, N
  <2> QED BY <1>3, <1>8, Zenon DEF Packs
<1>10. v[M] = w[M]
  BY <1>7, Zenon
<1>11. EncodeGroups(r, s) = EncodeGroups(r, t) \o EncodeGroup(r, x)
  <2> HIDE DEF M, N
  <2> QED BY <1>1, <1>3, <1>4, <1>9, <1>10, Zenon DEF Packs
<1> QED BY <1>11, Zenon DEF s

\* What decode knows between two groups.
Reading == [ok : BOOLEAN, offset : Nat, groups : Seq(Nat)]

\* read[n]: after n of the N groups.
Reads(read, r, maxDigits, max, raw, N) ==
  /\ read[0] = [ok |-> TRUE, offset |-> 0, groups |-> <<>>]
  /\ \A n \in 1 .. N : read[n] = DecodeGroup(r, maxDigits, max, raw, read[n - 1])
  /\ DecodeGroups(r, maxDigits, max, raw, N)
       = IF read[N].ok /\ read[N].offset = Len(raw)
            /\ \A i \in 1 .. N - 1 : read[N].groups[i] < read[N].groups[i + 1]
         THEN read[N].groups ELSE <<>>

\* What one more group adds.
Continues(before, after, digits, value, max) ==
  /\ after \in Reading /\ value \in Nat /\ digits \in Seq(Nat)
  /\ after.ok <=> before.ok /\ digits # <<>> /\ Canonical(digits) /\ value \in 1 .. max
  /\ after.offset = before.offset + Len(digits)
  /\ after.groups = Append(before.groups, value)

\* decode's step from one group to the next.
LEMMA DecodeGroupFields ==
  ASSUME NEW r, Radix(r), NEW maxDigits \in Nat, NEW max, NEW raw \in Seq(Nat), NEW before \in Reading
  PROVE  LET digits == DigitsAt(r, maxDigits, raw, before.offset)
         IN Continues(before, DecodeGroup(r, maxDigits, max, raw, before), digits, Value(r, digits), max)
<1> DEFINE digits == DigitsAt(r, maxDigits, raw, before.offset)
           value == Value(r, digits)
           after == DecodeGroup(r, maxDigits, max, raw, before)
           fine == before.ok /\ digits # <<>> /\ Canonical(digits) /\ value \in 1 .. max
           record(a, b, c) == [ok |-> a, offset |-> b, groups |-> c]
<1>1. before.ok \in BOOLEAN /\ before.offset \in Nat /\ before.groups \in Seq(Nat)
  BY DEF Reading
<1>2. r \in Nat
  BY DigitType, <1>1, Zenon
<1>3. digits \in Seq(Nat)
  BY <1>1, <1>2, DigitsRead, Zenon DEF Found
<1> HIDE DEF digits
<1>4. value \in Nat
  BY <1>3, ValueByDigits, Zenon
<1>5. after = record(fine, before.offset + Len(digits), Append(before.groups, value))
  BY Zenon DEF DecodeGroup, digits
<1>6. PICK ok \in BOOLEAN : ok = fine
  BY Zenon
<1> HIDE DEF value, after, fine
<1>7. before.offset + Len(digits) \in Nat /\ Append(before.groups, value) \in Seq(Nat)
  BY <1>1, <1>3, <1>4
<1>8. ASSUME NEW a \in BOOLEAN, NEW b \in Nat, NEW c \in Seq(Nat)
      PROVE  record(a, b, c) \in Reading /\ record(a, b, c).ok = a /\ record(a, b, c).offset = b /\ record(a, b, c).groups = c
  BY DEF Reading
<1> HIDE DEF record
<1>9. /\ after \in Reading /\ after.ok = ok /\ after.offset = before.offset + Len(digits)
      /\ after.groups = Append(before.groups, value)
  <2> DEFINE o == before.offset + Len(digits)  g == Append(before.groups, value)
  <2>1. o \in Nat /\ g \in Seq(Nat) /\ after = record(ok, o, g)
    BY <1>5, <1>6, <1>7, Zenon
  <2> HIDE DEF o, g
  <2>2. /\ record(ok, o, g) \in Reading /\ record(ok, o, g).ok = ok
        /\ record(ok, o, g).offset = o /\ record(ok, o, g).groups = g
    BY <1>8, <2>1
  <2>3. after \in Reading /\ after.ok = ok /\ after.offset = o /\ after.groups = g
    BY <2>1, <2>2, Zenon
  <2> QED BY <2>3, Zenon DEF o, g
<1>10. after.ok <=> before.ok /\ digits # <<>> /\ Canonical(digits) /\ value \in 1 .. max
  BY <1>6, <1>9, Zenon DEF fine
<1> QED BY <1>3, <1>4, <1>9, <1>10, Zenon DEF Continues, value, after, digits

\* decode's loop over the groups.
LEMMA DecodeUnfolds ==
  ASSUME NEW r, Radix(r), NEW maxDigits \in Nat, NEW max, NEW raw \in Seq(Nat), NEW N \in Nat
  PROVE  \E read \in [0 .. N -> Reading] : Reads(read, r, maxDigits, max, raw, N)
<1> DEFINE first == [ok |-> TRUE, offset |-> 0, groups |-> <<>>]
           next(x) == DecodeGroup(r, maxDigits, max, raw, x)
           then == [x \in (1 .. N) \X Reading |-> next(x[2])]
           body(g) == [n \in 0 .. N |-> IF n = 0 THEN first ELSE next(g[n - 1])]
           b == CHOOSE g : g = body(g)
<1>1. 0 \in 0 .. N /\ first \in Reading
  BY DEF Reading
<1>2. ASSUME NEW x \in Reading PROVE next(x) \in Reading
  BY DecodeGroupFields, Zenon DEF Continues
<1>3. DecodeGroups(r, maxDigits, max, raw, N)
        = IF b[N].ok /\ b[N].offset = Len(raw) /\ \A i \in 1 .. N - 1 : b[N].groups[i] < b[N].groups[i + 1]
          THEN b[N].groups ELSE <<>>
  BY Zenon DEF DecodeGroups
<1> HIDE DEF first, next
<1>4. ASSUME NEW n \in 1 .. N PROVE n \in 0 .. N /\ n # 0 /\ n - 1 \in 0 .. N
  OBVIOUS
<1>5. then \in [(1 .. N) \X Reading -> Reading] /\ \A n \in 1 .. N, v \in Reading : then[<<n, v>>] = next(v)
  <2>1. ASSUME NEW x \in (1 .. N) \X Reading PROVE x[1] \in 1 .. N /\ x[2] \in Reading
    OBVIOUS
  <2>2. ASSUME NEW n \in 1 .. N, NEW v \in Reading PROVE <<n, v>> \in (1 .. N) \X Reading /\ <<n, v>>[1] = n /\ <<n, v>>[2] = v
    OBVIOUS
  <2> QED BY <1>2, <2>1, <2>2, Zenon
<1> HIDE DEF then
<1>6. PICK f \in [0 .. N -> Reading] : Follows(f, N, first, then)
  <2>1. then \in [(1 .. N) \X Reading -> Reading]
    BY <1>5, Zenon
  <2> QED BY <1>1, <2>1, RecursionTo, Zenon
<1>7. ASSUME NEW n \in 0 .. N PROVE f[n] = IF n = 0 THEN first ELSE next(f[n - 1])
  <2>1. CASE n = 0
    BY <1>6, <2>1, Zenon DEF Follows
  <2>2. CASE n # 0
    <3>1. n \in 1 .. N
      BY <2>2
    <3> QED BY <1>4, <1>5, <1>6, <2>2, <3>1, Zenon DEF Follows
  <2> QED BY <2>1, <2>2, Zenon
<1>8. f = body(f)
  BY <1>7, Zenon
<1>9. b = body(b)
  <2> HIDE DEF body
  <2> QED BY <1>8, Zenon
<1> HIDE DEF b
<1>10. b[0] = first /\ \A n \in 1 .. N : b[n] = next(b[n - 1])
  BY <1>1, <1>4, <1>9, Zenon
<1>11. b = [n \in 0 .. N |-> b[n]]
  BY <1>9, Zenon
<1>12. b \in [0 .. N -> Reading]
  <2>1. \A n \in 1 .. N : b[n - 1] \in Reading => b[n] \in Reading
    BY <1>2, <1>10, Zenon
  <2>2. b[0] \in Reading
    BY <1>1, <1>10, Zenon
  <2> QED BY <1>11, <2>1, <2>2, RecursionToType, Zenon
<1>13. Reads(b, r, maxDigits, max, raw, N)
  BY <1>3, <1>10, Zenon DEF Reads, first, next
<1> QED BY <1>12, <1>13, Zenon

\* The first bytes of b are those of a.
Begins(a, b) == Len(a) <= Len(b) /\ \A i \in 1 .. Len(a) : b[i] = a[i]

\* What is encoded first starts the whole encoding.
LEMMA PackedStarts ==
  ASSUME NEW r, Radix(r), NEW list \in Seq(Nat), NEW N, N = Len(list),
         NEW p \in [0 .. N -> Seq(Nat)], Packs(p, r, list, N)
  PROVE  \A n \in 0 .. N : Begins(p[n], p[N])
<1>1. N \in Nat /\ 0 \in 0 .. N /\ N \in 0 .. N /\ \A n \in 1 .. N : list[n] \in Nat
  OBVIOUS
<1>2. ASSUME NEW a \in Seq(Nat) PROVE Begins(a, a)
  BY DEF Begins
<1>3. ASSUME NEW a \in Seq(Nat), NEW b \in Seq(Nat), NEW e \in Seq(Nat), Begins(a, b) PROVE Begins(a, b \o e)
  BY <1>3 DEF Begins
<1> DEFINE K == {n \in 0 .. N : \A m \in 0 .. n : Begins(p[m], p[n])}
<1>4. 0 \in K
  <2>1. ASSUME NEW m \in 0 .. 0 PROVE m = 0
    OBVIOUS
  <2>2. p[0] \in Seq(Nat)
    BY <1>1, Zenon
  <2> QED BY <1>1, <1>2, <2>1, <2>2, Zenon
<1>5. ASSUME NEW n \in 1 .. N, n - 1 \in K PROVE n \in K
  <2>1. n \in 0 .. N /\ n - 1 \in 0 .. N /\ \A m \in 0 .. n : m # n => m \in 0 .. n - 1 /\ m \in 0 .. N
    BY <1>1
  <2> DEFINE e == EncodeGroup(r, list[n])
  <2>2. e \in Seq(Nat) /\ p[n] = p[n - 1] \o e
    BY <1>1, EncodeGroupUnfolds, Zenon DEF Packs
  <2> HIDE DEF e
  <2>3. ASSUME NEW m \in 0 .. n PROVE Begins(p[m], p[n])
    <3>1. CASE m = n
      BY <1>2, <2>1, <3>1, Zenon
    <3>2. CASE m # n
      <4>1. m \in 0 .. n - 1 /\ p[m] \in Seq(Nat) /\ p[n - 1] \in Seq(Nat)
        BY <2>1, <3>2, Zenon
      <4>2. Begins(p[m], p[n - 1])
        BY <1>5, <4>1, Zenon
      <4>3. Begins(p[m], p[n - 1] \o e)
        BY <1>3, <2>2, <4>1, <4>2, Zenon
      <4> QED BY <2>2, <4>3, Zenon
    <3> QED BY <3>1, <3>2, Zenon
  <2> QED BY <2>1, <2>3, Zenon
<1> HIDE DEF K
<1>6. 0 .. N \subseteq K
  BY <1>1, <1>4, <1>5, InductionTo, Zenon
<1> QED BY <1>1, <1>6, Zenon DEF K

\* What encode takes: sorted groups, none longer than decode reads.
Encodable(r, maxDigits, max, list) ==
  /\ \A i \in 1 .. Len(list) : list[i] \in 1 .. max /\ Len(EncodeGroup(r, list[i])) <= maxDigits
  /\ \A i \in 1 .. Len(list) - 1 : list[i] < list[i + 1]

\* decode reads back what encode has made of a list, for every list that encode takes and
\* every base (masque_discovery_codec.py, encode and decode).
THEOREM DecodeEncoded ==
  ASSUME NEW r, Radix(r), Divides(r), NEW maxDigits \in Nat, NEW max \in Nat, NEW list \in Seq(Nat),
         Encodable(r, maxDigits, max, list)
  PROVE  DecodeGroups(r, maxDigits, max, EncodeGroups(r, list), Len(list)) = list
<1> DEFINE N == Len(list)
           raw == EncodeGroups(r, list)
<1>1. N \in Nat /\ 0 \in 0 .. N /\ N \in 0 .. N /\ \A n \in 1 .. N : list[n] \in Nat
  OBVIOUS
<1>2. \A n \in 1 .. N : list[n] \in 1 .. max /\ Len(EncodeGroup(r, list[n])) <= maxDigits
  BY Zenon DEF Encodable
<1>3. PICK p \in [0 .. N -> Seq(Nat)] : Packs(p, r, list, N)
  BY EncodeGroupsUnfolds, Zenon
<1>4. \A n \in 0 .. N : Begins(p[n], raw)
  <2>1. raw = p[N]
    BY <1>3, Zenon DEF Packs
  <2> QED BY <1>3, <2>1, PackedStarts, Zenon
<1>5. raw \in Seq(Nat) /\ r \in Nat
  BY <1>1, <1>3, DigitType, Zenon DEF Packs
<1> HIDE DEF raw
<1>6. PICK read \in [0 .. N -> Reading] : Reads(read, r, maxDigits, max, raw, N)
  <2> HIDE DEF N
  <2> QED BY <1>1, <1>5, DecodeUnfolds, Zenon
<1> DEFINE Done(n) == /\ read[n].ok /\ read[n].offset = Len(p[n]) /\ Len(read[n].groups) = n
                      /\ \A i \in 1 .. n : read[n].groups[i] = list[i]
           J == {n \in 0 .. N : Done(n)}
<1>7. 0 \in J
  <2>1. read[0] = [ok |-> TRUE, offset |-> 0, groups |-> <<>>] /\ p[0] = <<>>
    BY <1>3, <1>6, Zenon DEF Reads, Packs
  <2>2. read[0].ok /\ read[0].offset = 0 /\ read[0].groups = <<>>
    BY <2>1
  <2>3. Len(<<>>) = 0 /\ \A i \in 1 .. 0 : FALSE
    OBVIOUS
  <2>4. Done(0)
    BY <2>1, <2>2, <2>3, Zenon
  <2> HIDE DEF Done
  <2> QED BY <1>1, <2>4, Zenon
<1>8. ASSUME NEW n \in 1 .. N, n - 1 \in J PROVE n \in J
  <2>1. n \in 0 .. N /\ n - 1 \in 0 .. N /\ n \in Nat
    BY <1>1
  <2> DEFINE before == read[n - 1]
             e == EncodeGroup(r, list[n])
             offset == before.offset
  <2>2. before \in Reading /\ read[n] = DecodeGroup(r, maxDigits, max, raw, before)
    BY <1>6, <2>1, Zenon DEF Reads
  <2>3. Done(n - 1)
    BY <1>8, Zenon
  <2>4. /\ before.ok /\ offset = Len(p[n - 1]) /\ Len(before.groups) = n - 1
        /\ \A i \in 1 .. n - 1 : before.groups[i] = list[i]
    BY <2>3, Zenon
  <2>5. p[n] = p[n - 1] \o e /\ p[n - 1] \in Seq(Nat) /\ p[n] \in Seq(Nat) /\ Begins(p[n], raw)
    BY <1>3, <1>4, <2>1, Zenon DEF Packs
  <2>6. Encoded(r, list[n]) /\ Canonical(e) /\ list[n] \in Nat /\ list[n] \in 1 .. max /\ Len(e) <= maxDigits
    BY <1>1, <1>2, EncodedDigits, EncodedCanonical, Zenon
  <2>7. Digits(r, e) /\ Value(r, e) = list[n]
    BY <2>6, Zenon DEF Encoded
  <2> HIDE DEF before, e, offset, N, Done, J
  <2>8. e \in Seq(Nat) /\ 0 < Len(e)
    BY <2>7, Zenon DEF Digits
  <2>9. e # <<>> /\ offset \in Nat
    BY <2>4, <2>5, <2>8
  <2>10. Len(p[n]) = offset + Len(e) /\ \A i \in 1 .. Len(e) : offset + i \in 1 .. Len(p[n]) /\ p[n][offset + i] = e[i]
    <3> DEFINE Joined(c, a, b) ==
                 /\ Len(c) = Len(a) + Len(b)
                 /\ \A i \in 1 .. Len(b) : Len(a) + i \in 1 .. Len(c) /\ c[Len(a) + i] = b[i]
    <3>1. ASSUME NEW a \in Seq(Nat), NEW b \in Seq(Nat) PROVE Joined(a \o b, a, b)
      OBVIOUS
    <3> HIDE DEF Joined
    <3>2. Joined(p[n], p[n - 1], e)
      BY <2>5, <2>8, <3>1, Zenon
    <3> QED BY <2>4, <3>2, Zenon DEF Joined
  <2>11. offset + Len(e) <= Len(raw) /\ \A i \in 1 .. Len(e) : raw[offset + i] = e[i]
    BY <2>5, <2>10, Zenon DEF Begins
  <2>12. DigitsAt(r, maxDigits, raw, offset) = e
    BY <1>5, <2>6, <2>7, <2>9, <2>11, DigitsFound, Zenon
  <2>13. /\ read[n].ok /\ read[n].offset = offset + Len(e)
         /\ read[n].groups = Append(before.groups, list[n])
    <3>1. Continues(before, read[n], e, list[n], max)
      BY <1>5, <2>2, <2>7, <2>12, DecodeGroupFields, Zenon DEF offset
    <3> QED BY <2>4, <2>6, <2>9, <3>1, Zenon DEF Continues, offset
  <2>14. before.groups \in Seq(Nat)
    BY <2>2 DEF Reading
  <2>15. ASSUME NEW g \in Seq(Nat), Len(g) = n - 1, NEW x \in Nat
         PROVE  /\ Len(Append(g, x)) = n /\ Append(g, x)[n] = x
                /\ \A i \in 1 .. n : i # n => i \in 1 .. n - 1 /\ Append(g, x)[i] = g[i]
    BY <2>1, <2>15
  <2>16. ASSUME NEW i \in 1 .. n PROVE Append(before.groups, list[n])[i] = list[i]
    <3> DEFINE g == before.groups  x == list[n]
    <3>1. /\ Append(g, x)[n] = x
          /\ \A j \in 1 .. n : j # n => j \in 1 .. n - 1 /\ Append(g, x)[j] = g[j]
      <4> HIDE DEF g, x
      <4> QED BY <2>4, <2>6, <2>14, <2>15, Zenon DEF g, x
    <3> HIDE DEF g
    <3>2. CASE i = n
      BY <3>1, <3>2, Zenon DEF g
    <3>3. CASE i # n
      <4>1. i \in 1 .. n - 1 /\ Append(g, x)[i] = g[i]
        BY <3>1, <3>3, Zenon
      <4>2. g[i] = list[i]
        BY <2>4, <4>1, Zenon DEF g
      <4> QED BY <4>1, <4>2, Zenon DEF g
    <3> QED BY <3>2, <3>3, Zenon DEF g
  <2>17. Len(Append(before.groups, list[n])) = n
    BY <2>4, <2>6, <2>14, <2>15, Zenon
  <2>18. Done(n)
    BY <2>10, <2>13, <2>16, <2>17, Zenon DEF Done
  <2> QED BY <2>1, <2>18, Zenon DEF J
<1>9. Done(N)
  <2> HIDE DEF J, N
  <2>1. 0 .. N \subseteq J
    BY <1>1, <1>7, <1>8, InductionTo, Zenon
  <2> QED BY <1>1, <2>1, Zenon DEF J
<1>10. read[N].groups = list
  <2>1. read[N].groups \in Seq(Nat)
    <3> HIDE DEF N
    <3>1. read[N] \in Reading
      BY <1>1, <1>6, Zenon
    <3> QED BY <3>1 DEF Reading
  <2>2. Len(read[N].groups) = N /\ \A i \in 1 .. N : read[N].groups[i] = list[i]
    BY <1>9, Zenon
  <2>3. ASSUME NEW g \in Seq(Nat), Len(g) = N, \A i \in 1 .. N : g[i] = list[i] PROVE g = list
    <3>1. g = [i \in 1 .. Len(g) |-> g[i]] /\ list = [i \in 1 .. Len(list) |-> list[i]]
      OBVIOUS
    <3> QED BY <2>3, <3>1, Zenon
  <2> QED BY <2>1, <2>2, <2>3, Zenon
<1>11. read[N].ok /\ read[N].offset = Len(raw)
  BY <1>3, <1>9, Zenon DEF Packs, raw
<1>12. \A i \in 1 .. N - 1 : read[N].groups[i] < read[N].groups[i + 1]
  BY <1>10, Zenon DEF Encodable
<1>13. DecodeGroups(r, maxDigits, max, raw, N) = list
  <2> HIDE DEF N
  <2> QED BY <1>6, <1>10, <1>11, <1>12, Zenon DEF Reads
<1> QED BY <1>13, Zenon DEF raw

\* Whatever bytes decode accepts are the ones encode makes of the groups that it returns, so
\* that a list has one encoding (masque_discovery_codec.py, decode's canonical form).
THEOREM EncodeDecoded ==
  ASSUME NEW r, Radix(r), Divides(r), NEW maxDigits \in Nat, NEW max, NEW raw \in Seq(Nat), Bytes(r, raw),
         NEW N \in Nat, DecodeGroups(r, maxDigits, max, raw, N) # <<>>
  PROVE  EncodeGroups(r, DecodeGroups(r, maxDigits, max, raw, N)) = raw
<1> DEFINE front(k) == [i \in 1 .. k |-> raw[i]]
<1>1. PICK read \in [0 .. N -> Reading] : Reads(read, r, maxDigits, max, raw, N)
  BY DecodeUnfolds, Zenon
<1>2. 0 \in 0 .. N /\ N \in 0 .. N
  OBVIOUS
<1> DEFINE Same(x) == x.offset <= Len(raw) /\ EncodeGroups(r, x.groups) = front(x.offset)
           K == {n \in 0 .. N : read[n].ok => Same(read[n])}
<1>3. 0 \in K
  <2>1. read[0] = [ok |-> TRUE, offset |-> 0, groups |-> <<>>]
    BY <1>1, Zenon DEF Reads
  <2>2. read[0].offset = 0 /\ read[0].groups = <<>>
    BY <2>1
  <2>3. <<>> \in Seq(Nat) /\ Len(<<>>) = 0 /\ 0 <= Len(raw)
    OBVIOUS
  <2>4. PICK p \in [0 .. Len(<<>>) -> Seq(Nat)] : Packs(p, r, <<>>, Len(<<>>))
    BY <2>3, EncodeGroupsUnfolds, Zenon
  <2>5. EncodeGroups(r, <<>>) = <<>>
    BY <2>3, <2>4, Zenon DEF Packs
  <2>6. front(0) = <<>>
    OBVIOUS
  <2>7. Same(read[0])
    BY <2>2, <2>3, <2>5, <2>6, Zenon
  <2> HIDE DEF Same
  <2> QED BY <1>2, <2>7, Zenon
<1>4. ASSUME NEW n \in 1 .. N, n - 1 \in K PROVE n \in K
  <2>1. n \in 0 .. N /\ n - 1 \in 0 .. N
    OBVIOUS
  <2> DEFINE before == read[n - 1]
             offset == before.offset
             e == DigitsAt(r, maxDigits, raw, offset)
  <2>2. before \in Reading /\ read[n] = DecodeGroup(r, maxDigits, max, raw, before)
    BY <1>1, <2>1, Zenon DEF Reads
  <2>3. ASSUME read[n].ok PROVE Same(read[n])
    <3>1. /\ before.ok /\ e # <<>> /\ Canonical(e) /\ Value(r, e) \in Nat
          /\ read[n].offset = offset + Len(e) /\ read[n].groups = Append(before.groups, Value(r, e))
      <4>1. Continues(before, read[n], e, Value(r, e), max)
        BY <2>2, DecodeGroupFields, Zenon
      <4> HIDE DEF e
      <4> QED BY <2>3, <4>1, Zenon DEF Continues
    <3>2. Same(before)
      BY <1>4, <3>1, Zenon
    <3>3. offset \in Nat /\ before.groups \in Seq(Nat)
      <4>1. ASSUME NEW x \in Reading PROVE x.offset \in Nat /\ x.groups \in Seq(Nat)
        BY DEF Reading
      <4> QED BY <2>2, <4>1, Zenon
    <3>4. r \in Nat
      BY <3>3, DigitType, Zenon
    <3>5. Digits(r, e) /\ offset + Len(e) <= Len(raw) /\ \A i \in 1 .. Len(e) : raw[offset + i] = e[i]
      <4>1. Found(r, raw, offset, e)
        BY <3>3, <3>4, DigitsRead, Zenon
      <4> HIDE DEF e, offset
      <4> QED BY <3>1, <4>1, Zenon DEF Found
    <3>6. EncodeGroup(r, Value(r, e)) = e
      BY <3>1, <3>5, DigitsEncode, Zenon
    <3>7. EncodeGroups(r, read[n].groups) = EncodeGroups(r, before.groups) \o e
      <4> DEFINE v == Value(r, e)
      <4>1. EncodeGroups(r, Append(before.groups, v)) = EncodeGroups(r, before.groups) \o EncodeGroup(r, v)
        <5> HIDE DEF v, before
        <5> QED BY <3>1, <3>3, EncodeAppend, Zenon DEF v
      <4> HIDE DEF e, before
      <4> QED BY <3>1, <3>6, <4>1, Zenon
    <3>8. EncodeGroups(r, before.groups) = front(offset)
      BY <3>2, Zenon
    <3>9. ASSUME NEW s \in Seq(Nat), NEW k \in Nat, k + Len(s) <= Len(raw), \A i \in 1 .. Len(s) : raw[k + i] = s[i]
          PROVE  front(k) \o s = front(k + Len(s))
      <4> DEFINE f == front(k)
                 c == f \o s
                 L == Len(s)
      <4>1. L \in Nat /\ Len(raw) \in Nat /\ k <= Len(raw)
        BY <3>9
      <4>2. ASSUME NEW i \in 1 .. k PROVE raw[i] \in Nat
        BY <4>1
      <4>3. f \in [1 .. k -> Nat] /\ \A i \in 1 .. k : f[i] = raw[i]
        BY <4>2, Zenon
      <4> HIDE DEF f
      <4>4. f \in Seq(Nat) /\ Len(f) = k
        BY <4>3
      <4>5. c \in Seq(Nat) /\ Len(c) = k + L /\ c = [i \in 1 .. Len(c) |-> c[i]]
        <5>1. ASSUME NEW a \in Seq(Nat), NEW b \in Seq(Nat) PROVE a \o b \in Seq(Nat) /\ Len(a \o b) = Len(a) + Len(b)
          OBVIOUS
        <5>2. c \in Seq(Nat) /\ Len(c) = k + L
          BY <4>4, <5>1, Zenon
        <5> HIDE DEF c
        <5> QED BY <5>2
      <4>6. ASSUME NEW i \in 1 .. k + L PROVE c[i] = raw[i]
        <5>1. CASE i <= k
          <6>1. i \in 1 .. k /\ c[i] = f[i]
            BY <4>1, <4>4, <5>1
          <6> QED BY <4>3, <6>1, Zenon
        <5>2. CASE ~(i <= k)
          <6>0. ASSUME NEW a \in Seq(Nat), NEW b \in Seq(Nat), NEW j \in 1 .. Len(a) + Len(b), ~(j <= Len(a))
                PROVE  j - Len(a) \in 1 .. Len(b) /\ (a \o b)[j] = b[j - Len(a)]
            BY <6>0
          <6>1. i - k \in 1 .. L /\ c[i] = s[i - k] /\ k + (i - k) = i
            <7>1. k + (i - k) = i
              BY <4>1
            <7> QED BY <4>4, <5>2, <6>0, <7>1, Zenon
          <6>2. raw[k + (i - k)] = s[i - k]
            BY <3>9, <6>1, Zenon
          <6> QED BY <6>1, <6>2, Zenon
        <5> QED BY <5>1, <5>2, Zenon
      <4> HIDE DEF c, L
      <4>7. c = front(k + L)
        BY <4>5, <4>6, Zenon
      <4> QED BY <4>7, Zenon DEF c, L, f
    <3>10. e \in Seq(Nat)
      BY <3>5, Zenon DEF Digits
    <3> HIDE DEF e, before, front, offset
    <3>11. front(offset) \o e = front(offset + Len(e))
      BY <3>3, <3>5, <3>9, <3>10, Zenon
    <3> QED BY <3>1, <3>5, <3>7, <3>8, <3>11, Zenon
  <2> HIDE DEF Same
  <2> QED BY <2>1, <2>3, Zenon
<1>5. N \in K
  <2> HIDE DEF K
  <2>1. 0 .. N \subseteq K
    BY <1>3, <1>4, InductionTo, Zenon
  <2> QED BY <1>2, <2>1, Zenon
<1>6. read[N].ok /\ read[N].offset = Len(raw) /\ DecodeGroups(r, maxDigits, max, raw, N) = read[N].groups
  BY <1>1, Zenon DEF Reads
<1>7. EncodeGroups(r, read[N].groups) = front(Len(raw))
  BY <1>5, <1>6, Zenon
<1>8. front(Len(raw)) = raw
  OBVIOUS
<1> HIDE DEF front
<1> QED BY <1>6, <1>7, <1>8, Zenon
================================================================================
