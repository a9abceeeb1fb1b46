--------------------------- MODULE AnnouncementProofs --------------------------
(***************************************************************************)
(* The relay of a life and what is said of it: its access policy is the one  *)
(* that was written, its address is judged alike by all who judge it, and    *)
(* its advertisement fits and has one encoding.                              *)
(***************************************************************************)
EXTENDS Announcement, DeploymentProofs, AlgorithmProofs

\* The groups of a file that loads, before and after the sort.
LEMMA LoadedGroups ==
  ASSUME NEW d \in Deployments, Loads(d.file), d.file # NoFile
  PROVE  LET file == d.file.groups
             groups == LoadAccessConfig(d.file).groups
         IN /\ LoadAccessConfig(d.file).mode = d.file.mode /\ d.file.mode \in {"public", "groups"}
            /\ d.file.mode = "public" => file = <<>>
            /\ groups \in [1 .. Len(file) -> Range(file)] /\ Range(groups) = Range(file)
            /\ \A i, j \in 1 .. Len(file) : i < j => groups[i] < groups[j]
            /\ Len(file) \in Nat /\ Len(file) <= 16
            /\ \A id \in Range(file) : id \in Nat /\ 0 < id /\ id <= MaxInt32
<1> DEFINE file == d.file.groups
<1>1. d.file.form = "object" /\ ValidAccess(d.file)
  BY Zenon DEF Loads
<1>2. LoadAccessConfig(d.file).mode = d.file.mode /\ LoadAccessConfig(d.file).groups = Sorted(file)
  BY Zenon DEF LoadAccessConfig
<1>3. file \in Seq(Int) /\ \A i \in DOMAIN file : file[i] <= MaxInt32
  BY <1>1, DeploymentAssumption, Zenon
<1>4. /\ \A i \in DOMAIN file : file[i] > 0
      /\ Cardinality(Range(file)) = Len(file) /\ Len(file) <= 16
      /\ d.file.mode \in {"public", "groups"} /\ (d.file.mode = "public" => file = <<>>)
  BY <1>1, Zenon DEF ValidAccess
<1> HIDE DEF file
<1>5. file \in Seq(Nat) /\ Len(file) \in Nat
  BY <1>3, <1>4
<1>6. \A i \in DOMAIN file : file[i] \in Nat /\ 0 < file[i] /\ file[i] <= MaxInt32
  BY <1>3, <1>4
<1>7. \A id \in Range(file) : id \in Nat /\ 0 < id /\ id <= MaxInt32
  BY <1>6, Zenon DEF Range
<1>8. /\ Sorted(file) \in [1 .. Len(file) -> Range(file)]
      /\ Range(Sorted(file)) = Range(file)
      /\ \A i, j \in 1 .. Len(file) : i < j => Sorted(file)[i] < Sorted(file)[j]
  BY <1>4, <1>5, SortedGroups, Zenon
<1> QED BY <1>2, <1>4, <1>5, <1>7, <1>8, Zenon DEF file

\* The types of the whole deployment.
LEMMA StartedTypes == ASSUME DeploymentInv, StartedInv PROVE DeploymentTypeOK
<1>1. LifecycleTypeOK
  <2>1. conf.upnp = TRUE \/ owned = None
    BY Zenon DEF StartedInv, Configured
  <2>2. \A p \in Callers : call[p] = NoCall \/ call[p] \in [request: Requests, reply: {"none", "ok", "refused"}]
    BY Zenon DEF DeploymentInv, LifeInv, LifeTypes, CallStates
  <2>3. owned = None => maintain = "off"
    BY Zenon DEF DeploymentInv, LifeInv, Progress
  <2> QED BY <2>1, <2>2, <2>3, Zenon DEF DeploymentInv, LifeInv, LifeTypes, LifecycleTypeOK, Early, Ending
<1>2. StartTypeOK
  <2>1. step = "started" => pair # NoPair
    <3>1. SUFFICES ASSUME step = "started", pair = NoPair PROVE FALSE
      BY Zenon
    <3>2. disk.cert = Whole(pair)
      BY <3>1, Zenon DEF DeploymentInv, StartInv, Written, Later
    <3>3. disk.cert \notin {Missing, Torn} /\ disk.cert.pair = pair
      BY <3>2, FileStates, Zenon
    <3>4. NoPair.number \in 1 .. pairs
      BY <3>1, <3>3, Zenon DEF StartedInv, Holding
    <3> QED BY <3>4 DEF NoPair
  <2> QED BY <2>1, Zenon DEF DeploymentInv, StartInv, FilesKnown, StartedInv, Holding, HeldAt, Paths, StartTypeOK
<1>3. server = "up" /\ pc # "exited" => step = "started" /\ "udp" \in held
  BY Zenon DEF DeploymentInv, StartInv, Linked, StartedInv, Holding, HeldAt
<1> QED BY <1>1, <1>2, <1>3, Zenon DEF DeploymentTypeOK, StartedInv, Configured

\* A relay that serves admits whom its access file names, in every life (LoadAccessConfig,
\* newAccessPolicy, Start).
THEOREM AccessAlwaysAsWritten == DeploymentSafety => []AccessAsWritten
<1>1. DeploymentInv /\ StartedInv => AccessAsWritten
  <2> SUFFICES ASSUME DeploymentInv, StartedInv PROVE AccessAsWritten
    BY Zenon
  <2> DEFINE policy == Policy(start.access)
  <2>1. ASSUME server = "up"
        PROVE  IF policy.mode = "public"
               THEN chosen.file = NoFile \/ (chosen.file.mode = "public" /\ chosen.file.groups = <<>>)
               ELSE chosen.file.mode = "groups" /\ Range(policy.groups) = Range(chosen.file.groups)
    <3>1. step = "started"
      BY <2>1, Zenon DEF DeploymentInv, StartInv, Linked
    <3>2. Loads(chosen.file) /\ start.access = LoadAccessConfig(chosen.file) /\ chosen \in Deployments
      BY <3>1, StartFields, Zenon
    <3>3. CASE chosen.file = NoFile
      <4>1. start.access = NoAccess
        BY <3>2, <3>3, Zenon DEF LoadAccessConfig
      <4>2. policy.mode = "public"
        BY <4>1 DEF NoAccess, Policy
      <4> QED BY <3>3, <4>2, Zenon
    <3>4. CASE chosen.file # NoFile
      <4> DEFINE c == LoadAccessConfig(chosen.file)
      <4>1. /\ c.mode = chosen.file.mode /\ chosen.file.mode \in {"public", "groups"}
            /\ chosen.file.mode = "public" => chosen.file.groups = <<>>
            /\ Range(c.groups) = Range(chosen.file.groups)
        BY <3>2, <3>4, LoadedGroups, Zenon
      <4>2. c = [mode |-> c.mode, groups |-> c.groups, cores |-> c.cores]
        BY <3>4, Zenon DEF LoadAccessConfig
      <4>3. policy.mode = c.mode /\ policy.groups = c.groups
        <5> HIDE DEF c
        <5>1. start.access = c
          BY <3>2, Zenon DEF c
        <5>0. c.mode # ""
          BY <4>1, Zenon
        <5>2. ASSUME NEW m, NEW g, NEW k
              PROVE  LET r == [mode |-> m, groups |-> g, cores |-> k]
                     IN [r EXCEPT !.mode = m].mode = m /\ [r EXCEPT !.mode = m].groups = g
          OBVIOUS
        <5>3. [c EXCEPT !.mode = c.mode].mode = c.mode /\ [c EXCEPT !.mode = c.mode].groups = c.groups
          <6> DEFINE r(m, g, k) == [mode |-> m, groups |-> g, cores |-> k]
          <6>1. [r(c.mode, c.groups, c.cores) EXCEPT !.mode = c.mode].mode = c.mode /\ [r(c.mode, c.groups, c.cores) EXCEPT !.mode = c.mode].groups = c.groups
            BY <5>2
          <6>2. c = r(c.mode, c.groups, c.cores)
            BY <4>2
          <6> HIDE DEF r
          <6> QED BY <6>1, <6>2, Zenon
        <5>4. policy = [c EXCEPT !.mode = c.mode]
          BY <5>0, <5>1, Zenon DEF Policy
        <5> QED BY <5>3, <5>4, Zenon
      <4> QED BY <4>1, <4>3, Zenon
    <3> QED BY <3>3, <3>4, Zenon
  <2> QED BY <2>1, StartedTypes, Zenon DEF AccessAsWritten
<1> QED BY <1>1, DeploymentInvariant, StartedInvariant, PTL

\* A relay that serves is advertised outside the special-purpose blocks, or on loopback by a
\* flag, in every life; and the relay's tests are right on the addresses that TLC judges
\* (publiclyRoutable, openWithClient, Start).
THEOREM AdvertisedAlwaysPublic == DeploymentSafety => []AdvertisedIsPublic
<1>1. EdgesJudged
  <2>1. AddressesJudged(EdgeOctets, KindOctets)
    BY EveryAddressJudged, EdgesAreOctets, ZenonT(30) DEF AddressesJudged, RoutableMatchesRegistry, MappableIfRoutable, JudgedByPlace
  <2> QED BY <2>1, Zenon DEF EdgesJudged
<1>2. DeploymentInv /\ StartedInv => AdvertisedIsPublic
  <2> SUFFICES ASSUME DeploymentInv, StartedInv PROVE AdvertisedIsPublic
    BY Zenon
  <2>1. ASSUME server = "up" PROVE Advertisable(Unmap(start.address), start.local)
    <3>1. step = "started"
      BY <2>1, Zenon DEF DeploymentInv, StartInv, Linked
    <3>2. start.address \in Addresses
      BY <3>1, StartFields, Zenon
    <3>3. publiclyRoutable(start.address) \/ (start.local /\ Is(start.address, "loopback"))
      BY <3>1, Zenon DEF StartedInv, Passed, Acceptable
    <3> QED BY <3>2, <3>3, AdvertisedWhere, Zenon
  <2> QED BY <1>1, <2>1, Zenon DEF AdvertisedIsPublic, Advertisable
<1> QED BY <1>2, DeploymentInvariant, StartedInvariant, PTL

\* The lists that TLC measures have at most sixteen groups below 2^31.
LEMMA GroupListsBounded ==
  ASSUME NEW groups \in GroupLists
  PROVE  groups \in Seq(Nat) /\ Len(groups) <= 16 /\ \A i \in 1 .. Len(groups) : groups[i] <= MaxInt32
<1> DEFINE Q(g) == g \in Seq(Nat) /\ Len(g) <= 16 /\ \A i \in 1 .. Len(g) : g[i] <= MaxInt32
<1>1. Q(<<>>) /\ Q(<<127>>) /\ Q(<<128>>) /\ Q(<<129>>)
  BY DEF MaxInt32
<1>2. Q(<<16383, 16384>>)
  BY DEF MaxInt32
<1>3. Q(<<2097151, 2097152, 268435455, 268435456>>)
  BY DEF MaxInt32
<1>4. ASSUME NEW n \in Nat, n <= 16 PROVE Q([i \in 1 .. n |-> MaxInt32 - n + i])
  <2> DEFINE g == [i \in 1 .. n |-> MaxInt32 - n + i]
  <2>1. MaxInt32 \in Nat /\ 16 <= MaxInt32
    BY DEF MaxInt32
  <2>2. \A i \in 1 .. n : g[i] \in Nat /\ g[i] <= MaxInt32
    BY <1>4, <2>1
  <2>3. g = [i \in 1 .. n |-> g[i]]
    OBVIOUS
  <2> HIDE DEF g
  <2>4. g \in Seq(Nat) /\ Len(g) = n
    BY <2>2, <2>3
  <2>5. Q(g)
    BY <1>4, <2>2, <2>4
  <2> QED BY <2>5 DEF g
<1>5. CASE groups \in {[i \in 1 .. n |-> MaxInt32 - n + i] : n \in {1, 15, 16}}
  <2>1. PICK n \in {1, 15, 16} : groups = [i \in 1 .. n |-> MaxInt32 - n + i]
    BY <1>5, Zenon
  <2>2. n \in Nat /\ n <= 16
    OBVIOUS
  <2> HIDE DEF Q
  <2>3. Q(groups)
    BY <1>4, <2>1, <2>2, Zenon
  <2> QED BY <2>3 DEF Q
<1>6. CASE groups \in {<<>>, <<127>>, <<128>>, <<129>>, <<16383, 16384>>, <<2097151, 2097152, 268435455, 268435456>>}
  <2> HIDE DEF Q
  <2>1. Q(groups)
    BY <1>1, <1>2, <1>3, <1>6
  <2> QED BY <2>1 DEF Q
<1> QED BY <1>5, <1>6 DEF GroupLists

\* A relay with an announcer can be announced, for every name, address and list of groups;
\* Start's test agrees with the encoder on all of them (Start; encode's MAX_PAYLOAD).
THEOREM AlwaysAnnouncedFits == DeploymentSafety => []AnnouncedFits
<1>1. CapacityAgrees
  <2> SUFFICES ASSUME NEW name \in 1 .. 128, NEW v6 \in BOOLEAN, NEW groups \in GroupLists,
                      NEW r, r = [name |-> name, v6 |-> v6, groups |-> groups]
               PROVE  /\ FitsAnnouncement(r) <=> PayloadLength(r) <= MaxPayload
                      /\ name <= 19 => FitsAnnouncement(r)
    BY ZenonT(30) DEF CapacityAgrees
  <2>1. name \in Nat
    OBVIOUS
  <2> QED BY <2>1, GroupListsBounded, CapacityIsLength, Zenon
<1>2. DeploymentInv /\ StartedInv => AnnouncedFits
  <2> SUFFICES ASSUME DeploymentInv, StartedInv, announcer = "up"
               PROVE  PayloadLength([name |-> start.name.length, v6 |-> ~Is4(start.address),
                                     groups |-> start.access.groups]) <= MaxPayload
    BY <1>1, Zenon DEF AnnouncedFits
  <2>1. step = "started" /\ FitsAnnouncement(Advertised)
    BY Zenon DEF StartedInv, Passed
  <2>2. start.access.groups \in Seq(Nat)
    <3>1. /\ chosen \in Deployments /\ Loads(chosen.file)
          /\ start.access = LoadAccessConfig(chosen.file)
      BY <2>1, StartFields, Zenon
    <3>2. CASE chosen.file = NoFile
      <4>1. start.access = NoAccess
        BY <3>1, <3>2, Zenon DEF LoadAccessConfig
      <4>2. start.access.groups = <<>>
        BY <4>1 DEF NoAccess
      <4> QED BY <4>2
    <3>3. CASE chosen.file # NoFile
      <4> DEFINE groups == start.access.groups  N == Len(chosen.file.groups)
      <4>1. /\ groups \in [1 .. N -> Range(chosen.file.groups)] /\ N \in Nat
            /\ \A id \in Range(chosen.file.groups) : id \in Nat
        BY <3>1, <3>3, LoadedGroups, Zenon
      <4>2. groups \in [1 .. N -> Nat]
        BY <4>1, Zenon
      <4> HIDE DEF groups, N
      <4>3. groups \in Seq(Nat)
        BY <4>1, <4>2
      <4> QED BY <4>3 DEF groups
    <3> QED BY <3>2, <3>3, Zenon
  <2>3. start.name.length \in Nat
    <3>1. start.name.length \in 1 .. 128
      BY <2>1, Zenon DEF StartedInv, Passed, Acceptable
    <3> QED BY <3>1
  <2> QED BY <2>1, <2>2, <2>3, CapacityIsLength, Zenon DEF Advertised
<1> QED BY <1>2, DeploymentInvariant, StartedInvariant, PTL

\* The lists and the bytes that TLC encodes and decodes, in base 2.
LEMMA AlwaysEncodedOnce == EncodedOnce
<1>1. Radix(2) /\ Divides(2) /\ 3 \in Nat /\ 5 \in Nat
  BY Radixes, BasesDivide
<1>2. ASSUME NEW groups \in SUBSET (1 .. 5), NEW list,
             list = CHOOSE s \in [1 .. Cardinality(groups) -> groups] :
                      \A i, j \in DOMAIN s : i < j => s[i] < s[j]
      PROVE  DecodeGroups(2, 3, 5, EncodeGroups(2, list), Len(list)) = list
  <2> DEFINE N == Cardinality(groups)
             Increasing(s) == \A i, j \in DOMAIN s : i < j => s[i] < s[j]
  <2>1. groups \in SUBSET Nat /\ \A x \in groups : x \in 1 .. 5
    OBVIOUS
  <2>2. IsFiniteSet(groups) /\ N \in Nat
    <3>1. IsFiniteSet(1 .. 5)
      <4>1. 1 \in Int /\ 5 \in Int
        OBVIOUS
      <4> QED BY <4>1, FS_Interval, Zenon
    <3>2. IsFiniteSet(groups)
      BY <3>1, FS_Subset, Zenon
    <3> QED BY <3>2, FS_CardinalityType, Zenon
  <2>3. PICK e : Enumerates(e, N, groups)
    BY <2>1, <2>2, Enumerable, Zenon
  <2>4. e \in [1 .. N -> groups] /\ Increasing(e)
    BY <2>3, Zenon DEF Enumerates
  <2>5. list \in [1 .. N -> groups] /\ Increasing(list)
    <3> HIDE DEF Increasing, N
    <3>1. list = CHOOSE s \in [1 .. N -> groups] : Increasing(s)
      BY <1>2, Zenon DEF Increasing, N
    <3> QED BY <2>4, <3>1, Zenon
  <2> HIDE DEF N
  <2>6. list \in [1 .. N -> Nat]
    BY <2>1, <2>5, Zenon
  <2>7. list \in Seq(Nat) /\ Len(list) = N /\ DOMAIN list = 1 .. N
    BY <2>2, <2>6
  <2>8. \A i \in 1 .. N : list[i] \in 1 .. 5 /\ Len(EncodeGroup(2, list[i])) <= 3
    BY <2>1, <2>5, ShortGroups, Zenon
  <2>9. ASSUME NEW i \in 1 .. N - 1 PROVE list[i] < list[i + 1]
    <3>1. i \in 1 .. N /\ i + 1 \in 1 .. N /\ i < i + 1
      BY <2>2
    <3> QED BY <2>5, <2>7, <3>1, Zenon
  <2>10. Encodable(2, 3, 5, list)
    BY <2>7, <2>8, <2>9, Zenon DEF Encodable
  <2> QED BY <1>1, <2>7, <2>10, DecodeEncoded, Zenon
<1>3. ASSUME NEW raw \in UNION {[1 .. n -> 0 .. 3] : n \in 1 .. 5}, NEW count \in 1 .. 3,
             DecodeGroups(2, 3, 5, raw, count) # <<>>
      PROVE  EncodeGroups(2, DecodeGroups(2, 3, 5, raw, count)) = raw
  <2>1. PICK n \in 1 .. 5 : raw \in [1 .. n -> 0 .. 3]
    BY Zenon
  <2>2. n \in Nat /\ count \in Nat /\ \A x \in 0 .. 3 : x \in Nat /\ x < 2 + 2
    OBVIOUS
  <2>3. raw \in [1 .. n -> Nat] /\ \A i \in 1 .. n : raw[i] < 2 + 2
    BY <2>1, <2>2, Zenon
  <2>4. raw \in Seq(Nat) /\ Len(raw) = n
    BY <2>2, <2>3
  <2>5. Bytes(2, raw)
    BY <2>3, <2>4, Zenon DEF Bytes
  <2> QED BY <1>1, <1>3, <2>2, <2>4, <2>5, EncodeDecoded, Zenon
<1> QED BY <1>2, <1>3, Zenon DEF EncodedOnce

\* What a running announcer signs is read as the groups that the relay admits, for every
\* file that a deployment may load; and a list has one encoding, so that two different signed
\* payloads never say the same (encode and decode, LoadAccessConfig's sort).
THEOREM GroupsAlwaysCanonical == DeploymentSafety => []GroupsCanonical
<1>1. DeploymentInv /\ StartedInv => GroupsCanonical
  <2> DEFINE groups == start.access.groups
  <2> SUFFICES ASSUME DeploymentInv, StartedInv, announcer = "up"
               PROVE  DecodeGroups(128, 5, MaxInt32, EncodeGroups(128, groups), Len(groups)) = groups
    BY AlwaysEncodedOnce, Zenon DEF GroupsCanonical
  <2>1. step = "started"
    BY Zenon DEF StartedInv, Passed
  <2>2. chosen \in Deployments /\ Loads(chosen.file) /\ start.access = LoadAccessConfig(chosen.file)
    BY <2>1, StartFields, Zenon
  <2>3. Radix(128) /\ Divides(128) /\ 5 \in Nat /\ MaxInt32 \in Nat
    BY Radixes, BasesDivide DEF MaxInt32
  <2>4. groups \in Seq(Nat) /\ Encodable(128, 5, MaxInt32, groups)
    <3>1. CASE chosen.file = NoFile
      <4>1. start.access = NoAccess
        BY <2>2, <3>1, Zenon DEF LoadAccessConfig
      <4>2. groups = <<>>
        BY <4>1 DEF NoAccess
      <4>3. <<>> \in Seq(Nat) /\ \A i \in 1 .. Len(<<>>) : FALSE
        OBVIOUS
      <4>4. \A i \in 1 .. Len(<<>>) - 1 : FALSE
        OBVIOUS
      <4> QED BY <4>2, <4>3, <4>4, Zenon DEF Encodable
    <3>2. CASE chosen.file # NoFile
      <4> DEFINE file == chosen.file.groups
                 N == Len(file)
      <4>1. /\ groups \in [1 .. N -> Range(file)] /\ N \in Nat
            /\ \A i, j \in 1 .. N : i < j => groups[i] < groups[j]
            /\ \A id \in Range(file) : id \in Nat /\ 0 < id /\ id <= MaxInt32
        BY <2>2, <3>2, LoadedGroups, Zenon
      <4> HIDE DEF N, file, groups
      <4>2. groups \in [1 .. N -> Nat]
        BY <4>1, Zenon
      <4>3. groups \in Seq(Nat) /\ Len(groups) = N
        BY <4>1, <4>2
      <4>4. ASSUME NEW id \in Nat, 0 < id, id <= MaxInt32 PROVE id \in 1 .. MaxInt32
        BY <2>3, <4>4
      <4>5. \A i \in 1 .. N : groups[i] \in 1 .. MaxInt32 /\ Len(EncodeGroup(128, groups[i])) <= 5
        BY <4>1, <4>4, ShortGroups, Zenon
      <4>6. ASSUME NEW i \in 1 .. N - 1 PROVE i \in 1 .. N /\ i + 1 \in 1 .. N /\ i < i + 1
        BY <4>1
      <4>7. \A i \in 1 .. N - 1 : groups[i] < groups[i + 1]
        BY <4>1, <4>6, Zenon
      <4> QED BY <4>3, <4>5, <4>7, Zenon DEF Encodable
    <3> QED BY <3>1, <3>2, Zenon
  <2> HIDE DEF groups
  <2> QED BY <2>3, <2>4, DecodeEncoded, Zenon
<1> QED BY <1>1, DeploymentInvariant, StartedInvariant, PTL
================================================================================
