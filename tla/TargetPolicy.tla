----------------------------- MODULE TargetPolicy ------------------------------
(***************************************************************************)
(* Which addresses the relay advertises, maps and forwards to               *)
(* (internal/relay/server.go, publiclyRoutable, targetAllowed;              *)
(* internal/upnp/mapping.go, isPublicInternetAddress), as operators on      *)
(* addresses, against the registry of special-purpose blocks.               *)
(*                                                                         *)
(* An IPv4 address is its octets, and `mapped` says that it is written as   *)
(* ::ffff:a.b.c.d; such an address has no zone here.  An IPv6 address is    *)
(* the kind of block it lies in, "special" where the registry has a block   *)
(* that the code does not name, and whether it has a zone.                  *)
(***************************************************************************)
EXTENDS Integers, Sequences

V4(octets, mapped) == [family |-> 4, octets |-> octets, mapped |-> mapped]
V6(kind, zone) == [family |-> 6, kind |-> kind, zone |-> zone]
V6Kinds == {"unspecified", "loopback", "multicast", "link-local", "private", "documentation",
            "special", "global"}

Unmap(a) == IF a.family = 4 THEN [a EXCEPT !.mapped = FALSE] ELSE a
Is4(a) == a.family = 4 /\ ~a.mapped

Between(first, n, last) == first <= n /\ n <= last

\* net/netip.
Unspecified(o) == o = <<0, 0, 0, 0>>
Broadcast(o) == o = <<255, 255, 255, 255>>
Loopback(o) == o[1] = 127
Multicast(o) == Between(224, o[1], 239)
LinkLocal(o) == o[1] = 169 /\ o[2] = 254
Private(o) == o[1] = 10 \/ (o[1] = 172 /\ Between(16, o[2], 31)) \/ (o[1] = 192 /\ o[2] = 168)
V4Kind(o, kind) ==
  CASE kind = "unspecified" -> Unspecified(o) [] kind = "loopback" -> Loopback(o)
    [] kind = "multicast" -> Multicast(o) [] kind = "link-local" -> LinkLocal(o)
    [] kind = "private" -> Private(o)

\* IsUnspecified compares the whole value: ::ffff:0.0.0.0 and ::%zone are not unspecified.
\* The other tests look through the mapping and ignore the zone.
Is(a, kind) ==
  IF a.family = 4
  THEN V4Kind(a.octets, kind) /\ (kind = "unspecified" => ~a.mapped)
  ELSE a.kind = kind /\ (kind = "unspecified" => ~a.zone)
IsGlobalUnicast(a) ==
  /\ \A kind \in {"unspecified", "loopback", "multicast", "link-local"} : ~Is(a, kind)
  /\ Is4(a) => ~Broadcast(a.octets)

SharedSpace(o) == o[1] = 100 /\ Between(64, o[2], 127)

--------------------------------------------------------------------------------
\* Mutant: the benchmarking block is half as large.
SpecialOctetsShort(o) ==
  \/ o[1] = 0 \/ o[1] >= 224 \/ SharedSpace(o)
  \/ o[1] = 192 /\ o[2] = 0
  \/ o[1] = 198 /\ (o[2] = 18 \/ (o[2] = 51 /\ o[3] = 100))
  \/ o[1] = 203 /\ o[2] = 0 /\ o[3] = 113

SpecialOctets(o) ==
  \/ o[1] = 0 \/ o[1] >= 224 \/ SharedSpace(o)
  \/ o[1] = 192 /\ o[2] = 0
  \/ o[1] = 198 /\ (o[2] \in {18, 19} \/ (o[2] = 51 /\ o[3] = 100))
  \/ o[1] = 203 /\ o[2] = 0 /\ o[3] = 113

\* netip.Prefix.Contains is false of an address with a zone.
publiclyRoutable(address) ==
  LET a == Unmap(address)
  IN /\ \A kind \in {"unspecified", "loopback", "multicast", "link-local", "private"} : ~Is(a, kind)
     /\ Is4(a) => ~SpecialOctets(a.octets)
     /\ a.family = 6 => ~(a.kind = "documentation" /\ ~a.zone)

isPublicInternetAddress(a) ==
  /\ IsGlobalUnicast(a) /\ ~Is(a, "private")
  /\ Is4(a) => ~SharedSpace(a.octets)

\* Start's allowedTargets; a target is [address, port].
allowedTargets(targets) == {[t EXCEPT !.address = Unmap(@)] : t \in targets}

targetAllowed(target, exceptions, allowPrivate) ==
  LET a == Unmap(target.address)
      t == [target EXCEPT !.address = a]
  IN /\ target.port # 0
     /\ ~Is(a, "unspecified") /\ ~Is(a, "multicast") /\ (a.family = 6 => ~a.zone)
     /\ \/ publiclyRoutable(a)
        \/ /\ Is(a, "private") \/ Is(a, "loopback")
           /\ t \in allowedTargets(exceptions) \/ allowPrivate

--------------------------------------------------------------------------------
(* Properties. *)

Octets == (0 .. 255) \X (0 .. 255) \X (0 .. 255) \X (0 .. 255)
Addresses ==
  [family: {4}, octets: Octets, mapped: BOOLEAN] \union [family: {6}, kind: V6Kinds, zone: BOOLEAN]

\* The IPv4 blocks of the IANA special-purpose registry that are not globally reachable, and
\* multicast, each from the first to the last of its networks of 256 addresses.
Net(a, b, c) == (a * 256 + b) * 256 + c
NetOf(o) == Net(o[1], o[2], o[3])
PrivateOrLoopback(n) ==
  \/ Between(Net(10, 0, 0), n, Net(10, 255, 255)) \/ Between(Net(127, 0, 0), n, Net(127, 255, 255))
  \/ Between(Net(172, 16, 0), n, Net(172, 31, 255)) \/ Between(Net(192, 168, 0), n, Net(192, 168, 255))
SpecialPurpose(n) ==
  \/ PrivateOrLoopback(n)
  \/ Between(Net(0, 0, 0), n, Net(0, 255, 255)) \/ Between(Net(100, 64, 0), n, Net(100, 127, 255))
  \/ Between(Net(169, 254, 0), n, Net(169, 254, 255)) \/ n = Net(192, 0, 0)
  \/ n = Net(192, 0, 2) \/ Between(Net(198, 18, 0), n, Net(198, 19, 255))
  \/ n = Net(198, 51, 100) \/ n = Net(203, 0, 113)
  \/ Between(Net(224, 0, 0), n, Net(239, 255, 255)) \/ Between(Net(240, 0, 0), n, Net(255, 255, 255))

\* 192.0.0.0/16, of which two networks are in the registry and the code refuses all.
ProtocolBlock(n) == Between(Net(192, 0, 0), n, Net(192, 0, 255))

\* An IPv4 address that is routable is outside the registry's blocks, and one outside them is
\* routable unless in 192.0.0.0/16, in both spellings (publiclyRoutable).
RoutableMatchesRegistry(octets) ==
  \A o \in octets : \A m \in BOOLEAN :
    /\ publiclyRoutable(V4(o, m)) => ~SpecialPurpose(NetOf(o))
    /\ ~SpecialPurpose(NetOf(o)) /\ ~ProtocolBlock(NetOf(o)) => publiclyRoutable(V4(o, m))

\* UPnP never turns down a router whose address Start would advertise, and never maps a port
\* of a private or loopback address, or of the shared space if that is not written as
\* ::ffff:a.b.c.d (openWithClient's isPublicInternetAddress).  It lets pass other blocks of
\* the registry, which Start refuses.
MappableIfRoutable(octets) ==
  /\ \A o \in octets : \A m \in BOOLEAN :
       /\ publiclyRoutable(V4(o, m)) => isPublicInternetAddress(V4(o, m))
       /\ isPublicInternetAddress(V4(o, m)) =>
            /\ ~PrivateOrLoopback(NetOf(o))
            /\ Between(Net(100, 64, 0), NetOf(o), Net(100, 127, 255)) => m
  /\ \A kind \in V6Kinds : \A zone \in BOOLEAN :
       publiclyRoutable(V6(kind, zone)) => isPublicInternetAddress(V6(kind, zone))

\* A target is judged by where it is, not by how it or the operator's exception to it is
\* written: ::ffff:10.0.0.1 is 10.0.0.1 in both places, and an exception never opens what
\* is neither private nor loopback (targetAllowed, Start's allowedTargets).
JudgedByPlace(octets) ==
  \A o, x \in octets : \A mo, mx, private \in BOOLEAN :
    LET target(p, m) == [address |-> V4(p, m), port |-> 1]
        allowed == targetAllowed(target(o, mo), {target(x, mx)}, private)
        excepted == PrivateOrLoopback(NetOf(o)) /\ (private \/ o = x)
    IN /\ allowed <=> targetAllowed(target(o, FALSE), {target(x, FALSE)}, private)
       /\ allowed => ~SpecialPurpose(NetOf(o)) \/ excepted
       /\ (~SpecialPurpose(NetOf(o)) /\ ~ProtocolBlock(NetOf(o))) \/ excepted => allowed

\* What the relay's three tests of an address promise, of IPv4 addresses and pairs of them.
AddressesJudged(octets, places) ==
  RoutableMatchesRegistry(octets) /\ MappableIfRoutable(octets) /\ JudgedByPlace(places)

\* Addresses around the edges of every block, and one of each kind.
EdgeOctets ==
  {0, 9, 10, 11, 99, 100, 101, 126, 127, 128, 168, 169, 170, 171, 172, 173, 191, 192, 193, 197,
   198, 199, 202, 203, 204, 223, 224, 239, 240, 255}
    \X {0, 1, 15, 16, 17, 18, 19, 20, 31, 32, 50, 51, 52, 63, 64, 127, 128, 167, 168, 169, 253, 254, 255}
    \X {0, 1, 2, 3, 99, 100, 101, 112, 113, 114} \X {0, 1, 255}
KindOctets ==
  {<<10, 0, 0, 1>>, <<127, 0, 0, 1>>, <<172, 31, 0, 1>>, <<192, 168, 0, 1>>, <<8, 8, 8, 8>>,
   <<0, 0, 0, 0>>, <<169, 254, 0, 1>>, <<224, 0, 0, 1>>}
EdgesJudged == AddressesJudged(EdgeOctets, KindOctets)
================================================================================
