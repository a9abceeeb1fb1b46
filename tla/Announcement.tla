----------------------------- MODULE Announcement ------------------------------
(***************************************************************************)
(* The advertisement (DiscoveryCodec) of a deployed relay, and what the test *)
(* by which Start refuses a configuration that would not fit it is worth.    *)
(***************************************************************************)
EXTENDS Deployment, DiscoveryCodec

GroupLists ==
  {<<>>, <<127>>, <<128>>, <<129>>, <<16383, 16384>>, <<2097151, 2097152, 268435455, 268435456>>}
    \union {[i \in 1 .. n |-> MaxInt32 - n + i] : n \in {1, 15, 16}}

\* Start refuses exactly what the announcer could not encode, for names of every length
\* and group lists at the edges of their encoding ("Reject unadvertisable configurations
\* before opening the socket", Start; encode's MAX_PAYLOAD); and "even 16 maximum-size
\* group IDs and IPv6 fit the 316-byte budget with the default name" of 19 bytes (ACCESS.md).
CapacityAgrees ==
  \A name \in 1 .. 128, v6 \in BOOLEAN, groups \in GroupLists :
    LET r == [name |-> name, v6 |-> v6, groups |-> groups]
    IN /\ FitsAnnouncement(r) <=> PayloadLength(r) <= MaxPayload
       /\ name <= 19 => FitsAnnouncement(r)

\* What encode makes of a list, decode reads back, and whatever bytes decode accepts are the
\* ones encode makes of the groups it returns; with digits of base 2, three of which
\* overflow the bound as five of base 128 do 2^31.
EncodedOnce ==
  /\ \A groups \in SUBSET (1 .. 5) :
       LET list == CHOOSE s \in [1 .. Cardinality(groups) -> groups] :
                     \A i, j \in DOMAIN s : i < j => s[i] < s[j]
       IN groups # {} => DecodeGroups(2, 3, 5, EncodeGroups(2, list), Len(list)) = list
  /\ \A raw \in UNION {[1 .. n -> 0 .. 3] : n \in 1 .. 5}, count \in 1 .. 3 :
       LET groups == DecodeGroups(2, 3, 5, raw, count)
       IN groups # <<>> => EncodeGroups(2, groups) = raw

\* A group list has one encoding, so that two different signed payloads never say the same;
\* and what a running announcer signs says the groups the relay admits (encode, decode,
\* LoadAccessConfig's sort).
GroupsCanonical ==
  /\ EncodedOnce
  /\ announcer = "up" =>
       LET groups == start.access.groups
       IN DecodeGroups(128, 5, MaxInt32, EncodeGroups(128, groups), Len(groups)) = groups

\* A relay that runs an announcer can be announced: its signed advertisement is never
\* longer than a packet; and for every other configuration Start's capacity test agrees
\* with the encoder (Start, masque_discovery_codec.py's encode).
AnnouncedFits ==
  /\ CapacityAgrees
  /\ announcer = "up" =>
       PayloadLength([name |-> start.name.length, v6 |-> ~Is4(start.address),
                      groups |-> start.access.groups]) <= MaxPayload
================================================================================
