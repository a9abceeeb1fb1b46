---------------------------- MODULE DiscoveryCodec -----------------------------
(***************************************************************************)
(* The signed advertisement of a relay (scripts/masque_discovery_codec.py,   *)
(* encode and decode).                                                       *)
(*                                                                         *)
(* A field whose bytes do not matter is its length.  Group identifiers are  *)
(* encoded as they are, in digits of base `radix` (128 in the code) with    *)
(* `radix` added to all but the last.                                       *)
(***************************************************************************)
EXTENDS Integers, Sequences

\* encode: one group, least significant digit first; and all of them.
EncodeGroup(radix, group) ==
  LET digits[n \in Nat] ==
        IF n < radix THEN <<n>> ELSE <<(n % radix) + radix>> \o digits[n \div radix]
  IN digits[group]

EncodeGroups(radix, groups) ==
  LET packed[n \in 0 .. Len(groups)] ==
        IF n = 0 THEN <<>> ELSE packed[n - 1] \o EncodeGroup(radix, groups[n])
  IN packed[Len(groups)]

--------------------------------------------------------------------------------
(* decode of the group list: `count` groups fill the bytes between name and tail. *)

\* Mutant: a last digit of zero is accepted.
CanonicalAlways(digits) == TRUE

Canonical(digits) == Len(digits) > 1 => digits[Len(digits)] # 0

\* The digits of the group that starts after `offset` bytes: up to maxDigits, of which only
\* the last has no continuation mark; <<>> if there is no such last one.
DigitsAt(radix, maxDigits, raw, offset) ==
  LET ends == {n \in 1 .. maxDigits :
                 /\ offset + n <= Len(raw) /\ raw[offset + n] < radix
                 /\ \A m \in 1 .. n - 1 : raw[offset + m] >= radix}
  IN IF ends = {} THEN <<>> ELSE [i \in 1 .. CHOOSE n \in ends : TRUE |-> raw[offset + i]]

\* From the last digit to the first.
Value(radix, digits) ==
  LET value[n \in 0 .. Len(digits)] ==
        IF n = 0 THEN 0 ELSE (digits[Len(digits) - n + 1] % radix) + radix * value[n - 1]
  IN value[Len(digits)]

\* One group after those read before.
DecodeGroup(radix, maxDigits, max, raw, before) ==
  LET digits == DigitsAt(radix, maxDigits, raw, before.offset)
      value == Value(radix, digits)
  IN [ok |-> before.ok /\ digits # <<>> /\ Canonical(digits) /\ value \in 1 .. max,
      offset |-> before.offset + Len(digits),
      groups |-> Append(before.groups, value)]

\* The groups, or <<>> for any error (a group list that is refused).
DecodeGroups(radix, maxDigits, max, raw, count) ==
  LET read[n \in 0 .. count] ==
        IF n = 0 THEN [ok |-> TRUE, offset |-> 0, groups |-> <<>>]
        ELSE DecodeGroup(radix, maxDigits, max, raw, read[n - 1])
      all == read[count]
  IN IF all.ok /\ all.offset = Len(raw)
        /\ \A i \in 1 .. count - 1 : all.groups[i] < all.groups[i + 1]
     THEN all.groups ELSE <<>>

--------------------------------------------------------------------------------
(* Lengths, for a relay with [name: its length, v6, groups]. *)

\* encode: the header of version 3 with a ticket key, of version 2 without; the address;
\* port and expiry; pin; name; groups; then keys and the signature.
PayloadLength(r) ==
  LET tickets == r.groups # <<>>
      header == IF tickets THEN 3 ELSE 4
      identity == IF tickets THEN 64 + 32 ELSE 32
  IN header + (IF r.v6 THEN 16 ELSE 4) + (2 + 4) + 32 + r.name
       + Len(EncodeGroups(128, r.groups)) + identity + 64
================================================================================
