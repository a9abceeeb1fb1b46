------------------------------ MODULE TicketStore ------------------------------
(***************************************************************************)
(* What the ticket authority keeps (internal/relay/tickets.go): the bbolt  *)
(* database (high-water mark, hourly signing keys, spent markers, issuance *)
(* quota), the key cache in memory, and the two clocks the code reads.     *)
(*                                                                         *)
(* Time is counted in whole hours, the unit of every comparison the        *)
(* authority makes: `wall` is time.Now().Unix()/3600 and `mono` is the     *)
(* monotonic reading that Go timers and time.Until use.  Sub-hour delays   *)
(* (a 30 s cache, a one-minute challenge) are nondeterministic choices of  *)
(* the modules that extend this one.                                       *)
(***************************************************************************)
EXTENDS Integers, FiniteSets

CONSTANTS
  Accounts,     \* Qortal addresses that may ask for tickets
  Policies,     \* revisions: hashes of (mode, allowed groups)
  Pins,         \* hashes of the relay's TLS certificate
  Lifetime,     \* ticketLifetime in hours (12 in the code)
  MaxHour,      \* bound: the clocks stop here
  QuotaMax,     \* tickets per account and hour (24)
  MaxTickets    \* bound: messages the model tells apart

ASSUME StoreAssumption ==
  /\ Lifetime \in Nat \ {0}
  /\ MaxHour \in Nat \ {0}
  /\ QuotaMax \in Nat
  /\ MaxTickets \in Nat

VARIABLES
  wall, mono,           \* the clocks
  up, policy, pin,      \* is the process running, and with which configuration
  latestEpoch,          \* db meta/latestEpoch
  keys,                 \* db keys: <<policy, epoch>> -> serial of the key, 0 = none
  spent,                \* db spent: the tickets that have a marker
  quota,                \* db quota: <<account, epoch>> -> tickets charged, 0 = none
  memKeys,              \* t.keys: epoch -> serial, 0 = none (lost in a crash)
  keyGen,               \* RSA keys generated so far; the next one is keyGen + 1
  published,            \* history: every descriptor() ever returned
  tickets               \* history: every ticket a client obtained a signature for

dbVars == <<latestEpoch, keys, spent, quota>>
storeVars == <<dbVars, memKeys, keyGen, published>>
procVars == <<up, policy, pin>>
clockVars == <<wall, mono>>

Hours == 0 .. MaxHour

\* What ticketKeyID hashes: policy, pin, epoch and the public key (its serial).
KeyIds == [policy: Policies, pin: Pins, epoch: Hours, serial: Nat]

\* A ticket is a random message, prefixed with the key id, that the key signed.
\* `no` tells messages apart.  `acct` is who obtained the blind signature: the
\* relay cannot see it, only properties mention it.
Tickets == [key: KeyIds, acct: Accounts, no: 1 .. MaxTickets]

\* The messages S are random, so they differ from every earlier one.
Fresh(S) == S \subseteq 1 .. MaxTickets /\ \A t \in tickets : t.no \notin S

StoreTypeOK ==
  /\ wall \in Hours /\ mono \in Hours
  /\ up \in BOOLEAN /\ policy \in Policies /\ pin \in Pins
  /\ latestEpoch \in Hours
  /\ keys \in [Policies \X Hours -> Nat]
  /\ spent \subseteq Tickets
  /\ quota \in [Accounts \X Hours -> 0 .. QuotaMax]
  /\ memKeys \in [Hours -> Nat]
  /\ keyGen \in Nat
  /\ published \subseteq KeyIds
  /\ tickets \subseteq Tickets

NoKeys == [e \in Hours |-> 0]

StoreInit ==
  /\ wall = 1 /\ mono = 1
  /\ up = FALSE /\ policy \in Policies /\ pin \in Pins
  /\ latestEpoch = 0
  /\ keys = [x \in Policies \X Hours |-> 0]
  /\ spent = {}
  /\ quota = [x \in Accounts \X Hours |-> 0]
  /\ memKeys = NoKeys
  /\ keyGen = 0
  /\ published = {}
  /\ tickets = {}

--------------------------------------------------------------------------------
(* Records of an epoch at or below now - 12 are expired. *)
Expired(e) == e <= wall - Lifetime

\* Mutants: a record is pruned an hour before it expires.
PrunedQuotaEarly ==
  [x \in DOMAIN quota |-> IF x[2] <= wall - Lifetime + 1 THEN 0 ELSE quota[x]]
PrunedKeysEarly ==
  [x \in DOMAIN keys |-> IF x[2] <= wall - Lifetime + 1 THEN 0 ELSE keys[x]]
PrunedSpentEarly == {t \in spent : t.key.epoch > wall - Lifetime + 1}

PrunedSpent == {t \in spent : ~Expired(t.key.epoch)}
PrunedQuota == [x \in DOMAIN quota |-> IF Expired(x[2]) THEN 0 ELSE quota[x]]
PrunedKeys == [x \in DOMAIN keys |-> IF Expired(x[2]) THEN 0 ELSE keys[x]]

\* Mutant: the mark is not compared with the clock.
ClockUnchecked == TRUE

\* descriptor's checks before it looks for a key: the epoch is one whose tickets
\* can be alive, and the clock is not behind the recorded high-water mark.
EpochServed(e) == e <= wall /\ ~Expired(e)
ClockAccepted == wall >= latestEpoch

\* descriptor's first transaction: a new hour raises the mark and prunes.
RotatedKeys == IF wall > latestEpoch THEN PrunedKeys ELSE keys
Rotate ==
  /\ latestEpoch' = wall
  /\ spent' = IF wall > latestEpoch THEN PrunedSpent ELSE spent
  /\ quota' = IF wall > latestEpoch THEN PrunedQuota ELSE quota

\* The key descriptor finds for epoch e under policy p: memory, then database.
KeyFor(e, p) == IF memKeys[e] # 0 THEN memKeys[e] ELSE keys[<<p, e>>]
ServedKey(e, p) == IF KeyFor(e, p) # 0 THEN KeyFor(e, p) ELSE keyGen + 1
KeyId(e, p, c) == [policy |-> p, pin |-> c, epoch |-> e, serial |-> ServedKey(e, p)]

\* descriptor(e) returns a descriptor.  A missing key is generated, and stored
\* before it is used, for the current hour only.
DescriptorOK(e, p, c) ==
  /\ EpochServed(e) /\ ClockAccepted
  /\ KeyFor(e, p) # 0 \/ e = wall
  /\ Rotate
  /\ keys' = IF KeyFor(e, p) = 0
             THEN [RotatedKeys EXCEPT ![<<p, e>>] = keyGen + 1]
             ELSE RotatedKeys
  /\ keyGen' = IF KeyFor(e, p) = 0 THEN keyGen + 1 ELSE keyGen
  /\ memKeys' = [x \in Hours |-> IF Expired(x) THEN 0
                                 ELSE IF x = e THEN ServedKey(e, p) ELSE memKeys[x]]
  /\ published' = published \union {KeyId(e, p, c)}

\* descriptor(e) returns an error: refused before its first transaction (or that
\* transaction failed), or after it committed (no key, or an I/O error).
DescriptorErr(e) ==
  \/ UNCHANGED storeVars
  \/ /\ EpochServed(e) /\ ClockAccepted
     /\ Rotate
     /\ keys' = RotatedKeys
     /\ UNCHANGED <<memKeys, keyGen, published>>

--------------------------------------------------------------------------------
(* The environment. *)

\* An hour passes.
Tick ==
  /\ wall < MaxHour /\ mono < MaxHour
  /\ wall' = wall + 1 /\ mono' = mono + 1

\* The system clock is set an hour forward: wall time only.
ClockJump ==
  /\ wall < MaxHour
  /\ wall' = wall + 1
  /\ UNCHANGED mono

\* The system clock is set an hour back.
ClockBack ==
  /\ wall > 0
  /\ wall' = wall - 1
  /\ UNCHANGED mono

\* newTicketAuthority: opens the database with an empty memory, and starts only
\* if descriptor(now) succeeds.
StoreStart(p, c) ==
  /\ ~up
  /\ DescriptorOK(wall, p, c)
  /\ up' = TRUE /\ policy' = p /\ pin' = c
  /\ UNCHANGED <<clockVars, tickets>>

StoreStartFails ==
  /\ ~up
  /\ DescriptorErr(wall)
  /\ UNCHANGED <<clockVars, procVars, tickets>>

\* The process stops (a crash, or close()): only the database survives.
StoreCrash ==
  /\ up
  /\ up' = FALSE
  /\ memKeys' = NoKeys
  /\ UNCHANGED <<clockVars, policy, pin, dbVars, keyGen, published, tickets>>

\* A caller other than the component that extends this module runs descriptor.
DescriptorCall(e) ==
  /\ up
  /\ DescriptorOK(e, policy, pin) \/ DescriptorErr(e)
  /\ UNCHANGED <<clockVars, procVars, tickets>>
================================================================================
