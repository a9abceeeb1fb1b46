------------------------- MODULE TicketAuthorityMoves --------------------------
(***************************************************************************)
(* Redemption alone, for any number of requests, accounts, policies, hours  *)
(* and any lifetime.  Then the inductive invariant of the whole authority,  *)
(* what each move of a request of issuance leaves true of that request and  *)
(* of the others, and that every step of the authority is one redemption's  *)
(* contract allows.                                                         *)
(***************************************************************************)
EXTENDS TicketAuthority, FiniteSetTheorems, TLAPS

Holds(r) == rpc[r] \in {"spent", "granted"}

\* Why a ticket has one live holder.  While descriptor still serves the ticket's hour,
\* at most one request has got past the marker, and the marker is there; the deadline
\* given once the hour is no longer served is already past.
SingleHolder ==
  \A r, s \in Requests :
    Holds(r) /\ Holds(s) /\ rticket[r] = rticket[s] /\ ~Expired(EpochOf(r)) => r = s

SingleUseInv ==
  /\ RedemptionTypeOK
  /\ mono <= wall
  /\ SingleHolder
  /\ UsableTicketIsMarked
  /\ NoDoubleLiveGrant
  /\ GrantEndsWithTicket

\* Why keys are never remade.  Every key handed out that the high-water mark does not
\* make expired is in the database, and the cache in memory agrees with it.
Kept(e) == e > latestEpoch - Lifetime

KeysRecorded ==
  \A k \in published :
    /\ k.epoch <= latestEpoch
    /\ k.serial # 0
    /\ Kept(k.epoch) => keys[<<k.policy, k.epoch>>] = k.serial

CacheAgrees(p) ==
  \A e \in Hours : memKeys[e] # 0 /\ Kept(e) => keys[<<p, e>>] = memKeys[e]

KeyInv ==
  /\ RedemptionTypeOK
  /\ KeysRecorded
  /\ CacheAgrees(policy)
  /\ ~up => memKeys = NoKeys
  /\ \A t \in tickets : t.key \in published
  /\ OneKeyPerHour

--------------------------------------------------------------------------------
(* descriptor *)

\* The parts of StoreTypeOK that descriptor writes.
DatabaseTypeOK ==
  /\ latestEpoch \in Hours
  /\ keys \in [Policies \X Hours -> Nat]
  /\ spent \subseteq Tickets
  /\ quota \in [Accounts \X Hours -> 0 .. QuotaMax]
  /\ memKeys \in [Hours -> Nat]
  /\ keyGen \in Nat
  /\ published \subseteq KeyIds

\* Pruning keeps the shape of the database.
LEMMA PrunedTypes ==
  ASSUME StoreTypeOK
  PROVE  /\ PrunedSpent \subseteq Tickets
         /\ PrunedQuota \in [Accounts \X Hours -> 0 .. QuotaMax]
         /\ PrunedKeys \in [Policies \X Hours -> Nat]
<1>1. 0 \in 0 .. QuotaMax
  BY StoreAssumption
<1>2. PrunedQuota \in [Accounts \X Hours -> 0 .. QuotaMax]
  BY <1>1, Zenon DEF StoreTypeOK, PrunedQuota
<1>3. PrunedKeys \in [Policies \X Hours -> Nat]
  BY Zenon DEF StoreTypeOK, PrunedKeys
<1> QED
  BY <1>2, <1>3, Zenon DEF StoreTypeOK, PrunedSpent

\* descriptor's first transaction keeps the shape of the database.
LEMMA RotateTypes ==
  ASSUME StoreTypeOK, Rotate
  PROVE  /\ latestEpoch' \in Hours
         /\ spent' \subseteq Tickets
         /\ quota' \in [Accounts \X Hours -> 0 .. QuotaMax]
         /\ RotatedKeys \in [Policies \X Hours -> Nat]
  BY PrunedTypes, Zenon DEF StoreTypeOK, Rotate, RotatedKeys

\* A key is a natural number, and the one that is served is not 0.
LEMMA ServedKeyType ==
  ASSUME StoreTypeOK, NEW e \in Hours, NEW p \in Policies, NEW c \in Pins
  PROVE  /\ KeyFor(e, p) \in Nat
         /\ ServedKey(e, p) \in Nat /\ ServedKey(e, p) # 0
         /\ KeyId(e, p, c) \in KeyIds
<1>1. KeyFor(e, p) \in Nat
  BY Zenon DEF StoreTypeOK, KeyFor
<1>2. ServedKey(e, p) \in Nat /\ ServedKey(e, p) # 0
  BY <1>1 DEF StoreTypeOK, ServedKey
<1> QED
  BY <1>1, <1>2, Zenon DEF KeyId, KeyIds

\* A successful descriptor keeps the types.
LEMMA DescriptorOKTypes ==
  ASSUME StoreTypeOK, NEW e \in Hours, NEW p \in Policies, NEW c \in Pins,
         DescriptorOK(e, p, c)
  PROVE  DatabaseTypeOK'
<1>1. Rotate
  BY Zenon DEF DescriptorOK
<1>2. keys' \in [Policies \X Hours -> Nat]
  BY <1>1, RotateTypes DEF DescriptorOK, StoreTypeOK
<1>3. memKeys' \in [Hours -> Nat]
  BY ServedKeyType, Zenon DEF DescriptorOK, StoreTypeOK
<1>4. published' \subseteq KeyIds
  BY ServedKeyType, Zenon DEF DescriptorOK, StoreTypeOK
<1>5. keyGen' \in Nat
  BY DEF DescriptorOK, StoreTypeOK
<1> QED
  BY <1>1, <1>2, <1>3, <1>4, <1>5, RotateTypes, Zenon DEF DatabaseTypeOK

\* So does a failing one.
LEMMA DescriptorErrTypes ==
  ASSUME StoreTypeOK, NEW e \in Hours, DescriptorErr(e)
  PROVE  DatabaseTypeOK'
<1>1. CASE UNCHANGED storeVars
  BY <1>1, Zenon DEF StoreTypeOK, DatabaseTypeOK, storeVars, dbVars
<1>2. CASE /\ Rotate /\ keys' = RotatedKeys
           /\ UNCHANGED <<memKeys, keyGen, published>>
  BY <1>2, RotateTypes, Zenon DEF StoreTypeOK, DatabaseTypeOK
<1> QED
  BY <1>1, <1>2, Zenon DEF DescriptorErr

--------------------------------------------------------------------------------
(* Types *)

\* The authority starts (StoreInit, RedeemInit) in a state of the declared types.
LEMMA InitTypes == RedemptionInit => RedemptionTypeOK
<1> SUFFICES ASSUME RedemptionInit PROVE RedemptionTypeOK
  BY Zenon
<1>1. 0 \in 0 .. QuotaMax
  BY StoreAssumption
<1>2. wall \in Hours /\ mono \in Hours /\ latestEpoch \in Hours
  BY StoreAssumption DEF RedemptionInit, StoreInit, Hours
<1>3. StoreTypeOK
  BY <1>1, <1>2, Zenon DEF RedemptionInit, StoreInit, StoreTypeOK, NoKeys
<1>4. RedeemTypeOK
  BY DEF RedemptionInit, RedeemInit, RedeemTypeOK
<1> QED
  BY <1>3, <1>4, Zenon DEF RedemptionTypeOK

\* A ticket's parts have their types.
LEMMA TicketParts ==
  ASSUME NEW t \in Tickets
  PROVE  t.key \in KeyIds /\ t.key.epoch \in Hours /\ t.key.policy \in Policies
         /\ t.key.pin \in Pins /\ t.key.serial \in Nat
  BY Zenon DEF Tickets, KeyIds

\* Every step that only calls descriptor, writes the quota or adds tickets keeps the types.
LEMMA OutsideStepTypes ==
  ASSUME RedemptionTypeOK, UNCHANGED redeemVars,
         Start \/ StoreStartFails \/ OtherDescriptorCall \/ Issuance
  PROVE  RedemptionTypeOK'
<1>1. RedeemTypeOK'
  BY Zenon DEF RedemptionTypeOK, RedeemTypeOK, redeemVars
<1> USE DEF RedemptionTypeOK
<1>2. CASE Start
  <2>1. PICK p \in Policies, c \in Pins : StoreStart(p, c)
    BY <1>2, Zenon DEF Start
  <2>2. DatabaseTypeOK'
    BY <2>1, DescriptorOKTypes, Zenon DEF StoreStart, StoreTypeOK
  <2> QED
    BY <1>1, <2>1, <2>2, Zenon DEF StoreStart, StoreTypeOK, DatabaseTypeOK, clockVars
<1>3. CASE StoreStartFails
  <2>1. DatabaseTypeOK'
    BY <1>3, DescriptorErrTypes, Zenon DEF StoreStartFails, StoreTypeOK
  <2> QED
    BY <1>1, <1>3, <2>1, Zenon DEF StoreStartFails, StoreTypeOK, DatabaseTypeOK, clockVars, procVars
<1>4. CASE OtherDescriptorCall
  <2>1. PICK e \in Hours : DescriptorCall(e)
    BY <1>4, Zenon DEF OtherDescriptorCall
  <2>2. DatabaseTypeOK'
    BY <2>1, DescriptorOKTypes, DescriptorErrTypes, Zenon DEF DescriptorCall, StoreTypeOK
  <2> QED
    BY <1>1, <2>1, <2>2, Zenon DEF DescriptorCall, StoreTypeOK, DatabaseTypeOK, clockVars, procVars
<1>5. CASE Issuance
  <2>1. PICK k \in published, a \in Accounts :
          \/ \E i, j \in 1 .. MaxTickets : ObtainTickets(k, a, i .. j)
          \/ \E n \in 1 .. QuotaMax : ChargeQuota(a, k.epoch, n)
    BY <1>5, Zenon DEF Issuance
  <2>2. k \in KeyIds /\ k.epoch \in Hours
    BY Zenon DEF StoreTypeOK, KeyIds
  <2>3. CASE \E i, j \in 1 .. MaxTickets : ObtainTickets(k, a, i .. j)
    <3>1. PICK i, j \in 1 .. MaxTickets : ObtainTickets(k, a, i .. j)
      BY <2>3, Zenon
    <3>2. tickets' \subseteq Tickets
      BY <2>2, <3>1 DEF ObtainTickets, Fresh, StoreTypeOK, Tickets
    <3> QED
      BY <1>1, <3>1, <3>2, Zenon DEF ObtainTickets, StoreTypeOK, clockVars, procVars, storeVars, dbVars
  <2>4. CASE \E n \in 1 .. QuotaMax : ChargeQuota(a, k.epoch, n)
    <3>1. PICK n \in 1 .. QuotaMax : ChargeQuota(a, k.epoch, n)
      BY <2>4, Zenon
    <3>2. quota' \in [Accounts \X Hours -> 0 .. QuotaMax]
      BY <2>2, <3>1, StoreAssumption DEF ChargeQuota, StoreTypeOK
    <3> QED
      BY <1>1, <3>1, <3>2, Zenon DEF ChargeQuota, StoreTypeOK, clockVars, procVars
  <2> QED
    BY <2>1, <2>3, <2>4, Zenon
<1> QED
  BY <1>2, <1>3, <1>4, <1>5, Zenon

\* Every step of redeem keeps the types.
LEMMA RedeemStepTypes ==
  ASSUME RedemptionTypeOK, RedeemStep
  PROVE  RedemptionTypeOK'
<1> USE DEF RedemptionTypeOK
<1>1. PICK r \in Requests :
        \/ \E t \in tickets : RedeemDescribe(r, t)
        \/ RedeemVerify(r) \/ RedeemSpend(r) \/ RedeemGrant(r)
  BY Zenon DEF RedeemStep
<1>2. CASE \E t \in tickets : RedeemDescribe(r, t)
  <2>1. PICK t \in tickets : RedeemDescribe(r, t)
    BY <1>2, Zenon
  <2>2. t \in Tickets /\ t.key.epoch \in Hours
    BY TicketParts, Zenon DEF StoreTypeOK
  <2>3. DatabaseTypeOK'
    BY <2>1, <2>2, DescriptorOKTypes, Zenon DEF RedeemDescribe, StoreTypeOK
  <2>4. RedeemTypeOK'
    BY <2>1, <2>2, Zenon DEF RedeemDescribe, RedeemTypeOK
  <2> QED
    BY <2>1, <2>3, <2>4, Zenon DEF RedeemDescribe, StoreTypeOK, DatabaseTypeOK, clockVars, procVars
<1>3. CASE RedeemVerify(r)
  BY <1>3, Zenon DEF RedeemVerify, Advance, Reject, RedeemTypeOK, StoreTypeOK,
              clockVars, procVars, storeVars, dbVars
<1>4. CASE RedeemSpend(r)
  <2>1. rticket[r] \in Tickets
    BY <1>4, Zenon DEF RedeemSpend, RedeemTypeOK
  <2>2. StoreTypeOK'
    BY <1>4, <2>1, PrunedTypes, Zenon DEF RedeemSpend, MarkSpent, StoreTypeOK, clockVars, procVars
  <2> QED
    BY <1>4, <2>2, Zenon DEF RedeemSpend, Advance, Reject, RedeemTypeOK
<1>5. CASE RedeemGrant(r)
  <2>1. EpochOf(r) \in Int
    BY <1>5, TicketParts DEF RedeemGrant, RedeemTypeOK, EpochOf, Hours
  <2>2. mono + (EpochOf(r) + Lifetime - wall) \in Int
    BY <2>1, StoreAssumption DEF StoreTypeOK, Hours
  <2> QED
    BY <1>5, <2>2, Zenon DEF RedeemGrant, Remaining, RedeemTypeOK, StoreTypeOK, clockVars, procVars, storeVars, dbVars
<1> QED
  BY <1>1, <1>2, <1>3, <1>4, <1>5, Zenon

\* A crash keeps the types.
LEMMA CrashTypes ==
  ASSUME RedemptionTypeOK, Crash
  PROVE  RedemptionTypeOK'
<1>1. StoreTypeOK'
  BY Zenon DEF RedemptionTypeOK, Crash, StoreCrash, StoreTypeOK, NoKeys, clockVars, dbVars
<1>2. RedeemTypeOK'
  BY Zenon DEF RedemptionTypeOK, Crash, RedeemCrash, RedeemTypeOK
<1> QED
  BY <1>1, <1>2, Zenon DEF RedemptionTypeOK

\* Every step keeps the types, whichever way the clock moves.
LEMMA StepTypes ==
  ASSUME RedemptionTypeOK, [RedemptionStep \/ AnyClock]_redemptionVars
  PROVE  RedemptionTypeOK'
<1>1. CASE RedemptionStep
  BY <1>1, RedeemStepTypes, CrashTypes, OutsideStepTypes, Zenon DEF RedemptionStep
<1>2. CASE AnyClock
  <2>1. wall' \in Hours /\ mono' \in Hours
    BY <1>2, StoreAssumption DEF AnyClock, Tick, ClockJump, ClockBack, RedemptionTypeOK, StoreTypeOK, Hours
  <2> QED
    BY <1>2, <2>1, Zenon DEF AnyClock, RedemptionTypeOK, StoreTypeOK, RedeemTypeOK,
                      procVars, storeVars, dbVars, redeemVars
<1>3. CASE UNCHANGED redemptionVars
  BY <1>3, Zenon DEF redemptionVars, RedemptionTypeOK, StoreTypeOK, RedeemTypeOK,
              clockVars, procVars, storeVars, dbVars, redeemVars
<1> QED
  BY <1>1, <1>2, <1>3, Zenon

\* Type correctness of redemption, with any clock.
THEOREM SkewTypeCorrect == RedemptionSkewSpec => []RedemptionTypeOK
  BY InitTypes, StepTypes, PTL DEF RedemptionSkewSpec

\* A clock that only moves forward is a special case.
LEMMA ForwardIsAny == RedemptionNext => RedemptionStep \/ AnyClock
  BY Zenon DEF RedemptionNext, ForwardClock, AnyClock

\* Type correctness of redemption.
THEOREM TypeCorrect == RedemptionSpec => []RedemptionTypeOK
<1>1. RedemptionTypeOK /\ [RedemptionNext]_redemptionVars => RedemptionTypeOK'
  BY StepTypes, ForwardIsAny, Zenon
<1> QED
  BY <1>1, InitTypes, PTL DEF RedemptionSpec

--------------------------------------------------------------------------------
(* A ticket has one live holder *)

\* What descriptor does to the markers: it can only remove those of expired hours.
LEMMA DescriptorMarkers ==
  ASSUME NEW e, NEW p, NEW c, DescriptorOK(e, p, c) \/ DescriptorErr(e)
  PROVE  PrunedSpent \subseteq spent'
  BY Zenon DEF DescriptorOK, DescriptorErr, Rotate, PrunedSpent, storeVars, dbVars

\* Every step other than the marker's transaction keeps the markers of unexpired hours.
LEMMA MarkersKept ==
  ASSUME RedemptionTypeOK, [RedemptionNext]_redemptionVars
  PROVE  PrunedSpent \subseteq spent'
<1>1. CASE RedeemStep
  <2>1. PICK r \in Requests :
          \/ \E t \in tickets : RedeemDescribe(r, t)
          \/ RedeemVerify(r) \/ RedeemSpend(r) \/ RedeemGrant(r)
    BY <1>1, Zenon DEF RedeemStep
  <2>2. CASE \E t \in tickets : RedeemDescribe(r, t)
    BY <2>2, DescriptorMarkers, Zenon DEF RedeemDescribe
  <2>3. CASE RedeemVerify(r) \/ RedeemSpend(r) \/ RedeemGrant(r)
    BY <2>3, Zenon DEF RedeemVerify, RedeemSpend, MarkSpent, RedeemGrant, PrunedSpent, storeVars, dbVars
  <2> QED
    BY <2>1, <2>2, <2>3, Zenon
<1>2. CASE Crash
  BY <1>2, Zenon DEF Crash, StoreCrash, PrunedSpent, dbVars
<1>3. CASE Start \/ StoreStartFails \/ OtherDescriptorCall
  BY <1>3, DescriptorMarkers, Zenon DEF Start, StoreStart, StoreStartFails, OtherDescriptorCall, DescriptorCall
<1>4. CASE Issuance
  BY <1>4, Zenon DEF Issuance, ObtainTickets, ChargeQuota, PrunedSpent, storeVars, dbVars
<1>5. CASE ForwardClock \/ UNCHANGED redemptionVars
  BY <1>5, Zenon DEF ForwardClock, redemptionVars, PrunedSpent, storeVars, dbVars
<1> QED
  BY <1>1, <1>2, <1>3, <1>4, <1>5, Zenon DEF RedemptionNext, RedemptionStep

\* A step that lets nobody past the marker, and does not turn a clock back.
Quiet ==
  /\ wall <= wall' /\ mono <= mono' /\ mono' <= wall'
  /\ deadline' = deadline
  /\ \A r \in Requests :
       rpc'[r] \in {"spent", "granted"} => rpc'[r] = rpc[r] /\ rticket'[r] = rticket[r]

\* Requests that hold a ticket have its epoch, an integer.
LEMMA HolderTypes ==
  ASSUME RedemptionTypeOK, NEW r \in Requests, Holds(r)
  PROVE  rticket[r] \in Tickets /\ EpochOf(r) \in Hours
  BY TicketParts, Zenon DEF RedemptionTypeOK, RedeemTypeOK, Holds, EpochOf

\* Quiet steps preserve the invariant: an hour that has expired stays expired.
LEMMA QuietStep ==
  ASSUME SingleUseInv, Quiet, RedemptionTypeOK', PrunedSpent \subseteq spent'
  PROVE  SingleUseInv'
<1> USE DEF SingleUseInv
<1>1. ASSUME NEW r \in Requests, Holds(r)'
      PROVE  /\ Holds(r) /\ rticket'[r] = rticket[r] /\ rpc'[r] = rpc[r]
             /\ EpochOf(r)' = EpochOf(r)
             /\ Expired(EpochOf(r)) => Expired(EpochOf(r))'
  <2>1. Holds(r) /\ rticket'[r] = rticket[r] /\ rpc'[r] = rpc[r]
    BY <1>1, Zenon DEF Quiet, Holds
  <2>2. EpochOf(r) \in Hours
    BY <2>1, HolderTypes, Zenon
  <2>3. EpochOf(r) \in Int /\ wall \in Int /\ wall' \in Int /\ Lifetime \in Int
    BY <2>2, StoreAssumption DEF RedemptionTypeOK, StoreTypeOK, Hours
  <2> QED
    BY <2>1, <2>3 DEF Quiet, EpochOf, Expired
<1>2. SingleHolder'
  BY <1>1, Zenon DEF SingleHolder
<1>3. UsableTicketIsMarked'
  <2> SUFFICES ASSUME NEW r \in Requests, Holds(r)', ~Expired(EpochOf(r))'
               PROVE  rticket'[r] \in spent'
    BY Zenon DEF UsableTicketIsMarked, Holds
  <2>1. rticket[r] \in spent /\ ~Expired(EpochOf(r))
    BY <1>1, Zenon DEF UsableTicketIsMarked, Holds
  <2>2. rticket[r] \in PrunedSpent
    BY <2>1, Zenon DEF PrunedSpent, EpochOf
  <2> QED
    BY <1>1, <2>2, Zenon
<1>4. NoDoubleLiveGrant'
  <2>1. ASSUME NEW r \in Requests, LiveGrant(r)'
        PROVE  LiveGrant(r) /\ rticket'[r] = rticket[r]
    <3>1. deadline[r] \in Int /\ mono \in Int /\ mono' \in Int
      BY DEF RedemptionTypeOK, StoreTypeOK, RedeemTypeOK, Hours
    <3>2. Holds(r)'
      BY <2>1, Zenon DEF LiveGrant, Granted, Holds
    <3> QED
      BY <1>1, <2>1, <3>1, <3>2 DEF LiveGrant, Granted, Quiet
  <2> QED
    BY <2>1, Zenon DEF NoDoubleLiveGrant
<1>5. GrantEndsWithTicket'
  BY <1>1, Zenon DEF GrantEndsWithTicket, Granted, Holds, Quiet
<1> QED
  BY <1>2, <1>3, <1>4, <1>5, Zenon DEF Quiet

\* All steps but the marker's transaction and redeem's return are quiet.
LEMMA OthersAreQuiet ==
  ASSUME SingleUseInv, [RedemptionNext]_redemptionVars,
         ~ \E r \in Requests : RedeemSpend(r) \/ RedeemGrant(r)
  PROVE  Quiet
<1> USE DEF SingleUseInv
<1>0. wall \in Int /\ mono \in Int /\ mono <= wall
  BY DEF RedemptionTypeOK, StoreTypeOK, Hours
<1> USE DEF RedemptionTypeOK, RedeemTypeOK
<1>1. CASE RedeemStep
  <2>1. PICK r \in Requests : (\E t \in tickets : RedeemDescribe(r, t)) \/ RedeemVerify(r)
    BY <1>1, Zenon DEF RedeemStep
  <2>2. UNCHANGED clockVars /\ deadline' = deadline
    BY <2>1, Zenon DEF RedeemDescribe, RedeemVerify, Advance, Reject
  <2>3. \A s \in Requests : rpc'[s] \in {"spent", "granted"} => s # r
    BY <2>1, Zenon DEF RedeemDescribe, RedeemVerify, Advance, Reject
  <2>4. \A s \in Requests : s # r => rpc'[s] = rpc[s] /\ rticket'[s] = rticket[s]
    BY <2>1, Zenon DEF RedeemDescribe, RedeemVerify, Advance, Reject
  <2> QED
    BY <1>0, <2>2, <2>3, <2>4 DEF Quiet, clockVars
<1>2. CASE Crash
  BY <1>0, <1>2 DEF Crash, StoreCrash, RedeemCrash, Quiet, clockVars
<1>3. CASE /\ Start \/ StoreStartFails \/ OtherDescriptorCall \/ Issuance
           /\ UNCHANGED redeemVars
  <2>1. UNCHANGED clockVars
    BY <1>3, Zenon DEF Start, StoreStart, StoreStartFails, OtherDescriptorCall, DescriptorCall,
                Issuance, ObtainTickets, ChargeQuota
  <2> QED
    BY <1>0, <1>3, <2>1 DEF Quiet, clockVars, redeemVars
<1>4. CASE ForwardClock
  BY <1>0, <1>4 DEF ForwardClock, Tick, ClockJump, Quiet, redeemVars
<1>5. CASE UNCHANGED redemptionVars
  BY <1>0, <1>5 DEF redemptionVars, Quiet, clockVars, redeemVars
<1> QED
  BY <1>1, <1>2, <1>3, <1>4, <1>5, Zenon DEF RedemptionNext, RedemptionStep

\* The transaction that marks the ticket: it runs only if no marker of an unexpired hour
\* is there, so no other request is past it.
LEMMA SpendStep ==
  ASSUME SingleUseInv, NEW r \in Requests, RedeemSpend(r), RedemptionTypeOK'
  PROVE  SingleUseInv'
<1> USE DEF SingleUseInv
<1>1. CASE Reject(r) /\ UNCHANGED <<spent, quota>>
  <2>1. Quiet
    BY <1>1 DEF RedeemSpend, Reject, Quiet, clockVars, RedemptionTypeOK, RedeemTypeOK,
                StoreTypeOK, Hours
  <2>2. PrunedSpent \subseteq spent'
    BY <1>1, Zenon DEF PrunedSpent
  <2> QED
    BY <2>1, <2>2, QuietStep, Zenon
<1>2. CASE /\ rticket[r] \notin PrunedSpent
           /\ spent' = PrunedSpent \union {rticket[r]}
           /\ Advance(r, "spent")
  <2>1. UNCHANGED <<wall, mono, rticket, deadline>>
    BY <1>2, Zenon DEF RedeemSpend, Advance, clockVars
  <2>2. /\ rpc'[r] = "spent"
        /\ \A s \in Requests : s # r => rpc'[s] = rpc[s]
    BY <1>2, Zenon DEF Advance, RedemptionTypeOK, RedeemTypeOK
  <2>3. \A s \in Requests : EpochOf(s)' = EpochOf(s) /\ (Expired(EpochOf(s))' <=> Expired(EpochOf(s)))
    BY <2>1, Zenon DEF EpochOf, Expired
  <2>4. ASSUME NEW s \in Requests, s # r, Holds(s), ~Expired(EpochOf(s))
        PROVE  rticket[s] \in PrunedSpent /\ rticket[s] # rticket[r]
    BY <1>2, <2>4, Zenon DEF UsableTicketIsMarked, Holds, PrunedSpent, EpochOf
  <2>5. SingleHolder'
    <3> SUFFICES ASSUME NEW s \in Requests, NEW q \in Requests,
                        Holds(s)', Holds(q)', rticket[s] = rticket[q], ~Expired(EpochOf(s)), s # q
                 PROVE  FALSE
      BY <2>1, <2>3, Zenon DEF SingleHolder
    <3>1. ~Expired(EpochOf(q))
      BY Zenon DEF EpochOf
    <3>2. s # r => Holds(s)
      BY <2>2, Zenon DEF Holds
    <3>3. q # r => Holds(q)
      BY <2>2, Zenon DEF Holds
    <3> QED
      BY <3>1, <3>2, <3>3, <2>4, Zenon DEF SingleHolder
  <2>6. UsableTicketIsMarked'
    <3> SUFFICES ASSUME NEW s \in Requests, Holds(s)', ~Expired(EpochOf(s))
                 PROVE  rticket[s] \in spent'
      BY <2>1, <2>3, Zenon DEF UsableTicketIsMarked, Holds
    <3> QED
      BY <1>2, <2>2, <2>4, Zenon DEF Holds
  <2>7. NoDoubleLiveGrant'
    BY <2>1, <2>2, Zenon DEF NoDoubleLiveGrant, LiveGrant, Granted
  <2>8. GrantEndsWithTicket'
    BY <2>1, <2>2, <2>3, Zenon DEF GrantEndsWithTicket, Granted
  <2> QED
    BY <2>1, <2>5, <2>6, <2>7, <2>8, Zenon
<1> QED
  BY <1>1, <1>2, Zenon DEF RedeemSpend, Unspent, MarkSpent

\* redeem returns: while the hour is served no other request holds the ticket; after it
\* the deadline is already past.
LEMMA GrantStep ==
  ASSUME SingleUseInv, NEW r \in Requests, RedeemGrant(r), RedemptionTypeOK'
  PROVE  SingleUseInv'
<1> USE DEF SingleUseInv
<1>1. UNCHANGED <<wall, mono, rticket, spent>>
  BY Zenon DEF RedeemGrant, clockVars, storeVars, dbVars
<1>2. /\ rpc[r] = "spent" /\ rpc'[r] = "granted"
      /\ deadline'[r] = mono + (EpochOf(r) + Lifetime - wall)
      /\ \A s \in Requests : s # r => rpc'[s] = rpc[s] /\ deadline'[s] = deadline[s]
  BY Zenon DEF RedeemGrant, Remaining, RedemptionTypeOK, RedeemTypeOK
<1>3. \A s \in Requests : Holds(s)' <=> Holds(s)
  BY <1>2, Zenon DEF Holds
<1>4. \A s \in Requests : EpochOf(s)' = EpochOf(s) /\ (Expired(EpochOf(s))' <=> Expired(EpochOf(s)))
  BY <1>1, Zenon DEF EpochOf, Expired
<1>5. SingleHolder'
  BY <1>1, <1>3, <1>4, Zenon DEF SingleHolder
<1>6. UsableTicketIsMarked'
  BY <1>1, <1>3, <1>4, Zenon DEF UsableTicketIsMarked, Holds
<1>7. EpochOf(r) \in Int /\ wall \in Int /\ mono \in Int /\ Lifetime \in Int
  <2>1. EpochOf(r) \in Hours
    BY <1>2, HolderTypes, Zenon DEF Holds
  <2> QED
    BY <2>1, StoreAssumption DEF RedemptionTypeOK, StoreTypeOK, Hours
<1>8. deadline'[r] > mono => ~Expired(EpochOf(r))
  BY <1>2, <1>7 DEF Expired
<1>9. NoDoubleLiveGrant'
  <2>1. ASSUME NEW s \in Requests, s # r, LiveGrant(s)', LiveGrant(r)', rticket[s] = rticket[r]
        PROVE  FALSE
    <3>1. Holds(r) /\ Holds(s) /\ ~Expired(EpochOf(r))
      BY <1>1, <1>2, <1>8, <2>1, Zenon DEF Holds, LiveGrant, Granted
    <3> QED
      BY <2>1, <3>1, Zenon DEF SingleHolder
  <2>2. \A s \in Requests : s # r => (LiveGrant(s)' <=> LiveGrant(s))
    BY <1>1, <1>2, Zenon DEF LiveGrant, Granted
  <2> QED
    BY <1>1, <2>1, <2>2, Zenon DEF NoDoubleLiveGrant
<1>10. GrantEndsWithTicket'
  <2>1. deadline'[r] <= EpochOf(r) + Lifetime
    BY <1>2, <1>7
  <2> QED
    BY <1>2, <1>4, <2>1, Zenon DEF GrantEndsWithTicket, Granted
<1> QED
  BY <1>1, <1>5, <1>6, <1>9, <1>10, Zenon

\* No request has begun when the authority first starts, so no ticket has a holder.
LEMMA SingleUseInit == RedemptionInit => SingleUseInv
<1> SUFFICES ASSUME RedemptionInit PROVE SingleUseInv
  BY Zenon
<1>1. \A r \in Requests : rpc[r] = "idle"
  BY Zenon DEF RedemptionInit, RedeemInit
<1> QED
  BY <1>1, InitTypes DEF SingleUseInv, RedemptionInit, StoreInit, SingleHolder, Holds,
     UsableTicketIsMarked, NoDoubleLiveGrant, LiveGrant, Granted, GrantEndsWithTicket

\* Every step of redemption, of its environment and of a clock that runs forward keeps
\* the single-use invariant.
LEMMA SingleUseStep ==
  ASSUME SingleUseInv, [RedemptionNext]_redemptionVars
  PROVE  SingleUseInv'
<1>1. RedemptionTypeOK'
  BY StepTypes, ForwardIsAny, Zenon DEF SingleUseInv
<1>2. CASE \E r \in Requests : RedeemSpend(r)
  BY <1>1, <1>2, SpendStep, Zenon
<1>3. CASE \E r \in Requests : RedeemGrant(r)
  BY <1>1, <1>3, GrantStep, Zenon
<1>4. CASE ~ \E r \in Requests : RedeemSpend(r) \/ RedeemGrant(r)
  <2>1. Quiet
    BY <1>4, OthersAreQuiet, Zenon
  <2>2. PrunedSpent \subseteq spent'
    BY MarkersKept, Zenon DEF SingleUseInv
  <2> QED
    BY <1>1, <2>1, <2>2, QuietStep, Zenon
<1> QED
  BY <1>2, <1>3, <1>4, Zenon

\* At every moment at most one unexpired authorization comes from a ticket, for any
\* number of concurrent redemptions, crashes and forward clock changes.
THEOREM TicketHasOneHolder == RedemptionSpec => []NoDoubleLiveGrant
<1>1. SingleUseInv => NoDoubleLiveGrant
  BY Zenon DEF SingleUseInv
<1> QED
  BY <1>1, SingleUseInit, SingleUseStep, PTL DEF RedemptionSpec

\* The durable marker outlives every use that could still be repeated.
THEOREM MarkersAreDurable == RedemptionSpec => []UsableTicketIsMarked
<1>1. SingleUseInv => UsableTicketIsMarked
  BY Zenon DEF SingleUseInv
<1> QED
  BY <1>1, SingleUseInit, SingleUseStep, PTL DEF RedemptionSpec

\* No authorization lasts longer than its ticket.
THEOREM GrantsEnd == RedemptionSpec => []GrantEndsWithTicket
<1>1. SingleUseInv => GrantEndsWithTicket
  BY Zenon DEF SingleUseInv
<1> QED
  BY <1>1, SingleUseInit, SingleUseStep, PTL DEF RedemptionSpec

--------------------------------------------------------------------------------
(* Keys are never remade, with any clock *)

\* What the key descriptor finds is what the database has.
LEMMA FoundInDatabase ==
  ASSUME StoreTypeOK, NEW e \in Hours, NEW p \in Policies, CacheAgrees(p),
         EpochServed(e), ClockAccepted
  PROVE  Kept(e) /\ KeyFor(e, p) = keys[<<p, e>>]
<1>1. Kept(e)
  BY StoreAssumption DEF Kept, EpochServed, Expired, ClockAccepted, StoreTypeOK, Hours
<1> QED
  BY <1>1, Zenon DEF CacheAgrees, KeyFor

\* Raising the mark prunes only keys the new mark makes expired.
LEMMA RotateKeeps ==
  ASSUME StoreTypeOK, Rotate, ClockAccepted, NEW p \in Policies, NEW e \in Hours, Kept(e)'
  PROVE  Kept(e) /\ ~Expired(e) /\ RotatedKeys[<<p, e>>] = keys[<<p, e>>]
<1>1. Kept(e) /\ ~Expired(e)
  BY StoreAssumption DEF Kept, Expired, Rotate, ClockAccepted, StoreTypeOK, Hours
<1>2. <<p, e>> \in DOMAIN keys /\ <<p, e>>[2] = e
  BY Zenon DEF StoreTypeOK
<1>3. PrunedKeys[<<p, e>>] = keys[<<p, e>>]
  BY <1>1, <1>2, Zenon DEF PrunedKeys
<1> QED
  BY <1>1, <1>3, Zenon DEF RotatedKeys

\* A successful descriptor: a key it generates is the first of its policy and hour.
LEMMA DescriptorOKKeys ==
  ASSUME StoreTypeOK, KeysRecorded, OneKeyPerHour,
         NEW e \in Hours, NEW p \in Policies, NEW c \in Pins, CacheAgrees(p),
         DescriptorOK(e, p, c)
  PROVE  KeysRecorded' /\ CacheAgrees(p)' /\ OneKeyPerHour'
<1> DEFINE new == KeyId(e, p, c)
<1>1. /\ Rotate /\ ClockAccepted /\ EpochServed(e)
      /\ published' = published \union {new}
      /\ latestEpoch' = wall
  BY Zenon  DEF DescriptorOK, Rotate
<1>2. Kept(e) /\ KeyFor(e, p) = keys[<<p, e>>]
  BY <1>1, FoundInDatabase, Zenon
<1>3. /\ new.policy = p /\ new.epoch = e /\ new.serial = ServedKey(e, p)
      /\ ServedKey(e, p) \in Nat \ {0}
  BY ServedKeyType, Zenon DEF KeyId
<1>4. wall \in Int /\ latestEpoch \in Int /\ latestEpoch <= wall /\ e \in Int /\ e <= wall
  BY <1>1 DEF StoreTypeOK, Hours, ClockAccepted, EpochServed
<1>5. Kept(e)'
  BY <1>1, <1>4, StoreAssumption DEF Kept, EpochServed, Expired
<1>6. keys'[<<p, e>>] = ServedKey(e, p)
  <2>1. RotatedKeys[<<p, e>>] = keys[<<p, e>>]
    BY <1>1, <1>5, RotateKeeps, Zenon
  <2>2. <<p, e>> \in DOMAIN RotatedKeys
    BY <1>1, RotateTypes, Zenon
  <2> QED
    BY <1>2, <2>1, <2>2, Zenon DEF DescriptorOK, ServedKey
<1>7. ASSUME NEW q \in Policies, NEW d \in Hours, <<q, d>> # <<p, e>>, Kept(d)'
      PROVE  Kept(d) /\ keys'[<<q, d>>] = keys[<<q, d>>]
  <2>1. Kept(d) /\ RotatedKeys[<<q, d>>] = keys[<<q, d>>]
    BY <1>1, <1>7, RotateKeeps, Zenon
  <2>2. RotatedKeys \in [Policies \X Hours -> Nat]
    BY <1>1, RotateTypes, Zenon
  <2> QED
    BY <1>7, <2>1, <2>2, Zenon DEF DescriptorOK
<1>8. ASSUME NEW k \in published, k.policy = p, k.epoch = e
      PROVE  k.serial = ServedKey(e, p)
  BY <1>2, <1>8, Zenon DEF KeysRecorded, ServedKey
<1>9. KeysRecorded'
  <2> SUFFICES ASSUME NEW k \in published'
               PROVE  /\ k.epoch <= latestEpoch'
                      /\ k.serial # 0
                      /\ Kept(k.epoch)' => keys'[<<k.policy, k.epoch>>] = k.serial
    BY Zenon DEF KeysRecorded
  <2>1. CASE k = new
    BY <1>1, <1>3, <1>4, <1>6, <2>1, Zenon
  <2>2. CASE k \in published
    <3>1. k.policy \in Policies /\ k.epoch \in Hours /\ k.epoch \in Int
      BY <2>2 DEF StoreTypeOK, KeyIds, Hours
    <3>2. k.epoch <= latestEpoch /\ k.serial # 0
      BY <2>2, Zenon DEF KeysRecorded
    <3>3. CASE k.policy = p /\ k.epoch = e
      BY <1>1, <1>4, <1>6, <1>8, <2>2, <3>2, <3>3, Zenon
    <3>4. CASE ~(k.policy = p /\ k.epoch = e)
      <4>1. Kept(k.epoch)' => keys'[<<k.policy, k.epoch>>] = k.serial
        BY <1>7, <2>2, <3>1, <3>4, Zenon DEF KeysRecorded
      <4> QED
        BY <1>1, <1>4, <3>1, <3>2, <4>1
    <3> QED
      BY <3>3, <3>4, Zenon
  <2> QED
    BY <1>1, <2>1, <2>2, Zenon
<1>10. CacheAgrees(p)'
  <2> SUFFICES ASSUME NEW d \in Hours, memKeys'[d] # 0, Kept(d)'
               PROVE  keys'[<<p, d>>] = memKeys'[d]
    BY Zenon DEF CacheAgrees
  <2>1. ~Expired(d)
    BY <1>1, RotateKeeps, Zenon
  <2>2. memKeys'[d] = IF d = e THEN ServedKey(e, p) ELSE memKeys[d]
    BY <2>1, Zenon DEF DescriptorOK
  <2>3. CASE d = e
    BY <1>6, <2>2, <2>3, Zenon
  <2>4. CASE d # e
    BY <1>7, <2>2, <2>4, Zenon DEF CacheAgrees
  <2> QED
    BY <2>3, <2>4, Zenon
<1>11. OneKeyPerHour'
  BY <1>1, <1>3, <1>8 DEF OneKeyPerHour
<1> QED
  BY <1>9, <1>10, <1>11, Zenon

\* A failing descriptor hands nothing out.
LEMMA DescriptorErrKeys ==
  ASSUME StoreTypeOK, KeysRecorded, OneKeyPerHour,
         NEW e \in Hours, NEW p \in Policies, CacheAgrees(p), DescriptorErr(e)
  PROVE  KeysRecorded' /\ CacheAgrees(p)' /\ OneKeyPerHour' /\ UNCHANGED <<memKeys, published>>
<1>1. CASE UNCHANGED storeVars
  BY <1>1, Zenon DEF storeVars, dbVars, KeysRecorded, CacheAgrees, OneKeyPerHour, Kept
<1>2. CASE /\ ClockAccepted /\ Rotate /\ keys' = RotatedKeys
           /\ UNCHANGED <<memKeys, keyGen, published>>
  <2>1. latestEpoch' = wall /\ latestEpoch <= wall /\ latestEpoch \in Int /\ wall \in Int
    BY <1>2, SMTT(30) DEF Rotate, ClockAccepted, StoreTypeOK, Hours
  <2>2. \A q \in Policies, d \in Hours : Kept(d)' => Kept(d) /\ keys'[<<q, d>>] = keys[<<q, d>>]
    BY <1>2, RotateKeeps, Zenon
  <2>3. \A k \in published : k.policy \in Policies /\ k.epoch \in Hours /\ k.epoch \in Int
    BY DEF StoreTypeOK, KeyIds, Hours
  <2>4. KeysRecorded'
    <3> SUFFICES ASSUME NEW k \in published
                 PROVE  /\ k.epoch <= latestEpoch'
                        /\ k.serial # 0
                        /\ Kept(k.epoch)' => keys'[<<k.policy, k.epoch>>] = k.serial
      BY <1>2, Zenon DEF KeysRecorded
    <3>1. k.epoch <= latestEpoch /\ k.serial # 0
      BY ZenonT(30) DEF KeysRecorded
    <3>2. Kept(k.epoch)' => keys'[<<k.policy, k.epoch>>] = k.serial
      BY <2>2, <2>3, Zenon DEF KeysRecorded
    <3> QED
      BY <2>1, <2>3, <3>1, <3>2
  <2> QED
    BY <1>2, <2>2, <2>4, Zenon DEF CacheAgrees, OneKeyPerHour
<1> QED
  BY <1>1, <1>2, Zenon DEF DescriptorErr

\* An empty database has published no key.
LEMMA KeyInit == RedemptionInit => KeyInv
  BY InitTypes, Zenon DEF KeyInv, RedemptionInit, StoreInit, KeysRecorded, CacheAgrees, NoKeys, OneKeyPerHour

\* Steps that leave the keys, the mark, the cache and the configuration alone.
LEMMA KeysUntouched ==
  ASSUME KeyInv, RedemptionTypeOK',
         UNCHANGED <<latestEpoch, keys, memKeys, published, procVars>>,
         \A t \in tickets' : t.key \in published
  PROVE  KeyInv'
  BY Zenon DEF KeyInv, KeysRecorded, CacheAgrees, Kept, OneKeyPerHour, NoKeys, procVars

\* Steps of a running process that call descriptor.
LEMMA KeysDescribed ==
  ASSUME KeyInv, RedemptionTypeOK', NEW e \in Hours,
         DescriptorOK(e, policy, pin) \/ DescriptorErr(e),
         up, UNCHANGED <<procVars, tickets>>
  PROVE  KeyInv'
<1>1. policy \in Policies /\ pin \in Pins /\ StoreTypeOK
  BY Zenon DEF KeyInv, RedemptionTypeOK, StoreTypeOK
<1>2. KeysRecorded' /\ OneKeyPerHour' /\ CacheAgrees(policy)'
  <2>1. CASE DescriptorOK(e, policy, pin)
    BY <1>1, <2>1, DescriptorOKKeys, Zenon DEF KeyInv, CacheAgrees, procVars
  <2>2. CASE DescriptorErr(e)
    BY <1>1, <2>2, DescriptorErrKeys, Zenon DEF KeyInv, CacheAgrees, procVars
  <2> QED
    BY <2>1, <2>2, Zenon
<1>3. published \subseteq published'
  BY Zenon DEF DescriptorOK, DescriptorErr, storeVars
<1> QED
  BY <1>2, <1>3, Zenon DEF KeyInv, procVars

\* Every step keeps the key invariant, clocks that are set back included.
LEMMA KeyStep ==
  ASSUME KeyInv, [RedemptionStep \/ AnyClock]_redemptionVars
  PROVE  KeyInv'
<1>1. RedemptionTypeOK'
  BY StepTypes, Zenon DEF KeyInv
<1>2. StoreTypeOK /\ \A t \in tickets : t.key \in published
  BY Zenon DEF KeyInv, RedemptionTypeOK
<1>3. CASE RedeemStep
  <2>1. PICK r \in Requests :
          \/ \E t \in tickets : RedeemDescribe(r, t)
          \/ RedeemVerify(r) \/ RedeemSpend(r) \/ RedeemGrant(r)
    BY <1>3, Zenon DEF RedeemStep
  <2>2. CASE \E t \in tickets : RedeemDescribe(r, t)
    <3>1. PICK t \in tickets : RedeemDescribe(r, t)
      BY <2>2, Zenon
    <3>2. t.key.epoch \in Hours
      BY <1>2, TicketParts, Zenon DEF StoreTypeOK
    <3> QED
      BY <1>1, <3>1, <3>2, KeysDescribed, Zenon DEF RedeemDescribe
  <2>3. CASE RedeemVerify(r) \/ RedeemSpend(r) \/ RedeemGrant(r)
    BY <1>1, <1>2, <2>3, KeysUntouched, Zenon
       DEF RedeemVerify, RedeemSpend, RedeemGrant, storeVars, dbVars
  <2> QED
    BY <2>1, <2>2, <2>3, Zenon
<1>4. CASE Crash
  <2>1. UNCHANGED <<latestEpoch, keys, published, policy, tickets>> /\ memKeys' = NoKeys
    BY <1>4, Zenon DEF Crash, StoreCrash, dbVars
  <2> QED
    BY <1>1, <2>1, Zenon DEF KeyInv, KeysRecorded, CacheAgrees, Kept, OneKeyPerHour, NoKeys
<1>5. CASE Start
  <2>1. PICK p \in Policies, c \in Pins : StoreStart(p, c)
    BY <1>5, Zenon DEF Start
  <2>2. wall \in Hours /\ CacheAgrees(p)
    BY <1>2, <2>1, Zenon DEF StoreStart, KeyInv, CacheAgrees, NoKeys, StoreTypeOK
  <2>3. KeysRecorded' /\ CacheAgrees(p)' /\ OneKeyPerHour'
    BY <1>2, <2>1, <2>2, DescriptorOKKeys, Zenon DEF StoreStart, KeyInv
  <2>4. up' = TRUE /\ policy' = p /\ tickets' = tickets /\ published \subseteq published'
    BY <2>1, Zenon DEF StoreStart, DescriptorOK
  <2>5. CacheAgrees(policy)'
    BY <2>3, <2>4, Zenon DEF CacheAgrees
  <2> QED
    BY <1>1, <1>2, <2>3, <2>4, <2>5, Zenon DEF KeyInv
<1>6. CASE StoreStartFails
  <2>1. DescriptorErr(wall) /\ ~up /\ UNCHANGED <<procVars, tickets>> /\ wall \in Hours
        /\ policy \in Policies
    BY <1>2, <1>6, Zenon DEF StoreStartFails, StoreTypeOK
  <2>2. /\ KeysRecorded' /\ CacheAgrees(policy)' /\ OneKeyPerHour'
        /\ UNCHANGED <<memKeys, published>>
    BY <1>2, <2>1, DescriptorErrKeys, Zenon DEF KeyInv, CacheAgrees, procVars
  <2> QED
    BY <1>1, <2>1, <2>2, Zenon DEF KeyInv, procVars, NoKeys
<1>7. CASE OtherDescriptorCall
  BY <1>1, <1>7, KeysDescribed, Zenon DEF OtherDescriptorCall, DescriptorCall
<1>8. CASE Issuance
  <2>1. UNCHANGED <<latestEpoch, keys, memKeys, published, procVars>>
    BY <1>8, Zenon DEF Issuance, ObtainTickets, ChargeQuota, storeVars, dbVars
  <2>2. \A t \in tickets' : t.key \in published
    BY <1>2, <1>8 DEF Issuance, ObtainTickets, ChargeQuota
  <2> QED
    BY <1>1, <2>1, <2>2, KeysUntouched, Zenon
<1>9. CASE AnyClock \/ UNCHANGED redemptionVars
  BY <1>1, <1>2, <1>9, KeysUntouched, Zenon DEF AnyClock, redemptionVars, storeVars, dbVars
<1> QED
  BY <1>3, <1>4, <1>5, <1>6, <1>7, <1>8, <1>9, Zenon DEF RedemptionStep

\* One signing key per policy and hour for ever, even if the clock is set back.
THEOREM KeysAreNeverRemade == RedemptionSkewSpec => []OneKeyPerHour
<1>1. KeyInv => OneKeyPerHour
  BY Zenon DEF KeyInv
<1> QED
  BY <1>1, KeyInit, KeyStep, PTL DEF RedemptionSkewSpec

\* An unexpired ticket's key id is what descriptor returns, restarts and clock changes
\* notwithstanding.
THEOREM TicketsAreNotOrphaned == RedemptionSkewSpec => []TicketsStayRedeemable
<1>1. ASSUME KeyInv PROVE TicketsStayRedeemable
  <2> SUFFICES ASSUME NEW t \in tickets, up, policy = t.key.policy, pin = t.key.pin,
                      EpochServed(t.key.epoch), ClockAccepted
               PROVE  KeyId(t.key.epoch, policy, pin) = t.key
    BY Zenon DEF TicketsStayRedeemable
  <2>1. StoreTypeOK /\ t \in Tickets /\ t.key \in published
    BY <1>1, Zenon DEF KeyInv, RedemptionTypeOK, StoreTypeOK
  <2>2. t.key.epoch \in Hours /\ policy \in Policies /\ t.key \in KeyIds
    BY <2>1, TicketParts, Zenon DEF StoreTypeOK
  <2>3. Kept(t.key.epoch) /\ KeyFor(t.key.epoch, policy) = keys[<<policy, t.key.epoch>>]
    BY <1>1, <2>1, <2>2, FoundInDatabase, Zenon DEF KeyInv
  <2>4. KeyFor(t.key.epoch, policy) = t.key.serial /\ t.key.serial # 0
    BY <1>1, <2>1, <2>3, Zenon DEF KeyInv, KeysRecorded
  <2> QED
    BY <2>2, <2>4, Zenon DEF KeyId, ServedKey, KeyIds
<1> QED
  BY <1>1, KeyInit, KeyStep, PTL DEF RedemptionSkewSpec

--------------------------------------------------------------------------------
(* The whole authority. *)

Plain == {"lookup", "recheck", "admitted", "charged", "signing"}
Holding == Plain \union {"querying"}

\* The account is a member, or was one in the elapsed hour e or later.
Seen(a, e) == memberOf[a] \/ lastIn[a] >= e - (wall - mono)

\* What is known of a request: the key it was told was returned by descriptor to this
\* process; a query is dated by a moment that has been; and once the request is admitted
\* its account was seen in the key's hour.
Confirmed(s) ==
  /\ s.pc \in Holding \union {"described"} => s.key \in published /\ s.key.policy = policy /\ s.key.pin = pin
  /\ s.pc = "querying" => s.at <= mono /\ s.started - s.at <= wall - mono
  /\ s.pc \in {"admitted", "charged", "signing"} => Seen(s.acct, s.key.epoch)

HandlersInv ==
  /\ \A h \in Handlers : Confirmed(handler[h])
  /\ up = FALSE => \A h \in Handlers : handler[h] = Idle

\* A cached answer is dated by a moment that has been, and a positive one was true then.
CacheInv ==
  \A c \in cache :
    /\ c.at <= mono /\ c.checked - c.at <= wall - mono
    /\ c.member = TRUE => memberOf[c.acct] \/ lastIn[c.acct] >= c.at

PublishedInv == \A k \in published : k.epoch <= wall

\* An authorization comes from a ticket that was issued, and ends within Lifetime hours of
\* the moment its account was last seen.
GrantsInv ==
  \A r \in Requests :
    /\ rpc[r] # "idle" => rticket[r] \in tickets
    /\ Granted(r) => /\ deadline[r] <= mono + Lifetime
                     /\ memberOf[rticket[r].acct] \/ lastIn[rticket[r].acct] + Lifetime >= deadline[r]

\* A nonce is in the table, held by one request, or used up.
NonceInv ==
  /\ \A c \in challenges : c.nonce <= nonceGen /\ batches[c.nonce] = 0
  /\ \A h \in Handlers : handler[h].pc \in Holding =>
       /\ handler[h].nonce <= nonceGen /\ batches[handler[h].nonce] = 0
       /\ \A c \in challenges : c.nonce # handler[h].nonce
       /\ \A g \in Handlers : g # h /\ handler[g].pc \in Holding => handler[g].nonce # handler[h].nonce
  /\ \A i \in Nonces : (i > nonceGen => batches[i] = 0) /\ batches[i] <= 1

AuthInv ==
  /\ IssueTypeOK /\ SingleUseInv /\ KeyInv
  /\ HandlersInv /\ CacheInv /\ PublishedInv /\ SignedForRecentMember /\ GrantsInv /\ NonceInv

\* What each kind of request carries.
LEMMA HandlerFields ==
  ASSUME NEW s \in HandlerStates
  PROVE  /\ s.pc = "entered" => s.epoch \in Hours
         /\ s.pc = "described" => s.key \in KeyIds
         /\ s.pc \in Plain => s \in Issuing(Plain)
         /\ s.pc = "querying" => s \in Querying
         /\ s.pc \in Holding => s.key \in KeyIds /\ s.acct \in Accounts /\ s.n \in Batch /\ s.nonce \in Nonces
         /\ s.pc \in {"idle", "entered", "described"} \union Holding
<1>1. CASE s = Idle
  BY <1>1, Zenon DEF Idle, Plain, Holding
<1>2. CASE s \in [pc: {"entered"}, epoch: Hours]
  BY <1>2, Zenon DEF Plain, Holding
<1>3. CASE s \in [pc: {"described"}, key: KeyIds]
  BY <1>3, Zenon DEF Plain, Holding
<1>4. CASE s \in Issuing(Plain)
  BY <1>4, Zenon DEF Issuing, Plain, Holding
<1>5. CASE s \in Querying
  BY <1>5, Zenon DEF Querying, Plain, Holding
<1> QED BY <1>1, <1>2, <1>3, <1>4, <1>5, Zenon DEF HandlerStates, Plain

\* A request that moves keeps its type; the others stay as they are.
LEMMA BecomeTypes ==
  ASSUME IssueTypeOK, NEW h \in Handlers, NEW s \in HandlerStates, Become(h, s)
  PROVE  /\ handler' \in [Handlers -> HandlerStates] /\ handler'[h] = s
         /\ \A g \in Handlers : g # h => handler'[g] = handler[g]
  BY Zenon DEF IssueTypeOK, Become

\* Every key is of an hour of the model.
LEMMA KeyParts == ASSUME NEW k \in KeyIds PROVE k.epoch \in Hours /\ k.policy \in Policies /\ k.pin \in Pins
  BY Zenon DEF KeyIds

\* The states a request moves to are handler states.
LEMMA StateTypes ==
  /\ Idle \in HandlerStates
  /\ \A e \in Hours : [pc |-> "entered", epoch |-> e] \in HandlerStates
  /\ \A k \in KeyIds : [pc |-> "described", key |-> k] \in HandlerStates
  /\ \A l \in Plain, k \in KeyIds, a \in Accounts, n \in Batch, i \in Nonces :
       [pc |-> l, key |-> k, acct |-> a, n |-> n, nonce |-> i] \in HandlerStates
  /\ \A k \in KeyIds, a \in Accounts, n \in Batch, i \in Nonces, s \in Hours, t \in Hours, b \in BOOLEAN :
       [pc |-> "querying", key |-> k, acct |-> a, n |-> n, nonce |-> i, started |-> s, at |-> t, again |-> b]
          \in HandlerStates
<1>1. Idle \in HandlerStates
  BY Zenon DEF HandlerStates
<1>2. \A e \in Hours : [pc |-> "entered", epoch |-> e] \in HandlerStates
  BY Zenon DEF HandlerStates
<1>3. \A k \in KeyIds : [pc |-> "described", key |-> k] \in HandlerStates
  BY Zenon DEF HandlerStates
<1>4. ASSUME NEW l \in Plain, NEW k \in KeyIds, NEW a \in Accounts, NEW n \in Batch, NEW i \in Nonces
      PROVE  [pc |-> l, key |-> k, acct |-> a, n |-> n, nonce |-> i] \in HandlerStates
  <2>1. [pc |-> l, key |-> k, acct |-> a, n |-> n, nonce |-> i] \in Issuing(Plain)
    BY Zenon DEF Issuing
  <2> QED BY <2>1, Zenon DEF HandlerStates, Plain
<1>5. ASSUME NEW k \in KeyIds, NEW a \in Accounts, NEW n \in Batch, NEW i \in Nonces, NEW s \in Hours, NEW t \in Hours,
             NEW b \in BOOLEAN
      PROVE  [pc |-> "querying", key |-> k, acct |-> a, n |-> n, nonce |-> i, started |-> s, at |-> t, again |-> b]
                \in HandlerStates
  <2>1. [pc |-> "querying", key |-> k, acct |-> a, n |-> n, nonce |-> i, started |-> s, at |-> t, again |-> b]
           \in Querying
    BY Zenon DEF Querying
  <2> QED BY <2>1, Zenon DEF HandlerStates
<1> QED BY <1>1, <1>2, <1>3, <1>4, <1>5, Zenon

--------------------------------------------------------------------------------
(* What a step of the authority leaves true of a request that it does not move. *)

\* Keys are published and never withdrawn, time passes, the wall clock gains on it, and
\* nobody joins or leaves.
Passes ==
  /\ published \subseteq published'
  /\ mono \in Int /\ mono' \in Int /\ wall \in Int /\ wall' \in Int
  /\ mono <= mono' /\ wall - mono <= wall' - mono'
  /\ UNCHANGED <<memberOf, lastIn>>

\* The same in one process, which keeps its configuration.
Goes == Passes /\ UNCHANGED <<policy, pin>>

\* A date whose distance from the elapsed time is within the clocks' difference stays so as
\* that difference grows.
LEMMA Gains ==
  ASSUME Passes
  PROVE  \A x \in Int, y \in Int :
           /\ x <= mono => x <= mono'
           /\ x <= mono + y => x <= mono' + y
           /\ x - y <= wall - mono => x - y <= wall' - mono'
           /\ y >= x - (wall - mono) => y >= x - (wall' - mono')
<1>1. PICK w \in Int, m \in Int, v \in Int, n \in Int : w = wall /\ m = mono /\ v = wall' /\ n = mono'
  BY Zenon DEF Passes
<1>2. m <= n /\ w - m <= v - n
  BY <1>1, Zenon DEF Passes
<1>3. \A x \in Int, y \in Int :
        /\ x <= m => x <= n
        /\ x <= m + y => x <= n + y
        /\ x - y <= w - m => x - y <= v - n
        /\ y >= x - (w - m) => y >= x - (v - n)
  BY <1>2
<1> QED BY <1>1, <1>3, Zenon

\* What was known of a request stays known.
LEMMA ConfirmedStays ==
  ASSUME Goes, NEW s \in HandlerStates, Confirmed(s), IssueTypeOK
  PROVE  Confirmed(s)'
<1>1. s.pc \in Holding \union {"described"} => (s.key \in published /\ s.key.policy = policy /\ s.key.pin = pin)'
  BY Zenon DEF Goes, Passes, Confirmed
<1>2. ASSUME s.pc = "querying" PROVE s.at <= mono' /\ s.started - s.at <= wall' - mono'
  <2>1. s.at \in Int /\ s.started \in Int
    BY <1>2, HandlerFields DEF Querying, Hours
  <2>2. s.at <= mono /\ s.started - s.at <= wall - mono
    BY <1>2, Zenon DEF Confirmed
  <2> QED BY <2>1, <2>2, Gains, Zenon DEF Goes
<1>3. ASSUME s.pc \in {"admitted", "charged", "signing"} PROVE Seen(s.acct, s.key.epoch)'
  <2>1. s.key.epoch \in Int /\ s.acct \in Accounts /\ lastIn[s.acct] \in Int
    BY <1>3, HandlerFields, KeyParts DEF Hours, Holding, Plain, IssueTypeOK
  <2>2. Seen(s.acct, s.key.epoch)
    BY <1>3, Zenon DEF Confirmed
  <2> QED BY <2>1, <2>2, Gains, Zenon DEF Goes, Passes, Seen
<1> QED BY <1>1, <1>2, <1>3, Zenon DEF Confirmed

\* What was known of every request and every cached answer stays known, but for the request
\* that moves.
LEMMA OthersStay ==
  ASSUME AuthInv, Goes, NEW h \in Handlers, NEW s \in HandlerStates, Become(h, s), Confirmed(s)', up, up' = up
  PROVE  HandlersInv'
<1>1. handler' \in [Handlers -> HandlerStates] /\ handler'[h] = s /\ \A g \in Handlers : g # h => handler'[g] = handler[g]
  BY BecomeTypes, Zenon DEF AuthInv
<1>2. ASSUME NEW g \in Handlers PROVE Confirmed(handler[g])'
  <2>1. PICK t \in HandlerStates : t = handler'[g]
    BY <1>1, Zenon
  <2>2. Confirmed(t)'
    <3>1. CASE g = h
      BY <1>1, <2>1, <3>1, Zenon
    <3>2. CASE g # h
      <4>1. Confirmed(t)
        BY <1>1, <2>1, <3>2, Zenon DEF AuthInv, HandlersInv
      <4> QED BY <4>1, ConfirmedStays, Zenon DEF AuthInv
    <3> QED BY <3>1, <3>2, Zenon
  <2> QED BY <2>1, <2>2, Zenon
<1> QED BY <1>2, Zenon DEF HandlersInv

\* The same where no request moves.
LEMMA AllStay == ASSUME AuthInv, Goes, handler' = handler, up' = up PROVE HandlersInv'
<1>1. ASSUME NEW g \in Handlers PROVE Confirmed(handler[g])'
  <2>1. PICK t \in HandlerStates : t = handler[g]
    BY Zenon DEF AuthInv, IssueTypeOK
  <2>2. Confirmed(t)
    BY <2>1, Zenon DEF AuthInv, HandlersInv
  <2>3. Confirmed(t)'
    BY <2>2, ConfirmedStays, Zenon DEF AuthInv
  <2> QED BY <2>1, <2>3, Zenon
<1> QED BY <1>1, Zenon DEF AuthInv, HandlersInv

\* Cached answers stay what they were.
LEMMA CacheStays == ASSUME AuthInv, Passes, cache' = cache PROVE CacheInv'
<1>1. \A c \in cache : c.at \in Int /\ c.checked \in Int
  BY DEF AuthInv, IssueTypeOK, Hours
<1>2. ASSUME NEW c \in cache
      PROVE  c.at <= mono' /\ c.checked - c.at <= wall' - mono' /\ (c.member = TRUE => memberOf[c.acct] \/ lastIn[c.acct] >= c.at)
  <2>1. c.at <= mono /\ c.checked - c.at <= wall - mono /\ (c.member = TRUE => memberOf[c.acct] \/ lastIn[c.acct] >= c.at)
    BY Zenon DEF AuthInv, CacheInv
  <2> QED BY <1>1, <2>1, Gains, Zenon DEF Passes
<1> QED BY <1>2, Zenon DEF CacheInv, Passes

\* Tickets, old and new, were signed for members.
LEMMA TicketsStay ==
  ASSUME AuthInv, Passes, tickets' \subseteq Tickets, \A t \in tickets' : t \in tickets \/ Seen(t.acct, t.key.epoch)
  PROVE  SignedForRecentMember'
<1>1. \A t \in tickets' : t.acct \in Accounts /\ t.key.epoch \in Int /\ lastIn[t.acct] \in Int
  BY TicketParts DEF Tickets, Hours, AuthInv, IssueTypeOK
<1>2. \A t \in tickets' : Seen(t.acct, t.key.epoch)
  BY Zenon DEF AuthInv, SignedForRecentMember, Seen
<1>3. UNCHANGED <<memberOf, lastIn>>
  BY Zenon DEF Passes
<1> QED BY <1>1, <1>2, <1>3, Gains, Zenon DEF SignedForRecentMember, Seen

\* The authorizations given stay as they were.
LEMMA GrantsStay ==
  ASSUME AuthInv, Passes, UNCHANGED redeemVars, tickets \subseteq tickets'
  PROVE  GrantsInv'
<1>1. deadline \in [Requests -> Int] /\ Lifetime \in Int
  BY StoreAssumption DEF AuthInv, SingleUseInv, RedemptionTypeOK, RedeemTypeOK
<1>2. UNCHANGED <<memberOf, lastIn>>
  BY Zenon DEF Passes
<1> QED BY <1>1, <1>2, Gains, Zenon DEF AuthInv, GrantsInv, Granted, redeemVars

--------------------------------------------------------------------------------
(* The moves of a request. *)

\* A request moves to s; it holds a nonce afterwards only if it held the same before.
Follows(h, s) ==
  /\ Become(h, s)
  /\ s.pc \in Holding => handler[h].pc \in Holding /\ s.nonce = handler[h].nonce

Untouched == UNCHANGED <<clockVars, procVars, storeVars, tickets, coreVars, redeemVars>>

\* The clocks and the accounts have their types.
LEMMA ClockTypes ==
  ASSUME AuthInv
  PROVE  /\ wall \in Hours /\ mono \in Hours /\ wall \in Int /\ mono \in Int
         /\ policy \in Policies /\ pin \in Pins /\ StoreTypeOK /\ published \subseteq KeyIds
         /\ handler \in [Handlers -> HandlerStates]
  BY DEF AuthInv, SingleUseInv, RedemptionTypeOK, StoreTypeOK, Hours, IssueTypeOK

\* What leaves the store alone takes nothing from what is known.
LEMMA UntouchedGoes ==
  ASSUME AuthInv, Untouched
  PROVE  Goes /\ \A s \in HandlerStates : Confirmed(s) => Confirmed(s)'
<1>1. Goes
  BY ClockTypes DEF Untouched, Goes, Passes, clockVars, procVars, storeVars, coreVars
<1> QED BY <1>1, ConfirmedStays, Zenon DEF AuthInv

\* The fields of a request, and what is known of it.
LEMMA RequestFacts ==
  ASSUME AuthInv, NEW h \in Handlers
  PROVE  /\ handler[h] \in HandlerStates /\ Confirmed(handler[h])
         /\ handler[h].pc \in Holding => /\ handler[h].key \in KeyIds /\ handler[h].key.epoch \in Hours
                                         /\ handler[h].acct \in Accounts /\ handler[h].n \in Batch
                                         /\ handler[h].nonce \in Nonces /\ handler[h].key \in published
                                         /\ lastIn[handler[h].acct] \in Int
<1>1. handler[h] \in HandlerStates /\ Confirmed(handler[h])
  BY ClockTypes, Zenon DEF AuthInv, HandlersInv
<1>2. ASSUME handler[h].pc \in Holding
      PROVE  /\ handler[h].key \in KeyIds /\ handler[h].acct \in Accounts /\ handler[h].n \in Batch
             /\ handler[h].nonce \in Nonces
  BY <1>1, <1>2, HandlerFields, Zenon
<1>3. ASSUME handler[h].pc \in Holding PROVE handler[h].key.epoch \in Hours /\ lastIn[handler[h].acct] \in Int
  BY <1>2, <1>3, KeyParts, Zenon DEF AuthInv, IssueTypeOK
<1>4. ASSUME handler[h].pc \in Holding PROVE handler[h].key \in published
  BY <1>1, <1>4, Zenon DEF Confirmed
<1> QED BY <1>1, <1>2, <1>3, <1>4, Zenon

\* handle with an answer: the request goes on only with a positive of the key's hour.
LEMMA JudgeMoves ==
  ASSUME AuthInv, NEW h \in Handlers, handler[h].pc \in Holding, NEW member \in BOOLEAN, NEW checked \in Hours, NEW again,
         member = TRUE /\ checked >= handler[h].key.epoch => Seen(handler[h].acct, handler[h].key.epoch),
         Judge(h, member, checked, again)
  PROVE  \E s \in HandlerStates : Follows(h, s) /\ Confirmed(s)
<1> DEFINE request(l) == [pc |-> l, key |-> handler[h].key, acct |-> handler[h].acct,
                          n |-> handler[h].n, nonce |-> handler[h].nonce]
<1>1. \A l \in Plain : request(l) \in HandlerStates
  BY RequestFacts, StateTypes, Zenon
<1>2. handler[h].key \in published /\ handler[h].key.policy = policy /\ handler[h].key.pin = pin
  BY RequestFacts, Zenon DEF Confirmed
<1>3. CASE member /\ Recent(checked, handler[h].key.epoch) /\ Become(h, request("admitted"))
  <2>1. Confirmed(request("admitted"))
    BY <1>2, <1>3, Zenon DEF Confirmed, Recent
  <2>2. Follows(h, request("admitted"))
    BY <1>3, Zenon DEF Follows
  <2> QED BY <1>1, <2>1, <2>2, Zenon DEF Plain
<1>4. CASE Become(h, request("recheck"))
  <2>1. Confirmed(request("recheck"))
    BY <1>2, Zenon DEF Confirmed
  <2>2. Follows(h, request("recheck"))
    BY <1>4, Zenon DEF Follows
  <2> QED BY <1>1, <2>1, <2>2, Zenon DEF Plain
<1>5. CASE Become(h, Idle)
  <2>1. Confirmed(Idle) /\ Follows(h, Idle)
    BY <1>5, Zenon DEF Confirmed, Follows, Idle, Holding, Plain
  <2> QED BY <2>1, StateTypes, Zenon
<1>6. \A l \in Plain : [request("lookup") EXCEPT !.pc = l] = request(l)
  OBVIOUS
<1> QED BY <1>3, <1>4, <1>5, <1>6, Zenon DEF Judge, Plain

\* An answer from the cache: it is as old as its date says.
LEMMA CacheHitMoves ==
  ASSUME AuthInv, NEW h \in Handlers, CacheHit(h)
  PROVE  \E s \in HandlerStates : Follows(h, s) /\ Confirmed(s)
<1>1. handler[h].pc = "lookup" /\ handler[h].pc \in Holding
  BY Zenon DEF CacheHit, At, Holding, Plain
<1>2. PICK c \in cache : c.acct = handler[h].acct /\ Judge(h, c.member, c.checked, FALSE)
  BY Zenon DEF CacheHit
<1>3. c.member \in BOOLEAN /\ c.checked \in Hours /\ c.at \in Hours
  BY Zenon DEF AuthInv, IssueTypeOK
<1>4. ASSUME c.member = TRUE, c.checked >= handler[h].key.epoch
      PROVE  Seen(handler[h].acct, handler[h].key.epoch)
  <2>0. /\ handler[h].key.epoch \in Int /\ wall \in Int /\ mono \in Int /\ c.checked \in Int /\ c.at \in Int
        /\ lastIn[handler[h].acct] \in Int
    BY <1>1, <1>3, RequestFacts, ClockTypes DEF Hours
  <2>1. PICK e \in Int, w \in Int, m \in Int, i \in Int, k \in Int, l \in Int :
           /\ e = handler[h].key.epoch /\ w = wall /\ m = mono /\ i = c.checked /\ k = c.at
           /\ l = lastIn[handler[h].acct]
    BY <2>0, Zenon
  <2>2. i - k <= w - m /\ i >= e /\ (memberOf[handler[h].acct] \/ l >= k)
    BY <1>2, <1>4, <2>1, Zenon DEF AuthInv, CacheInv
  <2>3. memberOf[handler[h].acct] \/ l >= e - (w - m)
    BY <2>2, SMTT(30)
  <2> QED BY <2>1, <2>3, Zenon DEF Seen
<1> QED BY <1>1, <1>2, <1>3, <1>4, JudgeMoves, Zenon

\* A query starts: it is dated by now.
LEMMA StartQueryMoves ==
  ASSUME AuthInv, NEW h \in Handlers, StartQuery(h)
  PROVE  \E s \in HandlerStates : Follows(h, s) /\ Confirmed(s)
<1>1. handler[h].pc \in Holding
  BY Zenon DEF StartQuery, At, Holding, Plain
<1> DEFINE s == [pc |-> "querying", key |-> handler[h].key, acct |-> handler[h].acct,
                 n |-> handler[h].n, nonce |-> handler[h].nonce,
                 started |-> wall, at |-> mono, again |-> handler[h].pc = "recheck"]
<1>2. Become(h, s)
  BY Zenon  DEF StartQuery
<1>3. s \in HandlerStates
  <2>1. (handler[h].pc = "recheck") \in BOOLEAN
    BY Zenon
  <2> QED BY <1>1, <2>1, RequestFacts, ClockTypes, StateTypes, ZenonT(30)
<1>4. Confirmed(s)
  <2>1. handler[h].key \in published /\ handler[h].key.policy = policy /\ handler[h].key.pin = pin
    BY <1>1, RequestFacts, Zenon DEF Confirmed
  <2>2. mono <= mono /\ wall - mono <= wall - mono
    BY ClockTypes, SMTT(30)
  <2> QED BY <2>1, <2>2, Zenon DEF Confirmed
<1>5. Follows(h, s)
  BY <1>1, <1>2, Zenon DEF Follows
<1> QED BY <1>3, <1>4, <1>5, Zenon

\* The Core answers: a positive was true at some moment since the query started.
LEMMA CoreAnswersMoves ==
  ASSUME AuthInv, NEW h \in Handlers, NEW member \in BOOLEAN, CoreAnswers(h, member)
  PROVE  /\ \E s \in HandlerStates : Follows(h, s) /\ Confirmed(s)
         /\ cache' \subseteq [acct: Accounts, member: BOOLEAN, checked: Hours, at: Hours]
         /\ \A c \in cache' : c \in cache \/ (/\ c.at <= mono /\ c.checked - c.at <= wall - mono
                                              /\ c.member = TRUE => memberOf[c.acct] \/ lastIn[c.acct] >= c.at)
<1> DEFINE a == handler[h].acct
           checked == IF member THEN handler[h].started ELSE wall
           at == IF member THEN handler[h].at ELSE mono
<1>1. handler[h].pc = "querying" /\ handler[h].pc \in Holding /\ a \in Accounts
  BY RequestFacts, Zenon DEF CoreAnswers, At, Holding
<1>2. handler[h] \in Querying /\ handler[h].started \in Hours /\ handler[h].at \in Hours
  <2>1. handler[h] \in Querying
    BY <1>1, RequestFacts, HandlerFields, Zenon
  <2> QED BY <2>1, Zenon DEF Querying
<1>3. checked \in Hours /\ at \in Hours
  BY <1>2, ClockTypes, Zenon
<1>4. at <= mono /\ checked - at <= wall - mono
  <2>1. CASE member = TRUE
    BY <1>1, <2>1, RequestFacts, Zenon DEF Confirmed
  <2>2. CASE member = FALSE
    <3>1. mono <= mono /\ wall - mono <= wall - mono
      BY ClockTypes
    <3> QED BY <2>2, <3>1, Zenon
  <2> QED BY <2>1, <2>2, Zenon
<1>5. member = TRUE => memberOf[a] \/ lastIn[a] >= at
  BY Zenon DEF CoreAnswers
<1>6. Judge(h, member, checked, handler[h].again)
  BY Zenon DEF CoreAnswers
<1>7. ASSUME member = TRUE, checked >= handler[h].key.epoch PROVE Seen(handler[h].acct, handler[h].key.epoch)
  <2>0. /\ handler[h].key.epoch \in Int /\ wall \in Int /\ mono \in Int /\ checked \in Int /\ at \in Int
        /\ lastIn[a] \in Int
    BY <1>1, <1>3, RequestFacts, ClockTypes, SMTT(30) DEF Hours
  <2>1. PICK e \in Int, w \in Int, m \in Int, i \in Int, k \in Int, l \in Int :
           /\ e = handler[h].key.epoch /\ w = wall /\ m = mono /\ i = checked /\ k = at /\ l = lastIn[a]
    BY <2>0, Zenon
  <2>2. i - k <= w - m /\ i >= e /\ (memberOf[a] \/ l >= k)
    BY <1>4, <1>5, <1>7, <2>1, Zenon
  <2>3. memberOf[a] \/ l >= e - (w - m)
    BY <2>2
  <2> QED BY <2>1, <2>3, Zenon DEF Seen
<1>8. \E s \in HandlerStates : Follows(h, s) /\ Confirmed(s)
  <2> HIDE DEF checked, at
  <2> QED BY <1>1, <1>3, <1>6, <1>7, JudgeMoves, Zenon
<1> DEFINE new == [acct |-> a, member |-> member, checked |-> checked, at |-> at]
<1>9. cache' \subseteq cache \union {new}
  BY Zenon DEF CoreAnswers
<1>10. new \in [acct: Accounts, member: BOOLEAN, checked: Hours, at: Hours]
  <2> HIDE DEF checked, at, a
  <2> QED BY <1>1, <1>3, Zenon
<1>11. /\ new.at <= mono /\ new.checked - new.at <= wall - mono
       /\ new.member = TRUE => memberOf[new.acct] \/ lastIn[new.acct] >= new.at
  <2> HIDE DEF checked, at, a
  <2> QED BY <1>4, <1>5, Zenon
<1> HIDE DEF new
<1>12. cache \subseteq [acct: Accounts, member: BOOLEAN, checked: Hours, at: Hours]
  BY Zenon DEF AuthInv, IssueTypeOK
<1> QED BY <1>8, <1>9, <1>10, <1>11, <1>12, Zenon

\* A handler that serves nothing holds no nonce and claims nothing.
LEMMA IdleClaims == Idle.pc \notin Holding /\ Idle.pc # "signing" /\ Confirmed(Idle) /\ Confirmed(Idle)'
<1>1. Idle.pc \notin Holding \union {"described"} /\ Idle.pc \notin {"querying", "admitted", "charged", "signing"}
  BY Zenon  DEF Idle, Holding, Plain
<1> QED BY <1>1, Zenon DEF Confirmed

\* A request that ends, or begins.
LEMMA IdleMoves ==
  ASSUME NEW h \in Handlers, Become(h, Idle)
  PROVE  \E s \in HandlerStates : Follows(h, s) /\ Confirmed(s) /\ Confirmed(s)'
<1>1. Follows(h, Idle)
  BY IdleClaims, Zenon DEF Follows
<1> QED BY <1>1, IdleClaims, StateTypes, Zenon

\* The same for a request that begins.
LEMMA EnterMoves ==
  ASSUME AuthInv, NEW h \in Handlers, Enter(h)
  PROVE  \E s \in HandlerStates : Follows(h, s) /\ Confirmed(s)
<1> DEFINE s == [pc |-> "entered", epoch |-> wall]
<1>1. s \in HandlerStates /\ Become(h, s)
  BY ClockTypes, StateTypes, ZenonT(30) DEF Enter
<1>2. Confirmed(s) /\ Follows(h, s)
  BY <1>1, Zenon DEF Confirmed, Follows, Holding, Plain
<1> QED BY <1>1, <1>2, Zenon

\* A call of descriptor publishes the key it returns, of an hour that has come.
LEMMA DescriptorPublishes ==
  ASSUME AuthInv, NEW e \in Hours, NEW p \in Policies, NEW c \in Pins
  PROVE  /\ DescriptorOK(e, p, c) => /\ published' = published \union {KeyId(e, p, c)} /\ KeyId(e, p, c) \in KeyIds
                                     /\ e <= wall
         /\ DescriptorErr(e) => published' = published
         /\ KeyId(e, p, c).epoch = e /\ KeyId(e, p, c).policy = p /\ KeyId(e, p, c).pin = c
<1>1. KeyId(e, p, c) \in KeyIds
  BY ClockTypes, ServedKeyType, Zenon
<1>2. KeyId(e, p, c).epoch = e /\ KeyId(e, p, c).policy = p /\ KeyId(e, p, c).pin = c
  BY Zenon DEF KeyId
<1> QED BY <1>1, <1>2, Zenon DEF DescriptorOK, DescriptorErr, EpochServed, storeVars

\* handle's first call of descriptor.
LEMMA DescribeMoves ==
  ASSUME AuthInv, NEW h \in Handlers, Describe(h), UNCHANGED coreVars
  PROVE  Goes /\ \E s \in HandlerStates : Follows(h, s) /\ Confirmed(s)'
<1> DEFINE e == handler[h].epoch
<1>1. e \in Hours
  BY RequestFacts, HandlerFields, Zenon DEF Describe, At
<1>2. policy' = policy /\ pin' = pin /\ UNCHANGED <<wall, mono, memberOf, lastIn>>
  BY Zenon DEF Describe, clockVars, procVars, coreVars
<1>3. CASE DescriptorOK(e, policy, pin) /\ Become(h, [pc |-> "described", key |-> KeyId(e, policy, pin)])
  <2>1. PICK k \in KeyIds : k = KeyId(e, policy, pin)
    BY <1>1, <1>3, ClockTypes, DescriptorPublishes, Zenon
  <2>2. published' = published \union {k} /\ k.policy = policy /\ k.pin = pin
    BY <1>1, <1>3, <2>1, ClockTypes, DescriptorPublishes, SMTT(30)
  <2>3. PICK s \in HandlerStates : s = [pc |-> "described", key |-> k]
    BY StateTypes, Zenon
  <2>4. s.pc = "described" /\ s.key = k /\ Become(h, s)
    BY <1>3, <2>1, <2>3, Zenon
  <2>5. Confirmed(s)' /\ Follows(h, s)
    BY <1>2, <2>2, <2>4, Zenon DEF Confirmed, Follows, Holding, Plain
  <2>6. Goes
    BY <1>2, <2>2, ClockTypes DEF Goes, Passes
  <2> QED BY <2>5, <2>6, Zenon
<1>4. CASE DescriptorErr(e) /\ Become(h, Idle)
  <2>1. published' = published
    BY <1>1, <1>4, ClockTypes, DescriptorPublishes, Zenon
  <2>2. Goes
    BY <1>2, <2>1, ClockTypes, SMTT(30) DEF Goes, Passes
  <2> QED BY <1>4, <2>2, IdleMoves, Zenon
<1> QED BY <1>3, <1>4, Zenon DEF Describe

\* The quota transaction.
LEMMA ChargeMoves ==
  ASSUME AuthInv, NEW h \in Handlers, Charge(h), UNCHANGED coreVars
  PROVE  Goes /\ \E s \in HandlerStates : Follows(h, s) /\ Confirmed(s)'
<1>1. handler[h].pc = "admitted" /\ handler[h].pc \in Plain /\ handler[h].pc \in Holding
  BY Zenon  DEF Charge, At, Plain, Holding
<1>2. UNCHANGED <<wall, mono, policy, pin, published, memberOf, lastIn>>
  BY Zenon DEF Charge, clockVars, procVars, coreVars
<1>3. Goes
  BY <1>2, ClockTypes DEF Goes, Passes
<1>4. CASE MoveTo(h, "charged")
  <2>1. handler[h] \in Issuing(Plain)
    BY <1>1, RequestFacts, HandlerFields, Zenon
  <2>2. [handler[h] EXCEPT !.pc = "charged"] \in Issuing(Plain)
    BY <2>1, Zenon DEF Issuing, Plain
  <2>3. PICK s \in Issuing(Plain) : s = [handler[h] EXCEPT !.pc = "charged"]
    BY <2>2, Zenon
  <2>4. s \in HandlerStates
    BY Zenon DEF HandlerStates, Plain
  <2>5. s.pc = "charged" /\ s.key = handler[h].key /\ s.acct = handler[h].acct /\ s.nonce = handler[h].nonce
    BY <2>1, <2>3, Zenon DEF Issuing
  <2>6. Become(h, s)
    BY <1>4, <2>3, Zenon DEF MoveTo
  <2>7. Confirmed(s)
    BY <1>1, <2>5, RequestFacts, Zenon DEF Confirmed
  <2>8. Follows(h, s)
    BY <1>1, <2>5, <2>6, Zenon DEF Follows
  <2> QED BY <1>3, <2>4, <2>7, <2>8, ConfirmedStays, Zenon DEF AuthInv
<1>5. CASE Become(h, Idle)
  BY <1>3, <1>5, IdleMoves, Zenon
<1> QED BY <1>4, <1>5, Zenon DEF Charge

\* handle's second call of descriptor: its key is the one the request already has.
LEMMA FetchKeyMoves ==
  ASSUME AuthInv, KeyInv', NEW h \in Handlers, FetchKey(h), UNCHANGED coreVars
  PROVE  /\ Goes
         /\ \E s \in HandlerStates : Follows(h, s) /\ Confirmed(s)' /\ (s.pc = "signing" => s.key = handler[h].key)
<1>1. handler[h].pc = "charged" /\ handler[h].pc \in Plain /\ handler[h].pc \in Holding
  BY Zenon DEF FetchKey, At, Plain, Holding
<1> DEFINE e == handler[h].key.epoch
<1>2. e \in Hours
  BY <1>1, RequestFacts, Zenon
<1>3. UNCHANGED <<wall, mono, policy, pin, memberOf, lastIn>>
  BY Zenon DEF FetchKey, clockVars, procVars, coreVars
<1>4. CASE DescriptorOK(e, policy, pin) /\ Become(h, [handler[h] EXCEPT !.pc = "signing", !.key = KeyId(e, policy, pin)])
  <2>1. PICK k \in KeyIds : k = KeyId(e, policy, pin)
    BY <1>2, <1>4, ClockTypes, DescriptorPublishes, Zenon
  <2>2. published' = published \union {k} /\ k.policy = policy /\ k.pin = pin /\ k.epoch = e
    BY <1>2, <1>4, <2>1, ClockTypes, DescriptorPublishes, SMTT(30)
  <2>3. Goes
    BY <1>3, <2>2, ClockTypes DEF Goes, Passes
  <2>4. k = handler[h].key
    <3>1. PICK l \in KeyIds : l = handler[h].key
      BY <1>1, RequestFacts, Zenon
    <3>2. l \in published' /\ k \in published' /\ l.policy = policy /\ l.pin = pin /\ l.epoch = e
      BY <1>1, <2>2, <3>1, RequestFacts, Zenon DEF Confirmed
    <3>3. l.serial = k.serial
      BY <2>2, <3>2, Zenon DEF KeyInv, OneKeyPerHour
    <3>4. l = k
      BY <2>2, <3>2, <3>3, SMTT(30) DEF KeyIds
    <3> QED BY <3>1, <3>4, Zenon
  <2>5. handler[h] \in Issuing(Plain)
    BY <1>1, RequestFacts, HandlerFields, Zenon
  <2>6. [handler[h] EXCEPT !.pc = "signing", !.key = k] \in Issuing(Plain)
    BY <2>5, ZenonT(30) DEF Issuing, Plain
  <2>7. PICK s \in Issuing(Plain) : s = [handler[h] EXCEPT !.pc = "signing", !.key = k]
    BY <2>6, Zenon
  <2>8. s \in HandlerStates
    BY Zenon DEF HandlerStates, Plain
  <2>9. s.pc = "signing" /\ s.key = k /\ s.acct = handler[h].acct /\ s.nonce = handler[h].nonce
    BY <2>5, <2>7, Zenon DEF Issuing
  <2>10. Become(h, s)
    BY <1>4, <2>1, <2>7, Zenon
  <2>11. Confirmed(s)
    BY <1>1, <2>4, <2>9, RequestFacts, Zenon DEF Confirmed
  <2>12. Follows(h, s)
    BY <1>1, <2>9, <2>10, Zenon DEF Follows
  <2>13. Confirmed(s)'
    BY <2>3, <2>8, <2>11, ConfirmedStays, Zenon DEF AuthInv
  <2> QED BY <2>3, <2>4, <2>8, <2>9, <2>12, <2>13, Zenon
<1>5. CASE DescriptorErr(e) /\ Become(h, Idle)
  <2>1. published' = published
    BY <1>2, <1>5, ClockTypes, DescriptorPublishes, Zenon
  <2>2. Goes
    BY <1>3, <2>1, ClockTypes, SMTT(30) DEF Goes, Passes
  <2>3. Follows(h, Idle)
    BY <1>5, IdleClaims, ZenonT(30) DEF Follows
  <2> QED BY <2>2, <2>3, IdleClaims, StateTypes, Zenon
<1> QED BY <1>4, <1>5, Zenon DEF FetchKey, SigningHour

--------------------------------------------------------------------------------
(* The authority implements redemption's contract. *)

\* A step of issuance is, to redemption, a call of descriptor, a charge, new tickets, or
\* nothing.
LEMMA IssueStepImplements ==
  ASSUME AuthInv, IssueStep, UNCHANGED <<coreVars, redeemVars>>
  PROVE  RedemptionNext \/ UNCHANGED redemptionVars
<1>1. PICK h \in Handlers :
         \/ Enter(h) \/ Describe(h) \/ AnswerOrRefuse(h)
         \/ \E n \in Batch, old \in SUBSET challenges : Challenge(h, n, old)
         \/ \E i \in Nonces, a \in Accounts, n \in Batch : TakeChallenge(h, i, a, n)
         \/ CacheHit(h) \/ StartQuery(h) \/ LookupFails(h)
         \/ \E member \in BOOLEAN : CoreAnswers(h, member)
         \/ Charge(h) \/ FetchKey(h)
         \/ \E first \in 1 .. MaxTickets : SignBatch(h, first)
  BY Zenon DEF IssueStep
<1>2. CASE UNCHANGED <<clockVars, procVars, storeVars, tickets>>
  BY <1>2, Zenon DEF redemptionVars
<1>3. ASSUME NEW e \in Hours, up, DescriptorOK(e, policy, pin) \/ DescriptorErr(e), UNCHANGED <<clockVars, procVars, tickets>>
      PROVE  RedemptionNext
  <2>1. OtherDescriptorCall
    BY <1>3, Zenon DEF OtherDescriptorCall, DescriptorCall
  <2> QED BY <2>1, Zenon DEF RedemptionNext, RedemptionStep
<1>4. CASE Describe(h)
  <2>1. handler[h].epoch \in Hours
    BY <1>4, RequestFacts, HandlerFields, Zenon DEF Describe, At
  <2> QED BY <1>3, <1>4, <2>1, Zenon DEF Describe, At
<1>5. CASE FetchKey(h)
  <2>1. handler[h].key.epoch \in Hours
    BY <1>5, RequestFacts, Zenon DEF FetchKey, At, Holding, Plain
  <2> QED BY <1>3, <1>5, <2>1, Zenon DEF FetchKey, At, SigningHour
<1>6. CASE Charge(h)
  <2>1. CASE UNCHANGED quota
    BY <1>6, <2>1, Zenon DEF Charge, redemptionVars, storeVars, dbVars
  <2>2. CASE ~UNCHANGED quota
    <3>1. /\ handler[h].acct \in Accounts /\ handler[h].key \in published /\ handler[h].n \in Batch
          /\ handler[h].key.epoch \in Hours
      BY <1>6, RequestFacts, Zenon DEF Charge, At, Holding, Plain
    <3>2. PICK a \in Accounts, k \in published, n \in Batch : a = handler[h].acct /\ k = handler[h].key /\ n = handler[h].n
      BY <3>1, Zenon
    <3>3. quota[<<a, k.epoch>>] \in 0 .. QuotaMax
      BY <3>1, <3>2, ClockTypes, Zenon DEF StoreTypeOK
    <3>4. PICK m \in 0 .. QuotaMax : m = quota[<<a, k.epoch>>]
      BY <3>3, Zenon
    <3>5. quota' = [quota EXCEPT ![<<a, k.epoch>>] = m + n] /\ m + n <= QuotaMax
      BY <1>6, <2>2, <3>2, <3>4, Zenon DEF Charge, QuotaRecord, Allows
    <3>6. m + n \in 1 .. QuotaMax
      BY <3>5, StoreAssumption, IssuanceAssumption, SMTT(30) DEF Batch
    <3>7. ChargeQuota(a, k.epoch, m + n)
      BY <1>6, <3>5, Zenon DEF Charge, ChargeQuota
    <3>8. Issuance
      BY <3>6, <3>7, Zenon DEF Issuance
    <3> QED BY <3>8, Zenon DEF RedemptionNext, RedemptionStep
  <2> QED BY <2>1, <2>2, Zenon
<1>7. ASSUME NEW first \in 1 .. MaxTickets, SignBatch(h, first) PROVE RedemptionNext
  <2>1. handler[h].acct \in Accounts /\ handler[h].key \in published /\ handler[h].n \in Batch
    BY <1>7, RequestFacts, Zenon DEF SignBatch, At, Holding, Plain
  <2>2. PICK a \in Accounts, k \in published, n \in Batch : a = handler[h].acct /\ k = handler[h].key /\ n = handler[h].n
    BY <2>1, Zenon
  <2>3. PICK last \in Int : last = first + n - 1
    BY StoreAssumption, IssuanceAssumption, SMTT(30) DEF Batch
  <2>4. Fresh(first .. last) /\ tickets' = tickets \union {[key |-> k, acct |-> a, no |-> i] : i \in first .. last}
    BY <1>7, <2>2, <2>3, Zenon DEF SignBatch
  <2>5. last \in first .. last
    BY <2>3, StoreAssumption, IssuanceAssumption, SMTT(30) DEF Batch
  <2>6. last \in 1 .. MaxTickets
    BY <2>4, <2>5, ZenonT(30) DEF Fresh
  <2>7. ObtainTickets(k, a, first .. last)
    BY <1>7, <2>4, Zenon DEF ObtainTickets, SignBatch
  <2>8. Issuance
    BY <2>6, <2>7, Zenon DEF Issuance
  <2> QED BY <2>8, Zenon DEF RedemptionNext, RedemptionStep
<1> QED BY <1>1, <1>2, <1>4, <1>5, <1>6, <1>7, ZenonT(30) DEF Enter, AnswerOrRefuse, Challenge, TakeChallenge, CacheHit, StartQuery,
           LookupFails, CoreAnswers

\* Every step of the authority is one that redemption's contract allows.
LEMMA StepImplements ==
  ASSUME AuthInv, [AuthorityNext]_authorityVars
  PROVE  [RedemptionNext]_redemptionVars
<1>1. CASE IssueStep /\ UNCHANGED <<coreVars, redeemVars>>
  BY <1>1, IssueStepImplements, Zenon
<1>2. CASE RedeemStep
  BY <1>2, Zenon DEF RedemptionNext, RedemptionStep
<1>3. CASE MembershipChanges /\ UNCHANGED redeemVars
  BY <1>3, Zenon DEF MembershipChanges, redemptionVars
<1>4. CASE StoreCrash /\ RedeemCrash
  BY <1>4, Zenon DEF RedemptionNext, RedemptionStep, Crash
<1>5. CASE (Start \/ StoreStartFails \/ RefusedRedemption) /\ UNCHANGED redeemVars
  BY <1>5, Zenon DEF RedemptionNext, RedemptionStep, RefusedRedemption, OtherDescriptorCall
<1>6. CASE AuthorityClock
  BY <1>6, Zenon DEF AuthorityClock, RedemptionNext, ForwardClock
<1>7. CASE UNCHANGED authorityVars
  BY <1>7, Zenon DEF authorityVars, redemptionVars
<1> QED BY <1>1, <1>2, <1>3, <1>4, <1>5, <1>6, <1>7, Zenon DEF AuthorityNext, AuthorityStep

--------------------------------------------------------------------------------
(* The quota.  What the requests that are past their charge may still sign is a set of
   pairs, one for each blinded message, so that its size is their sum. *)

Unsigned == {"charged", "signing"}
Due(s, x, labels) == IF s.pc \in labels /\ <<s.acct, s.key.epoch>> = x THEN s.n ELSE 0
Slots(s, x, labels) == IF s.pc \in labels /\ <<s.acct, s.key.epoch>> = x THEN 1 .. s.n ELSE {}
Owed(f, x, labels) == {p \in Handlers \X Batch : p[2] \in Slots(f[p[1]], x, labels)}

\* A batch whose key was fetched fits the quota with all that was signed before; and while
\* the hour can be signed for, its record covers what was signed and what was charged.
QuotaInv ==
  \A x \in Accounts \X Hours :
    /\ issued[x] + Cardinality(Owed(handler, x, {"signing"})) <= QuotaMax
    /\ ~Expired(x[2]) => issued[x] + Cardinality(Owed(handler, x, Unsigned)) <= quota[x]

\* A request's messages are as many as its batch, and they are messages of a batch.
LEMMA SlotsSize ==
  ASSUME NEW s \in HandlerStates, NEW x, NEW labels, labels \subseteq Plain
  PROVE  /\ Slots(s, x, labels) \subseteq Batch /\ IsFiniteSet(Slots(s, x, labels))
         /\ Cardinality(Slots(s, x, labels)) = Due(s, x, labels) /\ Due(s, x, labels) \in Nat
<1>1. CASE s.pc \in labels /\ <<s.acct, s.key.epoch>> = x
  <2>1. Slots(s, x, labels) = 1 .. s.n
    BY <1>1, Zenon DEF Slots
  <2>2. s.n \in Batch
    <3>1. s \in Issuing(Plain)
      BY <1>1, HandlerFields, Zenon
    <3> QED BY <3>1, Zenon DEF Issuing
  <2>3. s.n \in Int /\ s.n >= 1 /\ 1 .. s.n \subseteq Batch
    BY <2>2, IssuanceAssumption DEF Batch
  <2>4. IsFiniteSet(1 .. s.n) /\ Cardinality(1 .. s.n) = s.n
    BY <2>3, FS_Interval
  <2> QED BY <1>1, <2>1, <2>3, <2>4 DEF Due
<1>2. CASE ~(s.pc \in labels /\ <<s.acct, s.key.epoch>> = x)
  BY <1>2, FS_EmptySet, Zenon DEF Slots, Due
<1> QED BY <1>1, <1>2, Zenon

\* What is owed is finite.
LEMMA OwedFinite ==
  \A f, x, labels : IsFiniteSet(Owed(f, x, labels)) /\ Cardinality(Owed(f, x, labels)) \in Nat
<1>1. IsFiniteSet(Batch)
  BY FS_Interval, IssuanceAssumption DEF Batch
<1>2. IsFiniteSet(Handlers \X Batch)
  BY <1>1, FS_Product, IssuanceAssumption, Zenon
<1>3. \A f, x, labels : Owed(f, x, labels) \in SUBSET (Handlers \X Batch)
  BY Zenon  DEF Owed
<1> QED BY <1>2, <1>3, FS_Subset, FS_CardinalityType, Zenon

\* A step that charges no request and signs nothing: requests may only drop out, time only
\* goes on, and only expired records are pruned.
LEMMA QuotaRests ==
  ASSUME QuotaInv, handler \in [Handlers -> HandlerStates], issued \in [Accounts \X Hours -> Nat],
         quota \in [Accounts \X Hours -> 0 .. QuotaMax], issued' = issued, wall \in Int, wall' \in Int, wall <= wall',
         \A x \in Accounts \X Hours : ~Expired(x[2])' => quota'[x] = quota[x],
         \A g \in Handlers : handler'[g] = handler[g] \/ handler'[g].pc \notin Unsigned
  PROVE  QuotaInv'
<1> SUFFICES ASSUME NEW x \in Accounts \X Hours
             PROVE  /\ issued'[x] + Cardinality(Owed(handler', x, {"signing"})) <= QuotaMax
                    /\ ~Expired(x[2])' => issued'[x] + Cardinality(Owed(handler', x, Unsigned)) <= quota'[x]
  BY Zenon  DEF QuotaInv
<1>1. Owed(handler', x, {"signing"}) \subseteq Owed(handler, x, {"signing"})
  BY Zenon  DEF Owed, Slots, Unsigned
<1>2. Owed(handler', x, Unsigned) \subseteq Owed(handler, x, Unsigned)
  BY Zenon  DEF Owed, Slots, Unsigned
<1>3. ASSUME NEW S, NEW T, IsFiniteSet(T), S \subseteq T
      PROVE  \E m \in Nat, n \in Nat : Cardinality(S) = m /\ Cardinality(T) = n /\ m <= n
  BY <1>3, FS_Subset, FS_CardinalityType, Zenon
<1>4. PICK m1 \in Nat, n1 \in Nat : /\ Cardinality(Owed(handler', x, {"signing"})) = m1
                                    /\ Cardinality(Owed(handler, x, {"signing"})) = n1 /\ m1 <= n1
  BY <1>1, <1>3, OwedFinite, Zenon
<1>5. PICK m2 \in Nat, n2 \in Nat : /\ Cardinality(Owed(handler', x, Unsigned)) = m2
                                    /\ Cardinality(Owed(handler, x, Unsigned)) = n2 /\ m2 <= n2
  BY <1>2, <1>3, OwedFinite, Zenon
<1>6. issued[x] \in Nat /\ quota[x] \in Int /\ QuotaMax \in Int
  BY StoreAssumption
<1>7. ~Expired(x[2])' => ~Expired(x[2])
  BY StoreAssumption, SMTT(30) DEF Expired, Hours
<1>8. issued[x] + n1 <= QuotaMax /\ (~Expired(x[2]) => issued[x] + n2 <= quota[x])
  BY <1>4, <1>5, Zenon DEF QuotaInv
<1>9. issued'[x] = issued[x] /\ (~Expired(x[2])' => quota'[x] = quota[x])
  BY ZenonT(30)
<1> QED BY <1>4, <1>5, <1>6, <1>7, <1>8, <1>9, SMTT(30)

QuotaTypes ==
  /\ handler \in [Handlers -> HandlerStates] /\ issued \in [Accounts \X Hours -> Nat]
  /\ quota \in [Accounts \X Hours -> 0 .. QuotaMax] /\ wall \in Int

\* A step of one request keeps the invariant when, in every record, nothing is signed or
\* about to be signed that was not so before, or else the record covers it; and when the
\* record of an hour that is alive grows by as much as is newly charged.
LEMMA QuotaMoves ==
  ASSUME QuotaInv, QuotaTypes, NEW h \in Handlers, NEW s \in HandlerStates,
         handler' = [handler EXCEPT ![h] = s], wall' = wall,
         \A x \in Accounts \X Hours :
           /\ issued'[x] \in Nat /\ quota'[x] \in Int
           /\ \/ issued'[x] + Due(s, x, {"signing"}) <= issued[x] + Due(handler[h], x, {"signing"})
              \/ ~Expired(x[2]) /\ quota'[x] <= QuotaMax
           /\ ~Expired(x[2]) => issued'[x] + Due(s, x, Unsigned) + quota[x]
                                  <= issued[x] + Due(handler[h], x, Unsigned) + quota'[x]
  PROVE  QuotaInv'
<1> SUFFICES ASSUME NEW x \in Accounts \X Hours
             PROVE  /\ issued'[x] + Cardinality(Owed(handler', x, {"signing"})) <= QuotaMax
                    /\ ~Expired(x[2])' => issued'[x] + Cardinality(Owed(handler', x, Unsigned)) <= quota'[x]
  BY ZenonT(30) DEF QuotaInv
<1>1. ASSUME NEW labels \in SUBSET Plain
      PROVE  \E m \in Nat, n \in Nat, a \in Nat, b \in Nat :
               /\ m = Cardinality(Owed(handler, x, labels)) /\ n = Cardinality(Owed(handler', x, labels))
               /\ a = Due(handler[h], x, labels) /\ b = Due(s, x, labels) /\ n + a = m + b
  <2> DEFINE others == {p \in Owed(handler, x, labels) : p[1] # h}
             Own(t) == {h} \X Slots(t, x, labels)
  <2>1. \A t \in HandlerStates : /\ Slots(t, x, labels) \subseteq Batch /\ IsFiniteSet(Slots(t, x, labels))
                                 /\ Cardinality(Slots(t, x, labels)) = Due(t, x, labels)
                                 /\ Due(t, x, labels) \in Nat
    BY SlotsSize, Zenon
  <2>2. IsFiniteSet(others) /\ Cardinality(others) \in Nat
    <3>1. others \in SUBSET Owed(handler, x, labels)
      BY ZenonT(30)
    <3> QED BY <3>1, OwedFinite, FS_Subset, FS_CardinalityType, ZenonT(30)
  <2>3. ASSUME NEW t \in HandlerStates
        PROVE  Cardinality(others \cup Own(t)) = Cardinality(others) + Due(t, x, labels)
    <3>1. IsFiniteSet({h}) /\ Cardinality({h}) = 1
      BY FS_Singleton, Zenon
    <3>2. IsFiniteSet(Own(t)) /\ Cardinality(Own(t)) = Cardinality({h}) * Cardinality(Slots(t, x, labels))
      BY <2>1, <3>1, FS_Product, ZenonT(30)
    <3>3. Due(t, x, labels) \in Nat /\ Cardinality(Own(t)) = Due(t, x, labels)
      BY <2>1, <3>1, <3>2, SMTT(30)
    <3>4. others \cap Own(t) = {}
      BY ZenonT(30)
    <3> HIDE DEF others, Own
    <3>5. Cardinality(others \cup Own(t))
            = Cardinality(others) + Cardinality(Own(t)) - Cardinality(others \cap Own(t))
      BY <2>2, <3>2, FS_Union, Zenon
    <3>6. Cardinality(others \cap Own(t)) = 0
      BY <3>4, FS_EmptySet, ZenonT(30)
    <3> QED BY <2>2, <3>3, <3>5, <3>6
  <2>4. handler[h] \in HandlerStates /\ handler'[h] = s /\ \A g \in Handlers : g # h => handler'[g] = handler[g]
    BY ZenonT(30) DEF QuotaTypes
  <2>5. Owed(handler, x, labels) = others \cup Own(handler[h])
    BY <2>1, <2>4, Zenon DEF Owed
  <2>6. Owed(handler', x, labels) = others \cup Own(s)
    BY <2>1, <2>4, Zenon DEF Owed
  <2> HIDE DEF others, Own
  <2>7. /\ Cardinality(Owed(handler, x, labels)) = Cardinality(others) + Due(handler[h], x, labels)
        /\ Cardinality(Owed(handler', x, labels)) = Cardinality(others) + Due(s, x, labels)
        /\ Due(s, x, labels) \in Nat /\ Due(handler[h], x, labels) \in Nat
    BY <2>1, <2>3, <2>4, <2>5, <2>6, ZenonT(30)
  <2>8. Cardinality(Owed(handler, x, labels)) \in Nat /\ Cardinality(Owed(handler', x, labels)) \in Nat
    BY OwedFinite, ZenonT(30)
  <2> QED BY <2>2, <2>7, <2>8, SMTT(30)
<1>2. {"signing"} \in SUBSET Plain /\ Unsigned \in SUBSET Plain
  BY Zenon DEF Plain, Unsigned
<1>3. PICK m1 \in Nat, n1 \in Nat, a1 \in Nat, b1 \in Nat :
        /\ m1 = Cardinality(Owed(handler, x, {"signing"})) /\ n1 = Cardinality(Owed(handler', x, {"signing"}))
        /\ a1 = Due(handler[h], x, {"signing"}) /\ b1 = Due(s, x, {"signing"}) /\ n1 + a1 = m1 + b1
  BY <1>1, <1>2, Zenon
<1>4. PICK m2 \in Nat, n2 \in Nat, a2 \in Nat, b2 \in Nat :
        /\ m2 = Cardinality(Owed(handler, x, Unsigned)) /\ n2 = Cardinality(Owed(handler', x, Unsigned))
        /\ a2 = Due(handler[h], x, Unsigned) /\ b2 = Due(s, x, Unsigned) /\ n2 + a2 = m2 + b2
  BY <1>1, <1>2, Zenon
<1>5. n1 <= n2
  <2>1. Owed(handler', x, {"signing"}) \subseteq Owed(handler', x, Unsigned)
    BY Zenon  DEF Owed, Slots, Unsigned
  <2>2. IsFiniteSet(Owed(handler', x, Unsigned))
    BY OwedFinite, ZenonT(30)
  <2> QED BY <1>3, <1>4, <2>1, <2>2, FS_Subset, ZenonT(30)
<1>6. issued[x] + m1 <= QuotaMax /\ (~Expired(x[2]) => issued[x] + m2 <= quota[x])
  BY <1>3, <1>4, Zenon DEF QuotaInv
<1>7. /\ issued'[x] \in Nat /\ quota'[x] \in Int
      /\ \/ issued'[x] + b1 <= issued[x] + a1
         \/ ~Expired(x[2]) /\ quota'[x] <= QuotaMax
      /\ ~Expired(x[2]) => issued'[x] + b2 + quota[x] <= issued[x] + a2 + quota'[x]
  BY <1>3, <1>4, ZenonT(30)
<1>8. /\ issued[x] \in Nat /\ quota[x] \in Int /\ QuotaMax \in Int
      /\ Expired(x[2])' <=> Expired(x[2])
  BY StoreAssumption, SMTT(30) DEF QuotaTypes, Expired
<1>9. /\ issued'[x] + n1 <= QuotaMax
      /\ ~Expired(x[2])' => issued'[x] + n2 <= quota'[x]
  <2>1. ~Expired(x[2])' => issued'[x] + n2 <= quota'[x]
    BY <1>4, <1>6, <1>7, <1>8, SMTT(30)
  <2>2. issued'[x] + b1 <= issued[x] + a1 => issued'[x] + n1 <= QuotaMax
    BY <1>3, <1>6, <1>7, <1>8, SMTT(30)
  <2>3. ~Expired(x[2]) /\ quota'[x] <= QuotaMax => issued'[x] + n1 <= QuotaMax
    BY <1>5, <1>7, <1>8, <2>1, SMTT(30)
  <2> QED BY <1>7, <2>1, <2>2, <2>3, ZenonT(30)
<1> QED BY <1>3, <1>4, <1>9, Zenon

\* Pruning, which descriptor and a redemption do, leaves the records of hours that are alive.
LEMMA QuotaPruned ==
  ASSUME QuotaTypes, wall' = wall, Rotate \/ quota' = PrunedQuota \/ UNCHANGED quota
  PROVE  \A x \in Accounts \X Hours : /\ ~Expired(x[2]) => quota'[x] = quota[x]
                                      /\ ~Expired(x[2])' => quota'[x] = quota[x]
<1> SUFFICES ASSUME NEW x \in Accounts \X Hours
             PROVE  /\ ~Expired(x[2]) => quota'[x] = quota[x]
                    /\ ~Expired(x[2])' => quota'[x] = quota[x]
  BY Zenon
<1>1. Expired(x[2])' <=> Expired(x[2])
  BY Zenon DEF Expired
<1>2. ~Expired(x[2]) => PrunedQuota[x] = quota[x]
  BY Zenon DEF QuotaTypes, PrunedQuota
<1>3. quota' = PrunedQuota \/ quota' = quota
  BY Zenon DEF Rotate
<1> QED BY <1>1, <1>2, <1>3, Zenon

\* A request that stays clear of a charge.
Leaves(h) == \E t : Become(h, t) /\ t.pc \notin Unsigned

\* Such a step keeps the invariant, whatever it prunes.
LEMMA QuotaLeft ==
  ASSUME QuotaInv, QuotaTypes, NEW h \in Handlers, Leaves(h), UNCHANGED issued, UNCHANGED wall,
         Rotate \/ quota' = PrunedQuota \/ UNCHANGED quota
  PROVE  QuotaInv'
<1>1. PICK t : Become(h, t) /\ t.pc \notin Unsigned
  BY Zenon DEF Leaves
<1>2. \A g \in Handlers : handler'[g] = handler[g] \/ handler'[g].pc \notin Unsigned
  BY <1>1, Zenon DEF Become, QuotaTypes
<1>3. wall' \in Int /\ wall <= wall'
  BY DEF QuotaTypes
<1>4. \A x \in Accounts \X Hours : ~Expired(x[2])' => quota'[x] = quota[x]
  BY QuotaPruned, Zenon
<1> QED BY <1>2, <1>3, <1>4, QuotaRests, Zenon DEF QuotaTypes

\* The charge: the record grows by the batch, within the quota.
LEMMA QuotaCharged ==
  ASSUME QuotaInv, QuotaTypes, QuotaTypes', NEW h \in Handlers, Charge(h)
  PROVE  QuotaInv'
<1>1. CASE Become(h, Idle) /\ UNCHANGED quota
  <2>1. Leaves(h)
    BY <1>1 DEF Leaves, Idle, Unsigned
  <2> QED BY <1>1, <2>1, QuotaLeft, Zenon DEF Charge, clockVars
<1>2. CASE ~(Become(h, Idle) /\ UNCHANGED quota)
  <2> DEFINE y == <<handler[h].acct, handler[h].key.epoch>>
             s == [handler[h] EXCEPT !.pc = "charged"]
  <2>1. /\ handler[h].pc = "admitted" /\ handler' = [handler EXCEPT ![h] = s]
        /\ quota' = [quota EXCEPT ![y] = quota[y] + handler[h].n]
        /\ issued' = issued /\ wall' = wall
    BY <1>2, Zenon DEF Charge, At, MoveTo, Become, QuotaRecord, clockVars
  <2>2. /\ handler[h] \in Issuing(Plain) /\ s \in Issuing(Plain) /\ s \in HandlerStates
        /\ y \in Accounts \X Hours /\ handler[h].n \in Int
    BY <2>1, HandlerFields DEF QuotaTypes, Issuing, Plain, HandlerStates, KeyIds, Batch
  <2>3. s.pc = "charged" /\ s.acct = handler[h].acct /\ s.key = handler[h].key /\ s.n = handler[h].n
    BY <2>2, Zenon DEF Issuing
  <2> HIDE DEF s
  <2>4. ASSUME NEW x \in Accounts \X Hours
        PROVE  /\ issued'[x] \in Nat /\ quota'[x] \in Int
               /\ issued'[x] + Due(s, x, {"signing"}) <= issued[x] + Due(handler[h], x, {"signing"})
               /\ issued'[x] + Due(s, x, Unsigned) + quota[x]
                    <= issued[x] + Due(handler[h], x, Unsigned) + quota'[x]
    <3>1. /\ Due(s, x, {"signing"}) = 0 /\ Due(handler[h], x, {"signing"}) = 0
          /\ Due(s, x, Unsigned) = (IF x = y THEN handler[h].n ELSE 0) /\ Due(handler[h], x, Unsigned) = 0
      BY <2>1, <2>3, Zenon DEF Due, Unsigned
    <3>2. /\ issued[x] \in Nat /\ issued'[x] = issued[x] /\ quota[x] \in Int /\ quota'[x] \in Int
          /\ quota'[x] = IF x = y THEN quota[x] + handler[h].n ELSE quota[x]
      BY <2>1, <2>2, StoreAssumption DEF QuotaTypes
    <3> HIDE DEF y
    <3> QED BY <2>2, <3>1, <3>2, SMTT(30)
  <2> QED BY <2>1, <2>2, <2>4, QuotaMoves, Zenon
<1> QED BY <1>1, <1>2, Zenon

\* The key is fetched only while the hour is alive, and then its record covers the batch.
LEMMA QuotaFetched ==
  ASSUME QuotaInv, QuotaTypes, QuotaTypes', NEW h \in Handlers, FetchKey(h)
  PROVE  QuotaInv'
<1> DEFINE e == handler[h].key.epoch
<1>1. CASE Become(h, Idle) /\ DescriptorErr(e)
  <2>1. Leaves(h)
    BY <1>1 DEF Leaves, Idle, Unsigned
  <2>2. Rotate \/ UNCHANGED quota
    BY <1>1, Zenon DEF DescriptorErr, storeVars, dbVars
  <2> QED BY <1>1, <2>1, <2>2, QuotaLeft, Zenon DEF FetchKey, clockVars
<1>2. CASE /\ DescriptorOK(e, policy, pin)
           /\ Become(h, [handler[h] EXCEPT !.pc = "signing", !.key = KeyId(e, policy, pin)])
  <2> DEFINE y == <<handler[h].acct, e>>
             s == [handler[h] EXCEPT !.pc = "signing", !.key = KeyId(e, policy, pin)]
  <2>1. /\ handler[h].pc = "charged" /\ handler' = [handler EXCEPT ![h] = s]
        /\ issued' = issued /\ wall' = wall /\ ~Expired(e) /\ Rotate
    BY <1>2, Zenon DEF FetchKey, At, Become, clockVars, DescriptorOK, EpochServed
  <2>2. /\ handler[h] \in Issuing(Plain) /\ y \in Accounts \X Hours /\ handler[h].n \in Int
    BY <2>1, HandlerFields DEF QuotaTypes, Issuing, Plain, KeyIds, Batch
  <2>3. s.pc = "signing" /\ s.acct = handler[h].acct /\ s.key.epoch = e /\ s.n = handler[h].n
    BY <2>2, Zenon DEF Issuing, KeyId
  <2>4. s \in HandlerStates
    <3>1. handler'[h] = s /\ handler'[h] \in HandlerStates
      BY <2>1, Zenon DEF QuotaTypes
    <3> QED BY <3>1, Zenon
  <2> HIDE DEF s
  <2>5. ASSUME NEW x \in Accounts \X Hours
        PROVE  /\ issued'[x] \in Nat /\ quota'[x] \in Int
               /\ \/ issued'[x] + Due(s, x, {"signing"}) <= issued[x] + Due(handler[h], x, {"signing"})
                  \/ ~Expired(x[2]) /\ quota'[x] <= QuotaMax
               /\ ~Expired(x[2]) => issued'[x] + Due(s, x, Unsigned) + quota[x]
                                      <= issued[x] + Due(handler[h], x, Unsigned) + quota'[x]
    <3>1. /\ x # y => Due(s, x, {"signing"}) = 0 /\ Due(handler[h], x, {"signing"}) = 0
          /\ Due(s, x, Unsigned) = (IF x = y THEN handler[h].n ELSE 0)
          /\ Due(handler[h], x, Unsigned) = (IF x = y THEN handler[h].n ELSE 0)
      BY <2>1, <2>3, Zenon DEF Due, Unsigned
    <3>2. /\ issued[x] \in Nat /\ issued'[x] = issued[x] /\ quota[x] \in Int /\ quota'[x] \in Int
          /\ quota'[x] <= QuotaMax
      BY <2>1, StoreAssumption, SMTT(30) DEF QuotaTypes
    <3>3. ~Expired(x[2]) => quota'[x] = quota[x]
      BY <2>1, QuotaPruned, Zenon
    <3>4. x = y => ~Expired(x[2])
      <4>1. x = y => x[2] = e
        BY SMTT(30)
      <4> QED BY <2>1, <4>1, Zenon
    <3> HIDE DEF y
    <3>5. CASE x = y
      BY <2>2, <3>1, <3>2, <3>3, <3>4, <3>5, SMTT(30)
    <3>6. CASE x # y
      BY <3>1, <3>2, <3>3, <3>6, SMTT(30)
    <3> QED BY <3>5, <3>6, ZenonT(30)
  <2> QED BY <2>1, <2>4, <2>5, QuotaMoves, Zenon
<1> QED BY <1>1, <1>2, Zenon DEF FetchKey, SigningHour

\* Signing turns what the request owed into signatures.
LEMMA QuotaSigned ==
  ASSUME QuotaInv, QuotaTypes, NEW h \in Handlers, NEW first, SignBatch(h, first)
  PROVE  QuotaInv'
<1> DEFINE y == <<handler[h].acct, handler[h].key.epoch>>
           n == handler[h].n
<1>1. /\ handler[h].pc = "signing" /\ handler' = [handler EXCEPT ![h] = Idle]
      /\ issued' = [issued EXCEPT ![y] = @ + n] /\ wall' = wall /\ quota' = quota
  BY ZenonT(30) DEF SignBatch, At, Become, clockVars, storeVars, dbVars
<1>2. y \in Accounts \X Hours /\ n \in Nat /\ Idle \in HandlerStates
  <2>1. handler[h] \in HandlerStates /\ Idle \in HandlerStates /\ handler[h].pc \in Plain
    BY <1>1, Zenon DEF QuotaTypes, HandlerStates, Plain
  <2>2. handler[h] \in Issuing(Plain)
    BY <2>1, HandlerFields, Zenon
  <2>3. handler[h].acct \in Accounts /\ handler[h].key \in KeyIds /\ n \in Batch
    BY <2>2, Zenon DEF Issuing
  <2> QED BY <2>1, <2>3, IssuanceAssumption, SMTT(30) DEF KeyIds, Batch
<1>3. ASSUME NEW x \in Accounts \X Hours
      PROVE  /\ issued'[x] \in Nat /\ quota'[x] \in Int
             /\ issued'[x] + Due(Idle, x, {"signing"}) <= issued[x] + Due(handler[h], x, {"signing"})
             /\ issued'[x] + Due(Idle, x, Unsigned) + quota[x]
                  <= issued[x] + Due(handler[h], x, Unsigned) + quota'[x]
  <2>1. /\ Due(Idle, x, {"signing"}) = 0 /\ Due(handler[h], x, {"signing"}) = (IF x = y THEN n ELSE 0)
        /\ Due(Idle, x, Unsigned) = 0 /\ Due(handler[h], x, Unsigned) = (IF x = y THEN n ELSE 0)
    BY <1>1, Zenon DEF Due, Unsigned, Idle
  <2>2. /\ issued[x] \in Nat /\ issued'[x] = (IF x = y THEN issued[x] + n ELSE issued[x])
        /\ quota[x] \in Int /\ quota'[x] = quota[x]
    BY <1>1, <1>2, StoreAssumption DEF QuotaTypes
  <2> HIDE DEF y, n
  <2> QED BY <1>2, <2>1, <2>2
<1> QED BY <1>1, <1>2, <1>3, QuotaMoves, ZenonT(30)

\* handle with an answer: the request is not charged by it.
LEMMA JudgedLeaves ==
  ASSUME NEW h \in Handlers, NEW member, NEW checked, NEW again, Judge(h, member, checked, again)
  PROVE  Leaves(h)
<1> DEFINE request(l) == [pc |-> l, key |-> handler[h].key, acct |-> handler[h].acct,
                          n |-> handler[h].n, nonce |-> handler[h].nonce]
<1>1. \A l : [request("lookup") EXCEPT !.pc = l] = request(l)
  OBVIOUS
<1>2. Become(h, request("admitted")) \/ Become(h, request("recheck")) \/ Become(h, Idle)
  BY <1>1, Zenon DEF Judge
<1>3. request("admitted").pc \notin Unsigned /\ request("recheck").pc \notin Unsigned /\ Idle.pc \notin Unsigned
  BY Zenon DEF Idle, Unsigned
<1> HIDE DEF request
<1> QED BY <1>2, <1>3, Zenon DEF Leaves

\* The steps of a request before its charge, and the errors, leave the store to descriptor.
LEMMA QuotaEarly ==
  ASSUME QuotaInv, QuotaTypes, NEW h \in Handlers,
         \/ Enter(h) \/ Describe(h) \/ AnswerOrRefuse(h)
         \/ \E n \in Batch, old \in SUBSET challenges : Challenge(h, n, old)
         \/ \E i \in Nonces, a \in Accounts, n \in Batch : TakeChallenge(h, i, a, n)
         \/ CacheHit(h) \/ StartQuery(h) \/ LookupFails(h)
         \/ \E member \in BOOLEAN : CoreAnswers(h, member)
  PROVE  QuotaInv'
<1>0. \A t : Become(h, t) /\ t.pc \notin Unsigned => Leaves(h)
  BY Zenon DEF Leaves
<1>1. Idle.pc \notin Unsigned
  BY Zenon DEF Idle, Unsigned
<1>2. ASSUME Leaves(h), UNCHANGED issued, UNCHANGED wall, UNCHANGED quota PROVE QuotaInv'
  BY <1>2, QuotaLeft, Zenon
<1>3. CASE Enter(h)
  <2>1. Become(h, [pc |-> "entered", epoch |-> wall]) /\ UNCHANGED <<issued, wall, quota>>
    BY <1>3, Zenon DEF Enter, clockVars, storeVars, dbVars
  <2>2. Leaves(h)
    BY <1>0, <2>1, Zenon DEF Unsigned
  <2> QED BY <1>2, <2>1, <2>2, Zenon
<1>4. CASE Describe(h)
  <2>1. UNCHANGED issued /\ UNCHANGED wall
    BY <1>4, Zenon DEF Describe, clockVars
  <2>2. Rotate \/ UNCHANGED quota
    BY <1>4, Zenon DEF Describe, DescriptorOK, DescriptorErr, storeVars, dbVars
  <2>3. Leaves(h)
    <3>1. \A k : [pc |-> "described", key |-> k].pc \notin Unsigned
      BY Zenon  DEF Unsigned
    <3>2. Become(h, Idle) \/ \E k : Become(h, [pc |-> "described", key |-> k])
      BY <1>4, Zenon DEF Describe
    <3> QED BY <1>0, <1>1, <3>1, <3>2, Zenon
  <2> QED BY <2>1, <2>2, <2>3, QuotaLeft, ZenonT(30)
<1>5. CASE AnswerOrRefuse(h) \/ LookupFails(h)
  <2>1. Become(h, Idle) /\ UNCHANGED <<issued, wall, quota>>
    BY <1>5, Zenon DEF AnswerOrRefuse, LookupFails, clockVars, storeVars, dbVars
  <2> QED BY <1>0, <1>1, <1>2, <2>1, Zenon
<1>10. ASSUME NEW n \in Batch, NEW old \in SUBSET challenges, Challenge(h, n, old) PROVE QuotaInv'
  <2>1. Become(h, Idle) /\ UNCHANGED <<issued, wall, quota>>
    BY <1>10, Zenon DEF Challenge, clockVars, storeVars, dbVars
  <2> QED BY <1>0, <1>1, <1>2, <2>1, Zenon
<1>6. ASSUME NEW i \in Nonces, NEW a \in Accounts, NEW n \in Batch, TakeChallenge(h, i, a, n) PROVE QuotaInv'
  <2> DEFINE t == [pc |-> "lookup", key |-> handler[h].key, acct |-> a, n |-> n, nonce |-> i]
  <2>1. (Become(h, t) \/ Become(h, Idle)) /\ UNCHANGED <<issued, wall, quota>>
    BY <1>6, Zenon DEF TakeChallenge, clockVars, storeVars, dbVars
  <2>2. t.pc \notin Unsigned
    BY Zenon DEF Unsigned
  <2> HIDE DEF t
  <2> QED BY <1>0, <1>1, <1>2, <2>1, <2>2, Zenon
<1>7. CASE CacheHit(h)
  <2>1. PICK c \in cache : Judge(h, c.member, c.checked, FALSE)
    BY <1>7, Zenon DEF CacheHit
  <2>2. UNCHANGED <<issued, wall, quota>>
    BY <1>7, Zenon DEF CacheHit, clockVars, storeVars, dbVars
  <2>3. Leaves(h)
    BY <2>1, JudgedLeaves, Zenon
  <2> QED BY <1>2, <2>2, <2>3, Zenon
<1>8. CASE StartQuery(h)
  <2>1. UNCHANGED <<issued, wall, quota>>
    BY <1>8, ZenonT(30) DEF StartQuery, clockVars, storeVars, dbVars
  <2>2. \E t : Become(h, t) /\ t.pc = "querying"
    <3> DEFINE t == [pc |-> "querying", key |-> handler[h].key, acct |-> handler[h].acct,
                     n |-> handler[h].n, nonce |-> handler[h].nonce,
                     started |-> wall, at |-> mono, again |-> handler[h].pc = "recheck"]
    <3>1. t.pc = "querying"
      BY Zenon
    <3>2. Become(h, t)
      BY <1>8, Zenon DEF StartQuery
    <3> HIDE DEF t
    <3> QED BY <3>1, <3>2, Zenon
  <2> QED BY <1>0, <1>2, <2>1, <2>2, Zenon DEF Unsigned
<1>9. ASSUME NEW member \in BOOLEAN, CoreAnswers(h, member) PROVE QuotaInv'
  <2>1. UNCHANGED <<issued, wall, quota>>
    BY <1>9, Zenon DEF CoreAnswers, clockVars, storeVars, dbVars
  <2>2. \E checked : Judge(h, member, checked, handler[h].again)
    BY <1>9, Zenon DEF CoreAnswers
  <2>3. Leaves(h)
    BY <2>2, JudgedLeaves, Zenon
  <2> QED BY <1>2, <2>1, <2>3, Zenon
<1> QED BY <1>3, <1>4, <1>5, <1>6, <1>7, <1>8, <1>9, <1>10, Zenon

\* Every step of issuance keeps the invariant.
LEMMA QuotaStep ==
  ASSUME QuotaInv, QuotaTypes, QuotaTypes', [IssuanceNext]_issuanceVars
  PROVE  QuotaInv'
<1>1. ASSUME UNCHANGED <<handler, issued>>, wall <= wall',
             \A x \in Accounts \X Hours : ~Expired(x[2])' => quota'[x] = quota[x]
      PROVE  QuotaInv'
  BY <1>1, QuotaRests, Zenon DEF QuotaTypes
<1>2. ASSUME UNCHANGED <<handler, issued, wall, quota>> PROVE QuotaInv'
  <2>1. wall <= wall'
    BY <1>2, SMTT(30) DEF QuotaTypes
  <2> QED BY <1>1, <1>2, <2>1, Zenon
<1>3. ASSUME UNCHANGED <<handler, issued, wall>>, Rotate \/ quota' = PrunedQuota \/ UNCHANGED quota PROVE QuotaInv'
  <2>1. wall <= wall'
    BY <1>3, SMTT(30) DEF QuotaTypes
  <2>2. \A x \in Accounts \X Hours : ~Expired(x[2])' => quota'[x] = quota[x]
    BY <1>3, QuotaPruned, Zenon
  <2> QED BY <1>1, <1>3, <2>1, <2>2, Zenon
<1>4. CASE IssueStep
  <2>1. PICK h \in Handlers :
           \/ Enter(h) \/ Describe(h) \/ AnswerOrRefuse(h)
           \/ \E n \in Batch, old \in SUBSET challenges : Challenge(h, n, old)
           \/ \E i \in Nonces, a \in Accounts, n \in Batch : TakeChallenge(h, i, a, n)
           \/ CacheHit(h) \/ StartQuery(h) \/ LookupFails(h)
           \/ \E member \in BOOLEAN : CoreAnswers(h, member)
           \/ Charge(h) \/ FetchKey(h)
           \/ \E first \in 1 .. MaxTickets : SignBatch(h, first)
    BY <1>4, Zenon DEF IssueStep
  <2> QED BY <2>1, QuotaEarly, QuotaCharged, QuotaFetched, QuotaSigned, Zenon
<1>5. CASE MembershipChanges
  BY <1>2, <1>5, Zenon DEF MembershipChanges, clockVars, storeVars, dbVars, issueVars
<1>6. CASE StoreCrash /\ IssueCrash
  <2>1. UNCHANGED <<issued, wall, quota>> /\ wall <= wall' /\ wall' \in Int
    BY <1>6, SMTT(30) DEF StoreCrash, IssueCrash, clockVars, dbVars, QuotaTypes
  <2>2. \A g \in Handlers : handler'[g] = handler[g] \/ handler'[g].pc \notin Unsigned
    BY <1>6, Zenon DEF IssueCrash, Idle, Unsigned
  <2> QED BY <2>1, <2>2, QuotaRests, Zenon DEF QuotaTypes
<1>7. CASE /\ \/ \E p \in Policies, c \in Pins : StoreStart(p, c)
              \/ StoreStartFails
              \/ \E e \in Hours : DescriptorCall(e)
              \/ \E t \in tickets : MarkAndPrune(t)
           /\ UNCHANGED <<issueVars, coreVars>>
  <2>1. UNCHANGED <<handler, issued, wall>>
    BY <1>7, Zenon DEF issueVars, clockVars, StoreStart, StoreStartFails, DescriptorCall, MarkAndPrune
  <2>2. Rotate \/ quota' = PrunedQuota \/ UNCHANGED quota
    BY <1>7, Zenon DEF StoreStart, StoreStartFails, DescriptorCall, MarkAndPrune, DescriptorOK, DescriptorErr,
                storeVars, dbVars
  <2> QED BY <1>3, <2>1, <2>2, Zenon
<1>8. CASE IssuanceClock
  <2>1. UNCHANGED <<handler, issued, quota>>
    BY <1>8, Zenon DEF IssuanceClock, issueVars, storeVars, dbVars
  <2>2. wall <= wall'
    BY <1>8, SMTT(30) DEF IssuanceClock, Tick, ClockJump, QuotaTypes
  <2> QED BY <1>1, <2>1, <2>2, Zenon
<1>9. CASE UNCHANGED issuanceVars
  BY <1>2, <1>9, Zenon DEF issuanceVars, issueVars, clockVars, storeVars, dbVars
<1> QED BY <1>4, <1>5, <1>6, <1>7, <1>8, <1>9, Zenon DEF IssuanceNext, IssuanceStep
================================================================================
