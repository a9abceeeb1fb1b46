------------------------- MODULE TicketAuthorityProofs -------------------------
(***************************************************************************)
(* The whole authority implements redemption's contract, so that what is    *)
(* proved of redemption alone holds of it; and the properties that need     *)
(* both halves: leaving a group takes effect within Lifetime hours, a        *)
(* challenge is used once, and a batch is signed with the key it was asked   *)
(* for.                                                                     *)
(***************************************************************************)
EXTENDS TicketAuthorityMoves

--------------------------------------------------------------------------------
(* The steps of issuance keep the invariant. *)

\* Keys are published in their hour or later.
LEMMA PublishedInTime == ASSUME AuthInv, [RedemptionNext]_redemptionVars PROVE PublishedInv' /\ published \subseteq published'
<1>1. ASSUME NEW e \in Hours, NEW p \in Policies, NEW c \in Pins, DescriptorOK(e, p, c) \/ DescriptorErr(e), wall' = wall
      PROVE  PublishedInv' /\ published \subseteq published'
  BY <1>1, DescriptorPublishes DEF AuthInv, PublishedInv
<1>2. ASSUME UNCHANGED <<wall, published>> PROVE PublishedInv' /\ published \subseteq published'
  BY <1>2, Zenon DEF AuthInv, PublishedInv
<1>3. CASE RedeemStep
  <2>1. PICK r \in Requests :
          (\E t \in tickets : RedeemDescribe(r, t)) \/ RedeemVerify(r) \/ RedeemSpend(r) \/ RedeemGrant(r)
    BY <1>3, Zenon DEF RedeemStep
  <2>2. ASSUME NEW t \in tickets, RedeemDescribe(r, t) PROVE PublishedInv' /\ published \subseteq published'
    <3>1. t.key.epoch \in Hours
      BY ClockTypes, TicketParts, Zenon DEF StoreTypeOK
    <3> QED BY <1>1, <2>2, <3>1, ClockTypes, Zenon DEF RedeemDescribe, clockVars
  <2>3. CASE RedeemVerify(r) \/ RedeemSpend(r) \/ RedeemGrant(r)
    BY <1>2, <2>3, Zenon DEF RedeemVerify, RedeemSpend, RedeemGrant, clockVars, storeVars
  <2> QED BY <2>1, <2>2, <2>3, Zenon
<1>4. CASE Start
  BY <1>1, <1>4, ClockTypes, Zenon DEF Start, StoreStart, clockVars
<1>5. CASE StoreStartFails
  BY <1>1, <1>5, ClockTypes, Zenon DEF StoreStartFails, clockVars
<1>6. CASE OtherDescriptorCall
  BY <1>1, <1>6, ClockTypes, Zenon DEF OtherDescriptorCall, DescriptorCall, clockVars
<1>7. CASE Crash \/ Issuance
  BY <1>2, <1>7, Zenon DEF Crash, StoreCrash, Issuance, ObtainTickets, ChargeQuota, clockVars, storeVars
<1>8. CASE ForwardClock
  <2>1. published' = published /\ (wall' = wall + 1)
    BY <1>8, Zenon DEF ForwardClock, Tick, ClockJump, storeVars
  <2>2. \A k \in published : k.epoch \in Int /\ k.epoch <= wall
    BY ClockTypes, KeyParts DEF Hours, AuthInv, PublishedInv
  <2>3. PICK w \in Int : w = wall
    BY ClockTypes, Zenon
  <2>4. \A k \in published : k.epoch <= w + 1
    BY <2>2, <2>3
  <2> QED BY <2>1, <2>3, <2>4, Zenon DEF PublishedInv
<1>9. CASE UNCHANGED redemptionVars
  BY <1>2, <1>9, Zenon DEF redemptionVars, clockVars, storeVars
<1> QED BY <1>3, <1>4, <1>5, <1>6, <1>7, <1>8, <1>9, Zenon DEF RedemptionNext, RedemptionStep

\* A request that goes on keeps its nonce to itself.
LEMMA NoncesFollow ==
  ASSUME AuthInv, NEW h \in Handlers, NEW s \in HandlerStates, Follows(h, s), UNCHANGED <<challenges, nonceGen, batches>>
  PROVE  NonceInv'
<1>1. handler' \in [Handlers -> HandlerStates] /\ handler'[h] = s /\ \A g \in Handlers : g # h => handler'[g] = handler[g]
  BY BecomeTypes, Zenon DEF AuthInv, Follows
<1>2. \A g \in Handlers : handler'[g].pc \in Holding => handler[g].pc \in Holding /\ handler'[g].nonce = handler[g].nonce
  BY <1>1, Zenon DEF Follows
<1> QED BY <1>2 DEF AuthInv, NonceInv

\* A request moves, and at most the cache changes besides.
LEMMA MoveKeeps ==
  ASSUME AuthInv, Goes, SingleUseInv', KeyInv', PublishedInv',
         NEW h \in Handlers, NEW s \in HandlerStates, Follows(h, s), Confirmed(s)', up, up' = up,
         UNCHANGED <<challenges, nonceGen, issued, batches, tickets, redeemVars>>,
         cache' \subseteq [acct: Accounts, member: BOOLEAN, checked: Hours, at: Hours], CacheInv'
  PROVE  AuthInv'
<1>1. handler' \in [Handlers -> HandlerStates]
  BY BecomeTypes, Zenon DEF AuthInv, Follows
<1>2. IssueTypeOK'
  BY <1>1, Zenon DEF AuthInv, IssueTypeOK, Goes, Passes
<1>3. HandlersInv'
  BY OthersStay, Zenon DEF Follows
<1>4. NonceInv'
  BY NoncesFollow, Zenon
<1>5. tickets' \subseteq Tickets
  BY ClockTypes, Zenon DEF StoreTypeOK
<1>6. SignedForRecentMember' /\ GrantsInv'
  BY <1>5, TicketsStay, GrantsStay, Zenon DEF Goes
<1> QED BY <1>2, <1>3, <1>4, <1>6, Zenon DEF AuthInv

\* /challenge: the new nonce has never been drawn before.
LEMMA ChallengeKeeps ==
  ASSUME AuthInv, SingleUseInv', KeyInv', PublishedInv', UNCHANGED <<coreVars, redeemVars>>,
         NEW h \in Handlers, NEW n \in Batch, NEW old \in SUBSET challenges, Challenge(h, n, old)
  PROVE  AuthInv'
<1>1. /\ At(h, "described") /\ Become(h, Idle) /\ nonceGen < MaxNonces /\ nonceGen' = nonceGen + 1
      /\ UNCHANGED <<clockVars, procVars, storeVars, tickets, cache, issued, batches>>
  BY Zenon DEF Challenge
<1>2. nonceGen \in 0 .. MaxNonces /\ MaxNonces \in Nat
  BY IssuanceAssumption, Zenon DEF AuthInv, IssueTypeOK
<1>3. PICK k \in Nonces : k = nonceGen' /\ k = nonceGen + 1
  BY <1>1, <1>2, SMTT(30) DEF Nonces
<1>4. handler[h].key \in KeyIds
  BY <1>1, RequestFacts, HandlerFields, Zenon DEF At
<1> DEFINE new == [nonce |-> k, key |-> handler[h].key, n |-> n]
<1>5. challenges' \subseteq challenges \union {new}
  BY <1>3, Zenon DEF Challenge
<1>6. new \in [nonce: Nonces, key: KeyIds, n: Batch] /\ new.nonce = k
  BY <1>4, Zenon
<1> HIDE DEF new
<1>7. Goes /\ up /\ up' = up
  BY <1>1, UntouchedGoes, Zenon DEF Untouched, At, procVars
<1>8. PICK s \in HandlerStates : Follows(h, s) /\ Confirmed(s)'
  BY <1>1, IdleMoves, Zenon
<1>9. handler' \in [Handlers -> HandlerStates] /\ handler'[h] = Idle /\ \A g \in Handlers : g # h => handler'[g] = handler[g]
  BY <1>1, StateTypes, BecomeTypes, Zenon DEF AuthInv
<1>10. IssueTypeOK'
  <2>1. challenges' \subseteq [nonce: Nonces, key: KeyIds, n: Batch]
    BY <1>5, <1>6, Zenon DEF AuthInv, IssueTypeOK
  <2>2. nonceGen' \in 0 .. MaxNonces
    BY <1>3 DEF Nonces
  <2> QED BY <1>1, <1>7, <1>9, <2>1, <2>2, Zenon DEF AuthInv, IssueTypeOK, Goes, Passes
<1>11. HandlersInv'
  BY <1>7, <1>8, OthersStay, Zenon DEF Follows
<1>12. NonceInv'
  <2>1. \A c \in challenges : c.nonce \in Nonces /\ c.nonce <= nonceGen /\ c.nonce < k
    BY <1>2, <1>3 DEF AuthInv, IssueTypeOK, NonceInv, Nonces
  <2>2. \A g \in Handlers : handler'[g].pc \in Holding => g # h /\ handler[g].pc \in Holding /\ handler'[g] = handler[g]
    BY <1>9 DEF Idle, Holding, Plain
  <2>3. ASSUME NEW g \in Handlers, handler[g].pc \in Holding PROVE handler[g].nonce \in Nonces /\ handler[g].nonce < k
    <3>1. handler[g].nonce \in Nonces
      BY <2>3, RequestFacts, Zenon
    <3>2. handler[g].nonce <= nonceGen
      BY <2>3, Zenon DEF AuthInv, NonceInv
    <3> QED BY <1>2, <1>3, <3>1, <3>2, SMTT(30) DEF Nonces
  <2>4. ASSUME NEW c \in challenges' PROVE c.nonce <= k /\ batches[c.nonce] = 0
    <3>1. CASE c \in challenges
      <4>1. batches[c.nonce] = 0
        BY <3>1, Zenon DEF AuthInv, NonceInv
      <4> QED BY <1>3, <2>1, <3>1, <4>1, SMTT(30) DEF Nonces
    <3>2. CASE c = new
      <4>1. k > nonceGen
        BY <1>2, <1>3, SMTT(30)
      <4>2. batches[k] = 0
        BY <4>1, Zenon DEF AuthInv, NonceInv
      <4>3. k <= k
        BY DEF Nonces
      <4> QED BY <1>6, <3>2, <4>2, <4>3, Zenon
    <3> QED BY <1>5, <3>1, <3>2, Zenon
  <2>5. \A g \in Handlers : handler'[g].pc \in Holding =>
          /\ handler'[g].nonce <= k /\ batches[handler'[g].nonce] = 0
          /\ \A c \in challenges' : c.nonce # handler'[g].nonce
          /\ \A f \in Handlers : f # g /\ handler'[f].pc \in Holding => handler'[f].nonce # handler'[g].nonce
    <3>1. SUFFICES ASSUME NEW g \in Handlers, handler'[g].pc \in Holding
                   PROVE /\ handler'[g].nonce <= k /\ batches[handler'[g].nonce] = 0
                         /\ \A c \in challenges' : c.nonce # handler'[g].nonce
                         /\ \A f \in Handlers : f # g /\ handler'[f].pc \in Holding => handler'[f].nonce # handler'[g].nonce
      BY Zenon
    <3>2. handler'[g].nonce \in Nonces /\ handler'[g].nonce < k /\ batches[handler'[g].nonce] = 0
      BY <2>2, <2>3, <3>1, Zenon DEF AuthInv, NonceInv
    <3>3. ASSUME NEW c \in challenges' PROVE c.nonce # handler'[g].nonce
      <4>1. CASE c \in challenges
        BY <2>2, <3>1, <4>1, Zenon DEF AuthInv, NonceInv
      <4>2. CASE c = new
        <5>1. k # handler'[g].nonce
          BY <3>2 DEF Nonces
        <5> QED BY <1>6, <4>2, <5>1, Zenon
      <4> QED BY <1>5, <4>1, <4>2, Zenon
    <3>4. \A f \in Handlers : f # g /\ handler'[f].pc \in Holding => handler'[f].nonce # handler'[g].nonce
      BY <2>2, <3>1, Zenon DEF AuthInv, NonceInv
    <3>5. handler'[g].nonce <= k
      BY <1>3, <3>2, SMTT(30) DEF Nonces
    <3> QED BY <3>2, <3>3, <3>4, <3>5, Zenon
  <2>6. \A i \in Nonces : (i > k => batches[i] = 0) /\ batches[i] <= 1
    BY <1>2, <1>3 DEF AuthInv, NonceInv, Nonces
  <2> QED BY <1>1, <1>3, <2>4, <2>5, <2>6, Zenon DEF NonceInv
<1>13. tickets' \subseteq Tickets /\ tickets' = tickets
  BY <1>1, ClockTypes, Zenon DEF StoreTypeOK
<1>14. SignedForRecentMember' /\ GrantsInv' /\ CacheInv'
  BY <1>1, <1>7, <1>13, TicketsStay, GrantsStay, CacheStays, Zenon DEF Goes
<1> QED BY <1>10, <1>11, <1>12, <1>14, Zenon DEF AuthInv

\* /issue takes the challenge: the request that goes on is the only one with its nonce.
LEMMA TakeChallengeKeeps ==
  ASSUME AuthInv, SingleUseInv', KeyInv', PublishedInv', UNCHANGED <<coreVars, redeemVars>>,
         NEW h \in Handlers, NEW i \in Nonces, NEW a \in Accounts, NEW n \in Batch, TakeChallenge(h, i, a, n)
  PROVE  AuthInv'
<1> DEFINE begun == [pc |-> "lookup", key |-> handler[h].key, acct |-> a, n |-> n, nonce |-> i]
           taken == [nonce |-> i, key |-> handler[h].key, n |-> n]
<1>1. /\ At(h, "described") /\ challenges' = {c \in challenges : c.nonce # i}
      /\ UNCHANGED <<clockVars, procVars, storeVars, tickets, nonceGen, cache, issued, batches>>
  BY Zenon DEF TakeChallenge, Untaken
<1>2. (taken \in challenges /\ Become(h, begun)) \/ Become(h, Idle)
  BY Zenon  DEF TakeChallenge
<1>3. handler[h].key \in KeyIds /\ handler[h].key \in published /\ handler[h].key.policy = policy /\ handler[h].key.pin = pin
  BY <1>1, RequestFacts, HandlerFields, Zenon DEF At, Confirmed
<1>4. Goes /\ up /\ up' = up /\ \A s \in HandlerStates : Confirmed(s) => Confirmed(s)'
  BY <1>1, UntouchedGoes, Zenon DEF Untouched, At, procVars
<1>5. PICK s \in HandlerStates :
         /\ Become(h, s) /\ Confirmed(s)'
         /\ s.pc \in Holding => s.nonce = i /\ taken \in challenges
  <2>1. CASE taken \in challenges /\ Become(h, begun)
    <3>1. begun \in HandlerStates
      BY <1>3, StateTypes, Zenon DEF Plain
    <3>2. Confirmed(begun)
      BY <1>3, Zenon DEF Confirmed
    <3>3. PICK s \in HandlerStates : s = begun
      BY <3>1, Zenon
    <3>4. Confirmed(s) /\ s.nonce = i /\ Become(h, s)
      BY <2>1, <3>2, <3>3, Zenon
    <3> QED BY <1>4, <2>1, <3>4, Zenon
  <2>2. CASE Become(h, Idle)
    <3>1. Confirmed(Idle)' /\ Idle.pc \notin Holding
      BY Zenon DEF Confirmed, Idle, Holding, Plain
    <3> QED BY <2>2, <3>1, StateTypes, Zenon
  <2> QED BY <1>2, <2>1, <2>2, Zenon
<1>6. handler' \in [Handlers -> HandlerStates] /\ handler'[h] = s /\ \A g \in Handlers : g # h => handler'[g] = handler[g]
  BY <1>5, BecomeTypes, Zenon DEF AuthInv
<1>7. IssueTypeOK'
  BY <1>1, <1>4, <1>6, Zenon DEF AuthInv, IssueTypeOK, Goes, Passes
<1>8. HandlersInv'
  BY <1>4, <1>5, OthersStay, Zenon
<1>9. NonceInv'
  <2>1. taken \in challenges => i <= nonceGen /\ batches[i] = 0
    <3>1. taken.nonce = i
      BY Zenon
    <3> HIDE DEF taken
    <3> QED BY <3>1, Zenon DEF AuthInv, NonceInv
  <2>2. taken \in challenges => \A g \in Handlers : handler[g].pc \in Holding => handler[g].nonce # i
    <3>1. taken.nonce = i
      BY Zenon
    <3> HIDE DEF taken
    <3> QED BY <3>1, Zenon DEF AuthInv, NonceInv
  <2> HIDE DEF taken
  <2>3. \A c \in challenges' : c \in challenges /\ c.nonce # i
    BY <1>1, Zenon
  <2>4. ASSUME NEW g \in Handlers, handler'[g].pc \in Holding
        PROVE  /\ handler'[g].nonce <= nonceGen /\ batches[handler'[g].nonce] = 0
               /\ \A c \in challenges' : c.nonce # handler'[g].nonce
               /\ \A f \in Handlers : f # g /\ handler'[f].pc \in Holding => handler'[f].nonce # handler'[g].nonce
    <3>1. CASE g = h
      BY <1>5, <1>6, <2>1, <2>2, <2>3, <2>4, <3>1, Zenon
    <3>2. CASE g # h
      <4>1. handler[g].pc \in Holding /\ handler'[g] = handler[g]
        BY <1>6, <2>4, <3>2, Zenon
      <4>2. \A f \in Handlers : f # g /\ handler'[f].pc \in Holding => handler'[f].nonce # handler'[g].nonce
        BY <1>5, <1>6, <2>2, <4>1, SMTT(30) DEF AuthInv, NonceInv
      <4> QED BY <2>3, <4>1, <4>2, Zenon DEF AuthInv, NonceInv
    <3> QED BY <3>1, <3>2, Zenon
  <2> QED BY <1>1, <2>3, <2>4, Zenon DEF AuthInv, NonceInv
<1>10. tickets' \subseteq Tickets /\ tickets' = tickets
  BY <1>1, ClockTypes, Zenon DEF StoreTypeOK
<1>11. SignedForRecentMember' /\ GrantsInv' /\ CacheInv'
  BY <1>1, <1>4, <1>10, TicketsStay, GrantsStay, CacheStays, Zenon DEF Goes
<1> QED BY <1>7, <1>8, <1>9, <1>11, Zenon DEF AuthInv

\* The batch is signed: its nonce is used up, and its tickets are for a member.
LEMMA SignBatchKeeps ==
  ASSUME AuthInv, SingleUseInv', KeyInv', PublishedInv', UNCHANGED <<coreVars, redeemVars>>,
         NEW h \in Handlers, NEW first \in 1 .. MaxTickets, SignBatch(h, first)
  PROVE  AuthInv'
<1>1. /\ At(h, "signing") /\ Become(h, Idle)
      /\ UNCHANGED <<clockVars, procVars, storeVars, challenges, nonceGen, cache>>
  BY Zenon DEF SignBatch
<1>2. handler[h].pc = "signing" /\ handler[h].pc \in Holding
  BY <1>1, Zenon DEF At, Holding, Plain
<1>3. PICK a \in Accounts, k \in KeyIds, n \in Batch, i \in Nonces :
         a = handler[h].acct /\ k = handler[h].key /\ n = handler[h].n /\ i = handler[h].nonce
  BY <1>2, RequestFacts, Zenon
<1>4. k.epoch \in Hours /\ Seen(a, k.epoch)
  BY <1>2, <1>3, RequestFacts, KeyParts, Zenon DEF Confirmed
<1>5. /\ issued' = [issued EXCEPT ![<<a, k.epoch>>] = issued[<<a, k.epoch>>] + n]
      /\ batches' = [batches EXCEPT ![i] = batches[i] + 1]
      /\ \A t \in tickets' : t \in tickets \/ (t.acct = a /\ t.key = k)
  <2>1. issued' = [issued EXCEPT ![<<a, k.epoch>>] = issued[<<a, k.epoch>>] + n]
    BY <1>3, Zenon DEF SignBatch
  <2>2. batches' = [batches EXCEPT ![i] = batches[i] + 1]
    BY <1>3, Zenon DEF SignBatch
  <2>3. tickets' = tickets \union {[key |-> k, acct |-> a, no |-> j] : j \in first .. first + n - 1}
    BY <1>3, Zenon DEF SignBatch
  <2>4. \A t \in tickets' : t \in tickets \/ (t.acct = a /\ t.key = k)
    BY <2>3
  <2> QED BY <2>1, <2>2, <2>4, Zenon
<1>6. Goes /\ up /\ up' = up
  <2>1. UNCHANGED <<wall, mono, policy, pin, published, memberOf, lastIn, up>> /\ up
    BY <1>1, ZenonT(30) DEF clockVars, procVars, storeVars, coreVars, At
  <2> QED BY <2>1, ClockTypes, SMTT(30) DEF Goes, Passes
<1>7. handler' \in [Handlers -> HandlerStates] /\ handler'[h] = Idle /\ \A g \in Handlers : g # h => handler'[g] = handler[g]
  BY <1>1, StateTypes, BecomeTypes, ZenonT(30) DEF AuthInv
<1>8. batches \in [Nonces -> Nat] /\ issued \in [Accounts \X Hours -> Nat] /\ n \in Nat
  BY IssuanceAssumption DEF AuthInv, IssueTypeOK, Batch
<1>9. batches' \in [Nonces -> Nat] /\ batches'[i] = batches[i] + 1 /\ \A j \in Nonces : j # i => batches'[j] = batches[j]
  BY <1>5, <1>8, SMTT(30)
<1>10. issued' \in [Accounts \X Hours -> Nat]
  BY <1>4, <1>5, <1>8, SMTT(30)
<1>11. IssueTypeOK'
  BY <1>1, <1>6, <1>7, <1>9, <1>10, Zenon DEF AuthInv, IssueTypeOK, Goes, Passes
<1>12. HandlersInv'
  <2>1. PICK s \in HandlerStates : Follows(h, s) /\ Confirmed(s)'
    BY <1>1, IdleMoves, Zenon
  <2> QED BY <1>6, <2>1, OthersStay, Zenon DEF Follows
<1>13. NonceInv'
  <2>1. (\A c \in challenges : c.nonce # i)
        /\ \A g \in Handlers : g # h /\ handler[g].pc \in Holding => handler[g].nonce # i
    BY <1>2, <1>3, Zenon DEF AuthInv, NonceInv
  <2>2. i <= nonceGen /\ batches[i] = 0
    BY <1>2, <1>3, Zenon DEF AuthInv, NonceInv
  <2>3. ASSUME NEW c \in challenges PROVE c.nonce \in Nonces /\ c.nonce <= nonceGen /\ batches'[c.nonce] = 0
    <3>1. c.nonce \in Nonces
      BY Zenon  DEF AuthInv, IssueTypeOK
    <3>2. c.nonce <= nonceGen /\ batches[c.nonce] = 0
      BY Zenon DEF AuthInv, NonceInv
    <3> QED BY <1>9, <2>1, <3>1, <3>2, Zenon
  <2>4. \A g \in Handlers : handler'[g].pc \in Holding => g # h /\ handler[g].pc \in Holding /\ handler'[g] = handler[g]
    BY <1>7, SMTT(30) DEF Idle, Holding, Plain
  <2>5. ASSUME NEW g \in Handlers, handler'[g].pc \in Holding PROVE batches'[handler[g].nonce] = 0
    <3>1. g # h /\ handler[g].pc \in Holding
      BY <2>4, <2>5, Zenon
    <3>2. handler[g].nonce \in Nonces /\ handler[g].nonce # i
      BY <2>1, <3>1, RequestFacts, Zenon
    <3>3. batches[handler[g].nonce] = 0
      BY <3>1, Zenon DEF AuthInv, NonceInv
    <3> QED BY <1>9, <3>2, <3>3, Zenon
  <2>6. \A j \in Nonces : (j > nonceGen => batches'[j] = 0) /\ batches'[j] <= 1
    <3>1. nonceGen \in Int /\ i \in Int
      BY IssuanceAssumption DEF AuthInv, IssueTypeOK, Nonces
    <3>2. ~(i > nonceGen)
      BY <2>2, <3>1, SMTT(30)
    <3>3. \A j \in Nonces : (j > nonceGen => batches[j] = 0) /\ batches[j] <= 1
      BY Zenon DEF AuthInv, NonceInv
    <3>4. batches'[i] = 1
      BY <1>9, <2>2, SMTT(30)
    <3> QED BY <1>9, <3>2, <3>3, <3>4, SMTT(30)
  <2>7. ASSUME NEW g \in Handlers, handler'[g].pc \in Holding
        PROVE  /\ handler'[g].nonce <= nonceGen /\ batches'[handler'[g].nonce] = 0
               /\ \A c \in challenges : c.nonce # handler'[g].nonce
               /\ \A f \in Handlers : f # g /\ handler'[f].pc \in Holding => handler'[f].nonce # handler'[g].nonce
    <3>1. handler[g].pc \in Holding /\ handler'[g] = handler[g]
      BY <2>4, <2>7, Zenon
    <3>2. handler[g].nonce <= nonceGen /\ \A c \in challenges : c.nonce # handler[g].nonce
      BY <3>1, Zenon DEF AuthInv, NonceInv
    <3>3. \A f \in Handlers : f # g /\ handler[f].pc \in Holding => handler[f].nonce # handler[g].nonce
      BY <3>1, Zenon DEF AuthInv, NonceInv
    <3>4. \A f \in Handlers : f # g /\ handler'[f].pc \in Holding => handler'[f].nonce # handler[g].nonce
      BY <2>4, <3>3, Zenon
    <3> QED BY <2>5, <2>7, <3>1, <3>2, <3>4, Zenon
  <2> QED BY <1>1, <2>3, <2>6, <2>7, ZenonT(30) DEF NonceInv
<1>14. tickets' \subseteq Tickets /\ tickets \subseteq tickets' /\ \A t \in tickets' : t \in tickets \/ Seen(t.acct, t.key.epoch)
  <2>1. tickets' \subseteq Tickets
    BY Zenon  DEF KeyInv, RedemptionTypeOK, StoreTypeOK
  <2>2. tickets \subseteq tickets'
    BY Zenon DEF SignBatch
  <2> QED BY <1>4, <1>5, <2>1, <2>2, Zenon
<1>15. SignedForRecentMember' /\ GrantsInv' /\ CacheInv'
  BY <1>1, <1>6, <1>14, TicketsStay, GrantsStay, CacheStays, Zenon DEF Goes
<1> QED BY <1>11, <1>12, <1>13, <1>15, Zenon DEF AuthInv

\* Every step of issuance.
LEMMA IssueStepKeeps ==
  ASSUME AuthInv, SingleUseInv', KeyInv', PublishedInv', UNCHANGED <<coreVars, redeemVars>>, IssueStep
  PROVE  AuthInv'
<1>1. PICK h \in Handlers :
         \/ Enter(h) \/ Describe(h) \/ AnswerOrRefuse(h)
         \/ \E n \in Batch, old \in SUBSET challenges : Challenge(h, n, old)
         \/ \E i \in Nonces, a \in Accounts, n \in Batch : TakeChallenge(h, i, a, n)
         \/ CacheHit(h) \/ StartQuery(h) \/ LookupFails(h)
         \/ \E member \in BOOLEAN : CoreAnswers(h, member)
         \/ Charge(h) \/ FetchKey(h)
         \/ \E first \in 1 .. MaxTickets : SignBatch(h, first)
  BY Zenon DEF IssueStep
<1>2. cache \subseteq [acct: Accounts, member: BOOLEAN, checked: Hours, at: Hours]
  BY Zenon DEF AuthInv, IssueTypeOK
<1>3. CASE Enter(h) \/ AnswerOrRefuse(h) \/ CacheHit(h) \/ StartQuery(h) \/ LookupFails(h)
  <2>1. \E s \in HandlerStates : Follows(h, s) /\ Confirmed(s)
    BY <1>3, EnterMoves, IdleMoves, CacheHitMoves, StartQueryMoves, Zenon DEF AnswerOrRefuse, LookupFails
  <2>2. /\ Untouched /\ up /\ up' = up /\ UNCHANGED <<challenges, nonceGen, issued, batches, tickets, cache>>
    BY <1>3, Zenon DEF Untouched, Enter, AnswerOrRefuse, CacheHit, StartQuery, LookupFails, At, procVars
  <2>3. PICK s \in HandlerStates : Follows(h, s) /\ Confirmed(s)' /\ Goes
    BY <2>1, <2>2, UntouchedGoes, Zenon
  <2>4. CacheInv'
    BY <2>2, <2>3, CacheStays, Zenon DEF Goes
  <2> QED BY <1>2, <2>2, <2>3, <2>4, MoveKeeps, Zenon
<1>4. ASSUME NEW member \in BOOLEAN, CoreAnswers(h, member) PROVE AuthInv'
  <2>1. Untouched /\ up /\ up' = up /\ UNCHANGED <<challenges, nonceGen, issued, batches, tickets>>
    BY <1>4, Zenon DEF Untouched, CoreAnswers, At, procVars
  <2>2. PICK s \in HandlerStates : Follows(h, s) /\ Confirmed(s)' /\ Goes
    BY <1>4, <2>1, UntouchedGoes, CoreAnswersMoves, Zenon
  <2>3. cache' \subseteq [acct: Accounts, member: BOOLEAN, checked: Hours, at: Hours]
    BY <1>4, CoreAnswersMoves, Zenon
  <2>4. \A c \in cache' : /\ c.at <= mono /\ c.checked - c.at <= wall - mono
                          /\ c.member = TRUE => memberOf[c.acct] \/ lastIn[c.acct] >= c.at
    BY <1>4, CoreAnswersMoves, ZenonT(30) DEF AuthInv, CacheInv
  <2>5. CacheInv'
    BY <2>1, <2>4, Zenon DEF CacheInv, Untouched, clockVars, coreVars
  <2> QED BY <2>1, <2>2, <2>3, <2>5, MoveKeeps, Zenon
<1>5. CASE Describe(h) \/ Charge(h) \/ FetchKey(h)
  <2>1. up /\ up' = up /\ UNCHANGED <<challenges, nonceGen, issued, batches, tickets, cache>>
    BY <1>5, Zenon DEF Describe, Charge, FetchKey, At, procVars
  <2>2. PICK s \in HandlerStates : Follows(h, s) /\ Confirmed(s)' /\ Goes
    BY <1>5, DescribeMoves, ChargeMoves, FetchKeyMoves, Zenon
  <2>3. CacheInv'
    BY <2>1, <2>2, CacheStays, Zenon DEF Goes
  <2> QED BY <1>2, <2>1, <2>2, <2>3, MoveKeeps, Zenon
<1> QED BY <1>1, <1>3, <1>4, <1>5, ChallengeKeeps, TakeChallengeKeeps, SignBatchKeeps, Zenon

--------------------------------------------------------------------------------
(* The other steps keep the invariant. *)

\* What leaves issuance alone, in one process, need only keep the authorizations.
LEMMA ElsewhereKeeps ==
  ASSUME AuthInv, Goes, SingleUseInv', KeyInv', PublishedInv', GrantsInv', UNCHANGED <<issueVars, tickets, up>>
  PROVE  AuthInv'
<1>1. UNCHANGED <<handler, challenges, nonceGen, cache, issued, batches, tickets, up, memberOf, lastIn>>
  BY Zenon  DEF issueVars, Goes, Passes
<1>2. IssueTypeOK' /\ NonceInv'
  BY <1>1, Zenon DEF AuthInv, IssueTypeOK, NonceInv
<1>3. HandlersInv' /\ CacheInv'
  BY <1>1, AllStay, CacheStays, Zenon DEF Goes
<1>4. tickets' \subseteq Tickets
  BY <1>1, ClockTypes, Zenon DEF StoreTypeOK
<1>5. SignedForRecentMember'
  BY <1>1, <1>4, TicketsStay, Zenon DEF Goes
<1> QED BY <1>2, <1>3, <1>5, Zenon DEF AuthInv

\* An authorization is given for what is left of a ticket whose account was seen in its hour.
LEMMA GrantIsBounded ==
  ASSUME AuthInv, NEW r \in Requests, RedeemGrant(r)
  PROVE  /\ deadline'[r] <= mono + Lifetime
         /\ memberOf[rticket[r].acct] \/ lastIn[rticket[r].acct] + Lifetime >= deadline'[r]
<1>1. rpc[r] = "spent" /\ deadline' = [deadline EXCEPT ![r] = mono + Remaining(r)] /\ deadline \in [Requests -> Int]
  BY Zenon  DEF RedeemGrant, AuthInv, SingleUseInv, RedemptionTypeOK, RedeemTypeOK
<1>2. rticket[r] \in tickets /\ rticket[r] \in Tickets
  BY <1>1, ClockTypes, Zenon DEF AuthInv, GrantsInv, StoreTypeOK
<1>3. PICK t \in tickets : t = rticket[r]
  BY <1>2, Zenon
<1>4. t.key \in published /\ t.key.epoch \in Int /\ t.acct \in Accounts /\ t.key.epoch <= wall
  BY <1>2, <1>3, TicketParts, SMTT(30) DEF Tickets, Hours, AuthInv, KeyInv, PublishedInv
<1>5. memberOf[t.acct] \/ lastIn[t.acct] >= t.key.epoch - (wall - mono)
  BY Zenon  DEF AuthInv, SignedForRecentMember
<1>6. lastIn[t.acct] \in Int /\ Lifetime \in Int
  BY <1>4, StoreAssumption, SMTT(30) DEF AuthInv, IssueTypeOK
<1>7. PICK e \in Int, w \in Int, m \in Int, l \in Int : e = t.key.epoch /\ w = wall /\ m = mono /\ l = lastIn[t.acct]
  BY <1>4, <1>6, ClockTypes, Zenon
<1>8. deadline'[r] = m + (e + Lifetime - w)
  BY <1>1, <1>3, <1>7, Zenon DEF Remaining, EpochOf
<1>9. e <= w /\ (memberOf[t.acct] \/ l >= e - (w - m))
  BY <1>4, <1>5, <1>7, Zenon
<1>10. m + (e + Lifetime - w) <= m + Lifetime
  BY <1>6, <1>9, SMTT(30)
<1>11. memberOf[t.acct] \/ l + Lifetime >= m + (e + Lifetime - w)
  BY <1>6, <1>9
<1> QED BY <1>3, <1>7, <1>8, <1>10, <1>11, Zenon

\* Redemption.
LEMMA RedeemStepKeeps ==
  ASSUME AuthInv, SingleUseInv', KeyInv', PublishedInv', published \subseteq published', UNCHANGED <<issueVars, coreVars>>, RedeemStep
  PROVE  AuthInv'
<1>1. PICK r \in Requests :
        (\E t \in tickets : RedeemDescribe(r, t)) \/ RedeemVerify(r) \/ RedeemSpend(r) \/ RedeemGrant(r)
  BY Zenon  DEF RedeemStep
<1>2. UNCHANGED <<wall, mono, up, policy, pin, tickets, memberOf, lastIn>>
  BY <1>1, Zenon DEF RedeemDescribe, RedeemVerify, RedeemSpend, RedeemGrant, clockVars, procVars, coreVars
<1>3. Goes
  BY <1>2, ClockTypes, SMTT(30) DEF Goes, Passes
<1>4. rpc \in [Requests -> {"idle", "described", "verified", "spent", "granted"}] /\ rticket \in [Requests -> Tickets \union {NoTicket}]
      /\ deadline \in [Requests -> Int]
  BY Zenon DEF AuthInv, SingleUseInv, RedemptionTypeOK, RedeemTypeOK
<1>5. GrantsInv'
  <2>1. ASSUME NEW t \in tickets, RedeemDescribe(r, t) PROVE GrantsInv'
    <3>1. /\ rpc' = [rpc EXCEPT ![r] = "described"] /\ rticket' = [rticket EXCEPT ![r] = t] /\ deadline' = deadline
          /\ rpc[r] = "idle"
      BY <2>1, Zenon DEF RedeemDescribe
    <3>2. \A q \in Requests : q # r => rpc'[q] = rpc[q] /\ rticket'[q] = rticket[q]
      BY <1>4, <3>1, Zenon
    <3>3. rpc'[r] = "described" /\ rticket'[r] = t
      BY <1>4, <3>1, Zenon
    <3>4. GrantsInv
      BY Zenon  DEF AuthInv
    <3>5. ASSUME NEW q \in Requests, rpc'[q] # "idle" PROVE rticket'[q] \in tickets'
      BY <1>2, <3>2, <3>3, <3>4, <3>5, Zenon DEF GrantsInv
    <3>6. ASSUME NEW q \in Requests, rpc'[q] = "granted"
          PROVE  rpc[q] = "granted" /\ rticket'[q] = rticket[q]
      BY <3>2, <3>3, <3>6, Zenon
    <3> QED BY <1>2, <3>1, <3>4, <3>5, <3>6, ZenonT(30) DEF GrantsInv, Granted
  <2>2. CASE RedeemVerify(r) \/ RedeemSpend(r)
    <3>1. deadline' = deadline /\ rpc[r] \in {"described", "verified"}
          /\ \/ rpc' = [rpc EXCEPT ![r] = "idle"] /\ rticket' = [rticket EXCEPT ![r] = NoTicket]
             \/ rpc' = [rpc EXCEPT ![r] = "verified"] /\ rticket' = rticket
             \/ rpc' = [rpc EXCEPT ![r] = "spent"] /\ rticket' = rticket
      BY <2>2, Zenon DEF RedeemVerify, RedeemSpend, Reject, Advance
    <3>2. \A q \in Requests : q # r => rpc'[q] = rpc[q] /\ rticket'[q] = rticket[q]
      BY <1>4, <3>1, Zenon
    <3>3. rpc'[r] # "granted" /\ (rpc'[r] # "idle" => rticket'[r] = rticket[r] /\ rpc[r] # "idle")
      BY <1>4, <3>1, Zenon
    <3> QED BY <1>2, <3>1, <3>2, <3>3, ZenonT(30) DEF AuthInv, GrantsInv, Granted
  <2>3. CASE RedeemGrant(r)
    <3>1. /\ rpc' = [rpc EXCEPT ![r] = "granted"] /\ rticket' = rticket /\ rpc[r] = "spent"
          /\ deadline' = [deadline EXCEPT ![r] = mono + Remaining(r)]
      BY <2>3, Zenon DEF RedeemGrant
    <3>2. \A q \in Requests : q # r => rpc'[q] = rpc[q] /\ deadline'[q] = deadline[q]
      BY <1>4, <3>1, Zenon
    <3>3. rpc'[r] = "granted"
      BY <1>4, <3>1, Zenon
    <3>4. /\ deadline'[r] <= mono + Lifetime
          /\ memberOf[rticket[r].acct] \/ lastIn[rticket[r].acct] + Lifetime >= deadline'[r]
      BY <2>3, GrantIsBounded, Zenon
    <3> QED BY <1>2, <3>1, <3>2, <3>3, <3>4, Zenon DEF AuthInv, GrantsInv, Granted
  <2> QED BY <1>1, <2>1, <2>2, <2>3, Zenon
<1> QED BY <1>2, <1>3, <1>5, ElsewhereKeeps, Zenon

\* An account that leaves was seen now.
LEMMA SeenAfterChange ==
  ASSUME AuthInv, MembershipChanges, NEW a \in Accounts, NEW x \in Int, x <= mono, memberOf[a] \/ lastIn[a] >= x
  PROVE  memberOf'[a] \/ lastIn'[a] >= x
<1>1. PICK b \in Accounts : /\ memberOf' = [memberOf EXCEPT ![b] = ~memberOf[b]]
                            /\ lastIn' = IF memberOf[b] THEN [lastIn EXCEPT ![b] = mono] ELSE lastIn
  BY Zenon DEF MembershipChanges
<1>2. memberOf \in [Accounts -> BOOLEAN] /\ lastIn \in [Accounts -> Int] /\ mono \in Int
  BY ClockTypes, Zenon DEF AuthInv, IssueTypeOK
<1>3. CASE a # b
  <2>1. memberOf'[a] = memberOf[a] /\ lastIn'[a] = lastIn[a]
    BY <1>1, <1>2, <1>3, Zenon
  <2> QED BY <2>1, Zenon
<1>4. CASE a = b /\ memberOf[b] = TRUE
  <2>1. lastIn'[a] = mono
    BY <1>1, <1>2, <1>4, Zenon
  <2>2. mono >= x
    BY <1>2, Zenon
  <2> QED BY <2>1, <2>2, Zenon
<1>5. CASE a = b /\ memberOf[b] = FALSE
  <2>1. memberOf'[a] = TRUE
    BY <1>1, <1>2, <1>5, Zenon
  <2> QED BY <2>1, Zenon
<1> QED BY <1>2, <1>3, <1>4, <1>5, Zenon

\* Somebody joins or leaves.
LEMMA MembershipKeeps ==
  ASSUME AuthInv, SingleUseInv', KeyInv', PublishedInv', MembershipChanges, UNCHANGED redeemVars
  PROVE  AuthInv'
<1>1. UNCHANGED <<wall, mono, up, policy, pin, published, tickets, handler, challenges, nonceGen, cache, issued, batches>>
  BY Zenon DEF MembershipChanges, clockVars, procVars, storeVars, issueVars
<1>2. memberOf' \in [Accounts -> BOOLEAN] /\ lastIn' \in [Accounts -> Int]
  <2>1. memberOf \in [Accounts -> BOOLEAN] /\ lastIn \in [Accounts -> Int] /\ mono \in Int
    BY ClockTypes, Zenon DEF AuthInv, IssueTypeOK
  <2> QED BY <2>1, Zenon DEF MembershipChanges
<1>3. IssueTypeOK' /\ NonceInv'
  <2>1. IssueTypeOK'
    BY <1>1, <1>2, Zenon DEF AuthInv, IssueTypeOK
  <2>2. NonceInv'
    BY <1>1, Zenon DEF AuthInv, NonceInv
  <2> QED BY <2>1, <2>2, Zenon
<1>4. ASSUME NEW a \in Accounts, NEW e \in Int, e <= wall, Seen(a, e) PROVE Seen(a, e)'
  <2>1. PICK w \in Int, m \in Int : w = wall /\ m = mono
    BY ClockTypes, Zenon
  <2>2. PICK x \in Int : x = e - (w - m)
    OBVIOUS
  <2>3. x <= m
    BY <1>4, <2>1, <2>2, SMTT(30)
  <2>4. memberOf[a] \/ lastIn[a] >= x
    BY <1>4, <2>1, <2>2, Zenon DEF Seen
  <2>5. memberOf'[a] \/ lastIn'[a] >= x
    BY <2>1, <2>3, <2>4, SeenAfterChange, Zenon
  <2> QED BY <1>1, <2>1, <2>2, <2>5, Zenon DEF Seen
<1>5. HandlersInv'
  <2>1. ASSUME NEW g \in Handlers PROVE Confirmed(handler[g])'
    <3>1. PICK s \in HandlerStates : s = handler[g] /\ Confirmed(s)
      BY RequestFacts, Zenon
    <3>2. ASSUME s.pc \in {"admitted", "charged", "signing"} PROVE Seen(s.acct, s.key.epoch)'
      <4>1. s.key \in published /\ s.key.epoch \in Hours /\ s.acct \in Accounts
        BY <3>1, <3>2, RequestFacts, Zenon DEF Holding, Plain
      <4>2. s.key.epoch \in Int /\ s.key.epoch <= wall
        BY <4>1, SMTT(30) DEF Hours, AuthInv, PublishedInv
      <4> QED BY <1>4, <3>1, <3>2, <4>1, <4>2, Zenon DEF Confirmed
    <3>3. Confirmed(s)'
      BY <1>1, <3>1, <3>2, Zenon DEF Confirmed
    <3> QED BY <1>1, <3>1, <3>3, Zenon
  <2> QED BY <1>1, <2>1, Zenon DEF AuthInv, HandlersInv
<1>6. CacheInv'
  <2>1. ASSUME NEW c \in cache PROVE c.member = TRUE => memberOf'[c.acct] \/ lastIn'[c.acct] >= c.at
    <3>1. c.at \in Int /\ c.acct \in Accounts /\ c.at <= mono
      BY DEF AuthInv, IssueTypeOK, CacheInv, Hours
    <3> QED BY <3>1, SeenAfterChange, ZenonT(30) DEF AuthInv, CacheInv
  <2> QED BY <1>1, <2>1, Zenon DEF AuthInv, CacheInv
<1>7. SignedForRecentMember'
  <2>1. ASSUME NEW t \in tickets PROVE Seen(t.acct, t.key.epoch)'
    <3>1. t \in Tickets
      BY ClockTypes, Zenon DEF StoreTypeOK
    <3>2. t.acct \in Accounts /\ t.key.epoch \in Int /\ t.key \in published
      BY <3>1, TicketParts, SMTT(30) DEF Tickets, Hours, AuthInv, KeyInv
    <3>3. t.key.epoch <= wall /\ Seen(t.acct, t.key.epoch)
      BY <3>2, Zenon DEF AuthInv, PublishedInv, SignedForRecentMember, Seen
    <3> QED BY <1>4, <3>2, <3>3, Zenon
  <2> QED BY <1>1, <2>1, Zenon DEF SignedForRecentMember, Seen
<1>8. GrantsInv'
  <2>1. ASSUME NEW r \in Requests, Granted(r)
        PROVE  memberOf'[rticket[r].acct] \/ lastIn'[rticket[r].acct] + Lifetime >= deadline[r]
    <3>1. rticket[r] \in Tickets /\ deadline[r] \in Int
      BY <2>1, ClockTypes, ZenonT(30) DEF Granted, AuthInv, GrantsInv, StoreTypeOK, SingleUseInv, RedemptionTypeOK, RedeemTypeOK
    <3>2. PICK a \in Accounts : a = rticket[r].acct
      BY <3>1, Zenon DEF Tickets
    <3>3. PICK d \in Int, m \in Int, l \in Int, n \in Int : d = deadline[r] /\ m = mono /\ l = lastIn[a] /\ n = lastIn'[a]
      BY <1>2, <3>1, ClockTypes, ZenonT(30) DEF AuthInv, IssueTypeOK
    <3>4. d <= m + Lifetime /\ (memberOf[a] \/ l + Lifetime >= d)
      BY <2>1, <3>2, <3>3, Zenon DEF AuthInv, GrantsInv
    <3>5. PICK x \in Int : x = d - Lifetime
      BY StoreAssumption
    <3>6. x <= m /\ (memberOf[a] \/ l >= x)
      BY <3>4, <3>5, StoreAssumption, SMTT(30)
    <3>7. memberOf'[a] \/ n >= x
      BY <3>3, <3>6, SeenAfterChange, Zenon
    <3>8. memberOf'[a] \/ n + Lifetime >= d
      BY <3>5, <3>7, StoreAssumption, SMTT(30)
    <3> QED BY <3>2, <3>3, <3>8, Zenon
  <2> QED BY <1>1, <2>1, ZenonT(30) DEF AuthInv, GrantsInv, Granted, redeemVars
<1> QED BY <1>3, <1>5, <1>6, <1>7, <1>8, Zenon DEF AuthInv

\* A crash forgets the requests, and no authorization that was returned.
LEMMA CrashKeeps ==
  ASSUME AuthInv, SingleUseInv', KeyInv', PublishedInv', StoreCrash, IssueCrash, RedeemCrash, UNCHANGED coreVars
  PROVE  AuthInv'
<1>1. /\ up' = FALSE /\ UNCHANGED <<wall, mono, policy, pin, published, tickets, memberOf, lastIn, nonceGen, issued, batches, deadline>>
      /\ handler' = [h \in Handlers |-> Idle] /\ challenges' = {} /\ cache' = {}
  BY Zenon DEF StoreCrash, IssueCrash, RedeemCrash, clockVars, coreVars
<1>2. \A h \in Handlers : handler'[h] = Idle
  BY <1>1, Zenon
<1>3. IssueTypeOK'
  BY <1>1, StateTypes, Zenon DEF AuthInv, IssueTypeOK
<1>4. HandlersInv' /\ CacheInv' /\ NonceInv'
  <2>1. HandlersInv'
    BY <1>2, IdleClaims, Zenon DEF HandlersInv
  <2>2. CacheInv'
    BY <1>1, Zenon DEF CacheInv
  <2>3. \A h \in Handlers : handler'[h].pc \notin Holding
    BY <1>2, IdleClaims, Zenon
  <2>4. NonceInv'
    BY <1>1, <2>3, Zenon DEF AuthInv, NonceInv
  <2> QED BY <2>1, <2>2, <2>4, Zenon
<1>5. SignedForRecentMember'
  BY <1>1, Zenon DEF AuthInv, SignedForRecentMember
<1>6. \A r \in Requests : rpc'[r] # "idle" => rpc'[r] = "granted" /\ rpc[r] = "granted" /\ rticket'[r] = rticket[r]
  BY Zenon  DEF RedeemCrash
<1>7. GrantsInv'
  BY <1>1, <1>6, Zenon DEF AuthInv, GrantsInv, Granted
<1> QED BY <1>3, <1>4, <1>5, <1>7, Zenon DEF AuthInv

\* A start finds no request in progress, whatever configuration it comes with.
LEMMA StartKeeps ==
  ASSUME AuthInv, SingleUseInv', KeyInv', PublishedInv', published \subseteq published', Start,
         UNCHANGED <<issueVars, coreVars, redeemVars>>
  PROVE  AuthInv'
<1>1. /\ up = FALSE /\ UNCHANGED <<wall, mono, tickets, memberOf, lastIn>>
      /\ UNCHANGED <<handler, challenges, nonceGen, cache, issued, batches>>
  BY DEF Start, StoreStart, clockVars, coreVars, issueVars
<1>2. \A h \in Handlers : handler'[h] = Idle
  BY <1>1, Zenon DEF AuthInv, HandlersInv
<1>3. Passes
  BY <1>1, ClockTypes, SMTT(30) DEF Passes
<1>4. HandlersInv'
  <2>1. up' # FALSE \/ \A h \in Handlers : handler'[h] = Idle
    BY <1>2, ZenonT(30)
  <2> QED BY <1>2, <2>1, IdleClaims, Zenon DEF HandlersInv
<1>5. CacheInv' /\ GrantsInv'
  BY <1>1, <1>3, CacheStays, GrantsStay, Zenon
<1>6. tickets' \subseteq Tickets
  BY <1>1, ClockTypes, Zenon DEF StoreTypeOK
<1>7. SignedForRecentMember'
  BY <1>1, <1>3, <1>6, TicketsStay, Zenon
<1>8. IssueTypeOK' /\ NonceInv'
  BY <1>1, Zenon DEF AuthInv, IssueTypeOK, NonceInv
<1> QED BY <1>4, <1>5, <1>7, <1>8, Zenon DEF AuthInv

\* A start that fails, a redemption that is refused, and the clock.
LEMMA OutsideKeeps ==
  ASSUME AuthInv, SingleUseInv', KeyInv', PublishedInv', published \subseteq published',
         UNCHANGED <<issueVars, coreVars, redeemVars>>,
         StoreStartFails \/ RefusedRedemption \/ AuthorityClock \/ UNCHANGED authorityVars
  PROVE  AuthInv'
<1>1. UNCHANGED <<up, policy, pin, tickets>> /\ (UNCHANGED <<wall, mono>> \/ Tick \/ ClockJump)
  BY Zenon DEF StoreStartFails, RefusedRedemption, DescriptorCall, AuthorityClock, authorityVars, clockVars, procVars
<1>2. PICK w \in Int, m \in Int : w = wall /\ m = mono
  BY ClockTypes, Zenon
<1>3. PICK v \in Int, n \in Int : v = wall' /\ n = mono'
  BY <1>1, <1>2 DEF Tick, ClockJump
<1>4. m <= n /\ w - m <= v - n
  <2>1. (v = w /\ n = m) \/ (v = w + 1 /\ n = m + 1) \/ (v = w + 1 /\ n = m)
    BY <1>1, <1>2, <1>3, Zenon DEF Tick, ClockJump
  <2>2. m <= n
    BY <2>1
  <2>3. w - m <= v - n
    BY <2>1
  <2> QED BY <2>2, <2>3, Zenon
<1>5. Goes
  BY <1>1, <1>2, <1>3, <1>4, ZenonT(30) DEF Goes, Passes, coreVars
<1>6. GrantsInv'
  BY <1>1, <1>5, GrantsStay, Zenon DEF Goes
<1> QED BY <1>1, <1>5, <1>6, ElsewhereKeeps, Zenon

\* Every step.
LEMMA AuthStep == ASSUME AuthInv, [AuthorityNext]_authorityVars PROVE AuthInv'
<1>1. [RedemptionNext]_redemptionVars
  BY StepImplements, Zenon
<1>2. SingleUseInv'
  BY <1>1, SingleUseStep, Zenon DEF AuthInv
<1>3. KeyInv'
  BY <1>1, ForwardIsAny, KeyStep, Zenon DEF AuthInv
<1>4. PublishedInv' /\ published \subseteq published'
  BY <1>1, PublishedInTime, Zenon
<1>5. CASE IssueStep /\ UNCHANGED <<coreVars, redeemVars>>
  BY <1>2, <1>3, <1>4, <1>5, IssueStepKeeps, Zenon
<1>6. CASE RedeemStep /\ UNCHANGED <<issueVars, coreVars>>
  BY <1>2, <1>3, <1>4, <1>6, RedeemStepKeeps, Zenon
<1>7. CASE MembershipChanges /\ UNCHANGED redeemVars
  BY <1>2, <1>3, <1>4, <1>7, MembershipKeeps, Zenon
<1>8. CASE StoreCrash /\ IssueCrash /\ RedeemCrash /\ UNCHANGED coreVars
  BY <1>2, <1>3, <1>4, <1>8, CrashKeeps, Zenon
<1>9. CASE Start /\ UNCHANGED <<issueVars, coreVars, redeemVars>>
  BY <1>2, <1>3, <1>4, <1>9, StartKeeps, Zenon
<1>10. CASE (StoreStartFails \/ RefusedRedemption) /\ UNCHANGED <<issueVars, coreVars, redeemVars>>
  BY <1>2, <1>3, <1>4, <1>10, OutsideKeeps, Zenon
<1>11. CASE AuthorityClock \/ UNCHANGED authorityVars
  <2>1. UNCHANGED <<issueVars, coreVars, redeemVars>>
    BY <1>11, Zenon DEF AuthorityClock, authorityVars
  <2> QED BY <1>2, <1>3, <1>4, <1>11, <2>1, OutsideKeeps, Zenon
<1> QED BY <1>5, <1>6, <1>7, <1>8, <1>9, <1>10, <1>11, Zenon DEF AuthorityNext, AuthorityStep

\* The first states.
LEMMA AuthInit == AuthorityInit => AuthInv
<1> SUFFICES ASSUME AuthorityInit PROVE AuthInv
  BY Zenon
<1>1. RedemptionInit
  BY Zenon DEF AuthorityInit, RedemptionInit
<1>2. SingleUseInv /\ KeyInv
  BY <1>1, SingleUseInit, KeyInit, Zenon
<1>3. IssueTypeOK
  <2>1. handler \in [Handlers -> HandlerStates]
    BY StateTypes, Zenon DEF AuthorityInit, IssueInit
  <2>2. challenges = {} /\ cache = {} /\ memberOf \in [Accounts -> BOOLEAN] /\ nonceGen \in 0 .. MaxNonces
    BY IssuanceAssumption DEF AuthorityInit, IssueInit
  <2>3. lastIn \in [Accounts -> Int]
    BY StoreAssumption DEF AuthorityInit, IssueInit
  <2>4. issued \in [Accounts \X Hours -> Nat] /\ batches \in [Nonces -> Nat]
    BY Zenon DEF AuthorityInit, IssueInit
  <2> QED BY <2>1, <2>2, <2>3, <2>4, Zenon DEF IssueTypeOK
<1>4. \A h \in Handlers : handler[h] = Idle
  BY Zenon DEF AuthorityInit, IssueInit
<1>5. HandlersInv
  BY <1>4, IdleClaims, Zenon DEF HandlersInv
<1>6. CacheInv /\ PublishedInv /\ SignedForRecentMember
  BY Zenon  DEF AuthorityInit, IssueInit, StoreInit, CacheInv, PublishedInv, SignedForRecentMember
<1>7. GrantsInv
  BY Zenon DEF AuthorityInit, RedeemInit, GrantsInv, Granted
<1>8. \A i \in Nonces : batches[i] = 0
  BY Zenon  DEF AuthorityInit, IssueInit
<1>9. NonceInv
  <2>1. challenges = {} /\ \A h \in Handlers : handler[h].pc \notin Holding
    BY <1>4, IdleClaims, Zenon DEF AuthorityInit, IssueInit
  <2> QED BY <1>8, <2>1, SMTT(30) DEF NonceInv
<1> QED BY <1>2, <1>3, <1>5, <1>6, <1>7, <1>9, Zenon DEF AuthInv

--------------------------------------------------------------------------------
(* The theorems. *)

\* The invariant of the whole authority.
THEOREM AuthorityInvariant == AuthoritySpec => []AuthInv
  BY AuthInit, AuthStep, PTL DEF AuthoritySpec

\* Every variable of the authority keeps its type, through crashes and restarts.
THEOREM AuthorityTypes == AuthoritySpec => []AuthorityTypeOK
<1>1. AuthInv => AuthorityTypeOK
  BY Zenon DEF AuthInv, SingleUseInv, RedemptionTypeOK, AuthorityTypeOK
<1> QED BY <1>1, AuthorityInvariant, PTL

\* Leaving every allowed group takes effect within Lifetime hours, for any number of
\* accounts, requests and handlers, any lifetime and any quota (handle and redeem).
THEOREM RevocationIsBounded == AuthoritySpec => []RevocationBound
<1>1. ASSUME AuthInv PROVE RevocationBound
  <2> SUFFICES ASSUME NEW r \in Requests, LiveGrant(r)
               PROVE  memberOf[rticket[r].acct] \/ mono < lastIn[rticket[r].acct] + Lifetime
    BY Zenon  DEF RevocationBound
  <2>1. rticket[r] \in Tickets /\ deadline[r] \in Int
    BY <1>1, ClockTypes, ZenonT(30) DEF LiveGrant, Granted, AuthInv, GrantsInv, StoreTypeOK, SingleUseInv, RedemptionTypeOK, RedeemTypeOK
  <2>2. PICK a \in Accounts : a = rticket[r].acct
    BY <2>1, Zenon DEF Tickets
  <2>3. lastIn[a] \in Int /\ Lifetime \in Int
    BY <1>1, <2>2, StoreAssumption, SMTT(30) DEF AuthInv, IssueTypeOK
  <2>4. PICK d \in Int, m \in Int, l \in Int : d = deadline[r] /\ m = mono /\ l = lastIn[a]
    BY <1>1, <2>1, <2>3, ClockTypes, ZenonT(30)
  <2>5. d > m /\ (memberOf[a] \/ l + Lifetime >= d)
    BY <1>1, <2>2, <2>4, Zenon DEF LiveGrant, AuthInv, GrantsInv
  <2>6. memberOf[a] \/ m < l + Lifetime
    BY <2>3, <2>5
  <2> QED BY <2>2, <2>4, <2>6, Zenon
<1> QED BY <1>1, AuthorityInvariant, PTL

\* Tickets are signed only for accounts whose membership was confirmed in the key's hour
\* or later (handle's two comparisons of `checked` with the epoch).
THEOREM SignedForMembers == AuthoritySpec => []SignedForRecentMember
<1>1. AuthInv => SignedForRecentMember
  BY Zenon DEF AuthInv
<1> QED BY <1>1, AuthorityInvariant, PTL

\* A challenge yields one signed batch, for any number of handlers (handle).
THEOREM ChallengesAreUsedOnce == AuthoritySpec => []ChallengeSingleUse
<1>1. AuthInv => ChallengeSingleUse
  BY Zenon DEF AuthInv, NonceInv, ChallengeSingleUse
<1> QED BY <1>1, AuthorityInvariant, PTL

\* With issuance running beside it, redemption does what it does alone: the whole
\* authority implements the redemption component.
THEOREM AuthorityImplementsRedemption == AuthoritySpec => ImplementsRedemption
<1>1. AuthorityInit => RedemptionInit
  BY Zenon DEF AuthorityInit, RedemptionInit
<1> QED BY <1>1, AuthorityInvariant, StepImplements, PTL DEF AuthoritySpec, ImplementsRedemption, RedemptionSpec

\* A step of redemption, as issuance sees it.
LEMMA RedeemImplements ==
  ASSUME AuthInv, RedeemStep, UNCHANGED <<issueVars, coreVars>>
  PROVE  IssuanceNext \/ UNCHANGED issuanceVars
<1>1. PICK r \in Requests :
        (\E t \in tickets : RedeemDescribe(r, t)) \/ RedeemVerify(r) \/ RedeemSpend(r) \/ RedeemGrant(r)
  BY Zenon DEF RedeemStep
<1>2. ASSUME NEW t \in tickets, RedeemDescribe(r, t) PROVE IssuanceNext
  <2>1. t.key.epoch \in Hours
    BY ClockTypes, TicketParts, Zenon DEF StoreTypeOK
  <2>2. DescriptorCall(t.key.epoch)
    BY <1>2, Zenon DEF RedeemDescribe, DescriptorCall
  <2> QED BY <2>1, <2>2, Zenon DEF IssuanceNext, IssuanceStep
<1>3. CASE RedeemVerify(r) \/ RedeemGrant(r)
  BY <1>3, Zenon DEF RedeemVerify, RedeemGrant, issuanceVars
<1>4. CASE RedeemSpend(r)
  <2>1. rticket[r] \in tickets
    BY <1>4, ZenonT(30) DEF RedeemSpend, AuthInv, GrantsInv
  <2>2. MarkAndPrune(rticket[r]) \/ UNCHANGED issuanceVars
    BY <1>4, Zenon DEF RedeemSpend, MarkSpent, MarkAndPrune, issuanceVars, storeVars, dbVars
  <2> QED BY <2>1, <2>2, Zenon DEF IssuanceNext, IssuanceStep
<1> QED BY <1>1, <1>2, <1>3, <1>4, Zenon

\* Every step of the authority is one of issuance: what redemptions do to the store is call
\* descriptor, mark tickets that were issued, and prune.
LEMMA IssuanceSteps == ASSUME AuthInv, [AuthorityNext]_authorityVars PROVE [IssuanceNext]_issuanceVars
<1>1. CASE IssueStep /\ UNCHANGED <<coreVars, redeemVars>>
  BY <1>1, Zenon DEF IssuanceNext, IssuanceStep
<1>2. CASE RedeemStep /\ UNCHANGED <<issueVars, coreVars>>
  BY <1>2, RedeemImplements, Zenon
<1>3. CASE MembershipChanges \/ (StoreCrash /\ IssueCrash /\ UNCHANGED coreVars)
  BY <1>3, Zenon DEF IssuanceNext, IssuanceStep
<1>4. CASE (Start \/ StoreStartFails \/ RefusedRedemption) /\ UNCHANGED <<issueVars, coreVars, redeemVars>>
  BY <1>4, Zenon DEF IssuanceNext, IssuanceStep, Start, RefusedRedemption
<1>5. CASE AuthorityClock
  BY <1>5, Zenon DEF AuthorityClock, IssuanceNext, IssuanceClock
<1>6. CASE UNCHANGED authorityVars
  BY <1>6, Zenon DEF authorityVars, issuanceVars
<1> QED BY <1>1, <1>2, <1>3, <1>4, <1>5, <1>6, Zenon DEF AuthorityNext, AuthorityStep

\* With redemptions running beside it, issuance does what it does alone (handle, redeem).
THEOREM AuthorityImplementsIssuance == AuthoritySpec => ImplementsIssuance
<1>1. AuthorityInit => IssuanceInit
  BY Zenon DEF AuthorityInit, IssuanceInit
<1>2. AuthInv /\ [AuthorityNext]_authorityVars => [IssuanceNext]_issuanceVars
  BY IssuanceSteps, Zenon
<1> QED BY <1>1, <1>2, AuthorityInvariant, PTL DEF AuthoritySpec, ImplementsIssuance, IssuanceSpec

\* An account never holds more than QuotaMax signatures of an hour: a record may be pruned
\* once its hour has expired because no key of the hour is fetched after that, and what was
\* fetched before was covered by the record (handle's transaction, descriptor's checks).
THEOREM QuotaIsRespected == AuthoritySpec => []QuotaRespected
<1>1. AuthInv => QuotaTypes
  BY ClockTypes, Zenon DEF AuthInv, QuotaTypes, IssueTypeOK, StoreTypeOK
<1>2. AuthorityInit => QuotaInv
  <2> SUFFICES ASSUME AuthorityInit, NEW x \in Accounts \X Hours
               PROVE  /\ issued[x] + Cardinality(Owed(handler, x, {"signing"})) <= QuotaMax
                      /\ issued[x] + Cardinality(Owed(handler, x, Unsigned)) <= quota[x]
    BY Zenon DEF QuotaInv
  <2>1. issued[x] = 0 /\ quota[x] = 0 /\ QuotaMax \in Nat
    BY StoreAssumption, Zenon DEF AuthorityInit, StoreInit, IssueInit
  <2>2. Owed(handler, x, {"signing"}) = {} /\ Owed(handler, x, Unsigned) = {}
    BY Zenon DEF AuthorityInit, IssueInit, Owed, Slots, Idle, Unsigned
  <2> QED BY <2>1, <2>2, FS_EmptySet, SMTT(30)
<1>3. ASSUME AuthInv, AuthInv', QuotaInv, [AuthorityNext]_authorityVars PROVE QuotaInv'
  <2>1. QuotaTypes /\ QuotaTypes'
    BY <1>1, <1>3, PTL
  <2> QED BY <1>3, <2>1, IssuanceSteps, QuotaStep, Zenon
<1>4. ASSUME QuotaInv, AuthInv PROVE QuotaRespected
  <2> SUFFICES ASSUME NEW x \in Accounts \X Hours PROVE issued[x] <= QuotaMax
    BY Zenon DEF QuotaRespected
  <2>1. PICK m \in Nat : m = Cardinality(Owed(handler, x, {"signing"}))
    BY OwedFinite, Zenon
  <2>2. issued[x] + m <= QuotaMax /\ issued[x] \in Nat /\ QuotaMax \in Nat
    BY <1>4, <2>1, StoreAssumption, Zenon DEF QuotaInv, AuthInv, IssueTypeOK
  <2> QED BY <2>2
<1> QED BY <1>2, <1>3, <1>4, AuthorityInvariant, PTL DEF AuthoritySpec

\* Issuance and redemption over one store each do what they do alone (handle, redeem).
THEOREM AuthorityImplementsParts == AuthoritySpec => ImplementsParts
BY AuthorityImplementsRedemption, AuthorityImplementsIssuance, Zenon DEF ImplementsParts

\* A ticket has one live holder in the whole authority (redeem).
THEOREM TicketHasOneHolderThroughout == AuthoritySpec => []NoDoubleLiveGrant
<1>1. AuthInv => NoDoubleLiveGrant
  BY Zenon  DEF AuthInv, SingleUseInv
<1> QED BY <1>1, AuthorityInvariant, PTL

\* A request that has been charged moves only by fetching the key.
LEMMA ChargedFetches ==
  ASSUME AuthInv, IssueStep, NEW h \in Handlers, handler[h].pc = "charged", handler'[h] # handler[h]
  PROVE  FetchKey(h)
<1>1. PICK g \in Handlers :
         \/ Enter(g) \/ Describe(g) \/ AnswerOrRefuse(g)
         \/ \E n \in Batch, old \in SUBSET challenges : Challenge(g, n, old)
         \/ \E i \in Nonces, a \in Accounts, n \in Batch : TakeChallenge(g, i, a, n)
         \/ CacheHit(g) \/ StartQuery(g) \/ LookupFails(g)
         \/ \E member \in BOOLEAN : CoreAnswers(g, member)
         \/ Charge(g) \/ FetchKey(g)
         \/ \E first \in 1 .. MaxTickets : SignBatch(g, first)
  BY ZenonT(30) DEF IssueStep
<1>2. handler[g].pc # "charged" \/ FetchKey(g)
  BY <1>1, ZenonT(30) DEF At, Enter, Describe, AnswerOrRefuse, Challenge, TakeChallenge, CacheHit, StartQuery, LookupFails,
              CoreAnswers, Charge, SignBatch
<1>3. \E s : Become(g, s)
  BY <1>1, Zenon DEF Enter, Describe, AnswerOrRefuse, Challenge, TakeChallenge, CacheHit, StartQuery, LookupFails,
              CoreAnswers, Charge, FetchKey, SignBatch, Judge, MoveTo
<1>4. g # h => handler'[h] = handler[h]
  BY <1>3, ClockTypes, Zenon DEF Become
<1> QED BY <1>2, <1>4, Zenon

\* The key fetched after the charge is the one the descriptor named, however many hours,
\* prunings and other calls of descriptor came between (handle's second call).
THEOREM OneKeyThroughout == AuthoritySpec => SameKeyThroughout
<1> DEFINE Same == \A h \in Handlers :
                     handler[h].pc = "charged" /\ handler'[h].pc = "signing" => handler'[h].key = handler[h].key
<1>1. ASSUME AuthInv, AuthInv', [AuthorityNext]_authorityVars PROVE Same
  <2> SUFFICES ASSUME NEW h \in Handlers, handler[h].pc = "charged", handler'[h].pc = "signing"
               PROVE  handler'[h].key = handler[h].key
    BY Zenon
  <2>1. CASE IssueStep /\ UNCHANGED <<coreVars, redeemVars>>
    <3>1. FetchKey(h)
      BY <1>1, <2>1, ChargedFetches, Zenon
    <3>2. PICK s \in HandlerStates : Follows(h, s) /\ (s.pc = "signing" => s.key = handler[h].key)
      BY <1>1, <2>1, <3>1, FetchKeyMoves, Zenon DEF AuthInv
    <3>3. handler'[h] = s
      BY <1>1, <3>2, BecomeTypes, Zenon DEF Follows, AuthInv
    <3> QED BY <3>2, <3>3, Zenon
  <2>2. CASE IssueCrash
    <3>1. handler'[h] = Idle
      BY <2>2, Zenon DEF IssueCrash
    <3> QED BY <3>1, SMTT(30) DEF Idle
  <2>3. CASE UNCHANGED handler
    BY <2>3, Zenon
  <2>4. (IssueStep /\ UNCHANGED <<coreVars, redeemVars>>) \/ IssueCrash \/ UNCHANGED handler
    BY <1>1, Zenon DEF AuthorityNext, AuthorityStep, AuthorityClock, authorityVars, issueVars, MembershipChanges
  <2> QED BY <2>1, <2>2, <2>3, <2>4, Zenon
<1>2. AuthInv /\ AuthInv' /\ [AuthorityNext]_authorityVars => [Same]_issuanceVars
  BY <1>1, Zenon
<1> QED BY <1>2, AuthorityInvariant, PTL DEF AuthoritySpec, SameKeyThroughout

================================================================================
