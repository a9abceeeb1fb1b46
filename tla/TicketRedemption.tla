--------------------------- MODULE TicketRedemption ---------------------------
(***************************************************************************)
(* Redeeming a ticket on the QUIC connection (tickets.go, redeem).  Several *)
(* redemptions run at once; each reads the clock four times, and the clock, *)
(* the other redemptions, other callers of descriptor and a crash can come  *)
(* between any two of its steps:                                            *)
(*                                                                         *)
(*   idle -> described -> verified -> spent -> granted                      *)
(*                                                                         *)
(* `described` holds the descriptor, `verified` has passed the expiry and   *)
(* signature checks, `spent` has committed the marker, and `granted` has    *)
(* returned (id, until) to authorize.  A granted request keeps its deadline *)
(* for ever: it is the history of what was allowed.                        *)
(***************************************************************************)
EXTENDS TicketStore

CONSTANTS
  Requests,     \* calls of redeem
  SpentCap,     \* live spent markers (100000 in the code)
  NoTicket

ASSUME RedemptionAssumption == NoTicket \notin Tickets

VARIABLES
  rpc,          \* where each request is
  rticket,      \* the ticket it presents
  deadline      \* the `until` it returned, on the monotonic clock

redeemVars == <<rpc, rticket, deadline>>
redemptionVars == <<clockVars, procVars, storeVars, tickets, redeemVars>>

RedeemTypeOK ==
  /\ rpc \in [Requests -> {"idle", "described", "verified", "spent", "granted"}]
  /\ rticket \in [Requests -> Tickets \union {NoTicket}]
  /\ deadline \in [Requests -> Int]
  /\ \A r \in Requests : rpc[r] # "idle" => rticket[r] \in Tickets

RedeemInit ==
  /\ rpc = [r \in Requests |-> "idle"]
  /\ rticket = [r \in Requests |-> NoTicket]
  /\ deadline = [r \in Requests |-> 0]

--------------------------------------------------------------------------------
Reject(r) ==
  /\ rpc' = [rpc EXCEPT ![r] = "idle"]
  /\ rticket' = [rticket EXCEPT ![r] = NoTicket]
  /\ UNCHANGED deadline

Advance(r, label) ==
  /\ rpc' = [rpc EXCEPT ![r] = label]
  /\ UNCHANGED <<rticket, deadline>>

EpochOf(r) == rticket[r].key.epoch

\* The call of descriptor(v.Epoch), and the comparison of the key ids.  A request
\* that presents no signed ticket has no further effect than this call's, which is
\* what OtherDescriptorCall stands for.
RedeemDescribe(r, t) ==
  /\ up /\ rpc[r] = "idle"
  /\ DescriptorOK(t.key.epoch, policy, pin)
  /\ KeyId(t.key.epoch, policy, pin) = t.key
  /\ rpc' = [rpc EXCEPT ![r] = "described"]
  /\ rticket' = [rticket EXCEPT ![r] = t]
  /\ UNCHANGED <<clockVars, procVars, tickets, deadline>>

\* The expiry check, which reads the clock again, and the signature check.
RedeemVerify(r) ==
  /\ up /\ rpc[r] = "described"
  /\ IF wall < EpochOf(r) + Lifetime
     THEN Advance(r, "verified")
     ELSE Reject(r)
  /\ UNCHANGED <<clockVars, procVars, storeVars, tickets>>

\* Mutant: a spent ticket is not refused.
UnspentUnchecked(r) == TRUE

Unspent(r) == rticket[r] \notin PrunedSpent
MarkSpent(r) == spent' = PrunedSpent \union {rticket[r]}
SpentHasRoom == Cardinality(spent) < SpentCap

\* The transaction that commits the marker.  It prunes with the hour it reads
\* itself; the cap counts the records before the transaction; any error rolls
\* the pruning back.
RedeemSpend(r) ==
  /\ up /\ rpc[r] = "verified"
  /\ \/ /\ Unspent(r) /\ SpentHasRoom
        /\ MarkSpent(r)
        /\ quota' = PrunedQuota
        /\ Advance(r, "spent")
     \/ /\ Reject(r)
        /\ UNCHANGED <<spent, quota>>
  /\ UNCHANGED <<clockVars, procVars, latestEpoch, keys, memKeys, keyGen, published, tickets>>

\* Mutant: a whole lifetime from the redemption on.
FullLifetime(r) == Lifetime

\* Mutant: the lifetime counts from the end of the key's hour.
RemainingFromEnd(r) == EpochOf(r) + 1 + Lifetime - wall

Remaining(r) == EpochOf(r) + Lifetime - wall

\* redeem returns: the rest of the ticket's lifetime, counted on the monotonic clock.
RedeemGrant(r) ==
  /\ up /\ rpc[r] = "spent"
  /\ rpc' = [rpc EXCEPT ![r] = "granted"]
  /\ deadline' = [deadline EXCEPT ![r] = mono + Remaining(r)]
  /\ UNCHANGED <<clockVars, procVars, storeVars, tickets, rticket>>

\* A crash forgets the calls that had not returned.
RedeemCrash ==
  /\ rpc' = [r \in Requests |-> IF rpc[r] = "granted" THEN "granted" ELSE "idle"]
  /\ rticket' = [r \in Requests |-> IF rpc[r] = "granted" THEN rticket[r] ELSE NoTicket]
  /\ UNCHANGED deadline

RedeemStep ==
  \E r \in Requests :
    \/ \E t \in tickets : RedeemDescribe(r, t)
    \/ RedeemVerify(r)
    \/ RedeemSpend(r)
    \/ RedeemGrant(r)

--------------------------------------------------------------------------------
(* Everything else, as redemption sees it. *)

\* An account obtains signatures under some key the authority has published.
ObtainTickets(k, a, S) ==
  /\ Fresh(S)
  /\ tickets' = tickets \union {[key |-> k, acct |-> a, no |-> i] : i \in S}
  /\ UNCHANGED <<clockVars, procVars, storeVars>>

\* Issuance charges an account for an hour whose descriptor it has seen.
ChargeQuota(a, e, n) ==
  /\ quota' = [quota EXCEPT ![<<a, e>>] = n]
  /\ UNCHANGED <<clockVars, procVars, latestEpoch, keys, spent, memKeys, keyGen, published, tickets>>

Issuance ==
  \E k \in published, a \in Accounts :
    \/ \E i, j \in 1 .. MaxTickets : ObtainTickets(k, a, i .. j)
    \/ \E n \in 1 .. QuotaMax : ChargeQuota(a, k.epoch, n)

Start == \E p \in Policies, c \in Pins : StoreStart(p, c)
Crash == StoreCrash /\ RedeemCrash
OtherDescriptorCall == \E e \in Hours : DescriptorCall(e)

RedemptionInit == StoreInit /\ RedeemInit

RedemptionStep ==
  \/ RedeemStep
  \/ Crash
  \/ /\ \/ Start
        \/ StoreStartFails
        \/ OtherDescriptorCall
        \/ Issuance
     /\ UNCHANGED redeemVars

\* The clock runs forward, and may be set forward.
ForwardClock ==
  /\ Tick \/ ClockJump
  /\ UNCHANGED <<procVars, storeVars, tickets, redeemVars>>

RedemptionNext == RedemptionStep \/ ForwardClock
RedemptionSpec == RedemptionInit /\ [][RedemptionNext]_redemptionVars

\* The clock may also be set back.
AnyClock ==
  /\ Tick \/ ClockJump \/ ClockBack
  /\ UNCHANGED <<procVars, storeVars, tickets, redeemVars>>

RedemptionSkewSpec == RedemptionInit /\ [][RedemptionStep \/ AnyClock]_redemptionVars

--------------------------------------------------------------------------------
(* Properties. *)

RedemptionTypeOK == StoreTypeOK /\ RedeemTypeOK

Granted(r) == rpc[r] = "granted"
LiveGrant(r) == Granted(r) /\ deadline[r] > mono

\* A ticket admits one holder at a time: whatever the interleaving of redemptions,
\* hour changes, pruning and restarts, no two unexpired authorizations come from
\* the same ticket (redeem; ACCESS.md, "Duplicate redemption fails even
\* concurrently or after a restart").
NoDoubleLiveGrant ==
  \A r, s \in Requests :
    LiveGrant(r) /\ LiveGrant(s) /\ rticket[r] = rticket[s] => r = s

\* The same sentence read literally: no ticket is ever redeemed successfully twice.
RedeemedAtMostOnce ==
  \A r, s \in Requests :
    Granted(r) /\ Granted(s) /\ rticket[r] = rticket[s] => r = s

\* An authorization never lasts past the end of its ticket's lifetime, counted in
\* elapsed time from the hour of the ticket's key: redeeming late, or a clock set
\* forward while redeem runs, buys no more (redeem's last line; ACCESS.md, "never
\* another 12 hours upon redemption").
GrantEndsWithTicket ==
  \A r \in Requests : Granted(r) => deadline[r] <= EpochOf(r) + Lifetime

\* The marker is durable before forwarding is permitted, and neither pruning nor a
\* restart loses it while descriptor would still serve the ticket's key (redeem's
\* transaction, descriptor's pruning).
UsableTicketIsMarked ==
  \A r \in Requests :
    rpc[r] \in {"spent", "granted"} /\ ~Expired(EpochOf(r)) => rticket[r] \in spent

\* One signing key per policy and hour, ever: rotation, pruning, a failure between
\* descriptor's two transactions, a restart, or a clock set back across the hour never
\* makes a second one (descriptor's high-water mark, raised where keys are pruned).
OneKeyPerHour ==
  \A k, l \in published :
    k.policy = l.policy /\ k.epoch = l.epoch => k.serial = l.serial

\* An unexpired ticket is not orphaned: whenever the relay runs with the ticket's policy
\* and certificate and accepts its clock, descriptor still returns the ticket's key id,
\* after restarts, under other policies in between, and with the clock set forward or
\* back (descriptor; tickets_test.go, "unused ticket lost on restart").
TicketsStayRedeemable ==
  \A t \in tickets :
    /\ up /\ policy = t.key.policy /\ pin = t.key.pin
    /\ EpochServed(t.key.epoch) /\ ClockAccepted
    => KeyId(t.key.epoch, policy, pin) = t.key
================================================================================
