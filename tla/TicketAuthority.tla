---------------------------- MODULE TicketAuthority ----------------------------
(***************************************************************************)
(* The whole ticket authority: issuance over the Unix socket and redemption *)
(* on QUIC connections, sharing the database, the key cache and the clocks. *)
(***************************************************************************)
EXTENDS TicketIssuance, TicketRedemption

authorityVars ==
  <<clockVars, procVars, storeVars, tickets, issueVars, coreVars, redeemVars>>

AuthorityInit == StoreInit /\ IssueInit /\ RedeemInit

\* A redemption that presents no acceptable ticket: descriptor runs for whatever
\* epoch it claims, and it is refused.
RefusedRedemption == \E e \in Hours : DescriptorCall(e)

AuthorityStep ==
  \/ IssueStep /\ UNCHANGED <<coreVars, redeemVars>>
  \/ RedeemStep /\ UNCHANGED <<issueVars, coreVars>>
  \/ MembershipChanges /\ UNCHANGED redeemVars
  \/ StoreCrash /\ IssueCrash /\ RedeemCrash /\ UNCHANGED coreVars
  \/ /\ Start \/ StoreStartFails \/ RefusedRedemption
     /\ UNCHANGED <<issueVars, coreVars, redeemVars>>

AuthorityClock ==
  /\ Tick \/ ClockJump
  /\ UNCHANGED <<procVars, storeVars, tickets, issueVars, coreVars, redeemVars>>

AuthorityNext == AuthorityStep \/ AuthorityClock
AuthoritySpec == AuthorityInit /\ [][AuthorityNext]_authorityVars

--------------------------------------------------------------------------------
(* Properties. *)

AuthorityTypeOK == StoreTypeOK /\ IssueTypeOK /\ RedeemTypeOK

\* Leaving every allowed group takes effect within Lifetime hours: a live
\* authorization belongs to an account that is a member, or was one less than Lifetime
\* elapsed hours ago.  Cached answers, requests and redemptions that straddle an hour,
\* spare tickets, restarts and a clock set forward are included (handle, redeem;
\* ACCESS.md, "Group removal can take up to 12 hours to take effect").
RevocationBound ==
  \A r \in Requests :
    LiveGrant(r) => \/ memberOf[rticket[r].acct]
                    \/ mono < lastIn[rticket[r].acct] + Lifetime

\* The two components keep, together, the contracts they are modelled with apart: a step of
\* the one is a step the other allows its environment (handle, redeem, descriptor).
ImplementsRedemption == RedemptionSpec
ImplementsIssuance == IssuanceSpec
ImplementsParts == ImplementsRedemption /\ ImplementsIssuance
================================================================================
