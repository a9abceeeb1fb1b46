---------------------------- MODULE TicketIssuance ----------------------------
(***************************************************************************)
(* Issuing tickets over the authority's Unix socket (tickets.go, handle):   *)
(* /catalog, /challenge and /issue, run by as many handlers as there are    *)
(* slots.  A handler is a record tagged with where it is:                   *)
(*                                                                         *)
(*   idle -> entered -> described -> lookup -> querying -> admitted         *)
(*        -> charged -> signing -> idle                                     *)
(*                                                                         *)
(* and goes back to idle on every error reply.  The Core's answers are      *)
(* external: a query that does not fail returns what was true at some      *)
(* moment between its start and its answer.                                *)
(***************************************************************************)
EXTENDS TicketStore

CONSTANTS
  Handlers,       \* the request slots (8)
  MaxBatch,       \* blinded messages per request (3)
  MaxNonces,      \* bound: challenges the model creates
  ChallengeCap,   \* pending challenges (256)
  QuotaCap        \* live quota records (100000)

ASSUME IssuanceAssumption ==
  /\ MaxBatch \in Nat \ {0}
  /\ MaxNonces \in Nat
  /\ ChallengeCap \in Nat
  /\ QuotaCap \in Nat
  /\ IsFiniteSet(Handlers)

VARIABLES
  handler,        \* what each slot is doing
  challenges,     \* t.challenges: the pending nonces with what they are bound to
  nonceGen,       \* nonces drawn so far (random, so never drawn again)
  cache,          \* the policy's cached membership answers
  memberOf,       \* the Core's truth: is the account in an allowed group now?
  lastIn,         \* history: the elapsed hour in which the account last was
  issued,         \* history: signatures handed out per <<account, epoch>>
  batches         \* history: batches signed per nonce

issueVars == <<handler, challenges, nonceGen, cache, issued, batches>>
coreVars == <<memberOf, lastIn>>
issuanceVars == <<clockVars, procVars, storeVars, tickets, issueVars, coreVars>>

Nonces == 1 .. MaxNonces
Batch == 1 .. MaxBatch      \* a batch of blinded messages, told apart by its size
Idle == [pc |-> "idle"]

\* An /issue request that holds a consumed challenge.
Issuing(labels) ==
  [pc: labels, key: KeyIds, acct: Accounts, n: Batch, nonce: Nonces]
Querying ==
  [pc: {"querying"}, key: KeyIds, acct: Accounts, n: Batch, nonce: Nonces,
   started: Hours, at: Hours, again: BOOLEAN]
HandlerStates ==
  {Idle} \union [pc: {"entered"}, epoch: Hours] \union [pc: {"described"}, key: KeyIds]
    \union Issuing({"lookup", "recheck", "admitted", "charged", "signing"})
    \union Querying

IssueTypeOK ==
  /\ handler \in [Handlers -> HandlerStates]
  /\ challenges \subseteq [nonce: Nonces, key: KeyIds, n: Batch]
  /\ nonceGen \in 0 .. MaxNonces
  /\ cache \subseteq [acct: Accounts, member: BOOLEAN, checked: Hours, at: Hours]
  /\ memberOf \in [Accounts -> BOOLEAN]
  /\ lastIn \in [Accounts -> Int]
  /\ issued \in [Accounts \X Hours -> Nat]
  /\ batches \in [Nonces -> Nat]

IssueInit ==
  /\ handler = [h \in Handlers |-> Idle]
  /\ challenges = {}
  /\ nonceGen = 0
  /\ cache = {}
  /\ memberOf \in [Accounts -> BOOLEAN]
  /\ lastIn = [a \in Accounts |-> -Lifetime]
  /\ issued = [x \in Accounts \X Hours |-> 0]
  /\ batches = [i \in Nonces |-> 0]

--------------------------------------------------------------------------------
At(h, label) == up /\ handler[h].pc = label
Become(h, state) == handler' = [handler EXCEPT ![h] = state]
MoveTo(h, label) == Become(h, [handler[h] EXCEPT !.pc = label])

\* A request takes a free slot and reads the hour it will ask descriptor for.
Enter(h) ==
  /\ At(h, "idle")
  /\ Become(h, [pc |-> "entered", epoch |-> wall])
  /\ UNCHANGED <<clockVars, procVars, storeVars, tickets, challenges, nonceGen, cache, issued, batches>>

\* descriptor, which reads the clock again and may refuse.
Describe(h) ==
  /\ At(h, "entered")
  /\ LET e == handler[h].epoch IN
       \/ /\ DescriptorOK(e, policy, pin)
          /\ Become(h, [pc |-> "described", key |-> KeyId(e, policy, pin)])
       \/ /\ DescriptorErr(e)
          /\ Become(h, Idle)
  /\ UNCHANGED <<clockVars, procVars, tickets, challenges, nonceGen, cache, issued, batches>>

\* /catalog, or a request refused for its method, size, JSON, descriptor or batch; at
\* the end, a blinded message that cannot be signed.
AnswerOrRefuse(h) ==
  /\ At(h, "described") \/ At(h, "signing")
  /\ Become(h, Idle)
  /\ UNCHANGED <<clockVars, procVars, storeVars, tickets, challenges, nonceGen, cache, issued, batches>>

\* /challenge: drops the challenges that are over a minute old (`old`), then adds
\* one unless the table is full.
Challenge(h, n, old) ==
  /\ At(h, "described")
  /\ nonceGen < MaxNonces
  /\ nonceGen' = nonceGen + 1
  /\ challenges' =
       IF Cardinality(challenges \ old) >= ChallengeCap
       THEN challenges \ old
       ELSE (challenges \ old) \union {[nonce |-> nonceGen', key |-> handler[h].key, n |-> n]}
  /\ Become(h, Idle)
  /\ UNCHANGED <<clockVars, procVars, storeVars, tickets, cache, issued, batches>>

\* Mutant: the challenge stays in the table.
UntakenAll(i) == challenges

Untaken(i) == {c \in challenges : c.nonce # i}

\* /issue takes the challenge out of the table before it looks at it, then checks
\* that it is bound to this descriptor and batch; expiry, or any defect of the
\* account's proof, is the second disjunct.
TakeChallenge(h, i, a, n) ==
  /\ At(h, "described")
  /\ challenges' = Untaken(i)
  /\ \/ /\ [nonce |-> i, key |-> handler[h].key, n |-> n] \in challenges
        /\ Become(h, [pc |-> "lookup", key |-> handler[h].key, acct |-> a, n |-> n, nonce |-> i])
     \/ Become(h, Idle)
  /\ UNCHANGED <<clockVars, procVars, storeVars, tickets, nonceGen, cache, issued, batches>>

\* Mutant: an answer from the hour before will do.
RecentEnough(checked, e) == checked >= e - 1

Recent(checked, e) == checked >= e

\* What handle does with an answer of membership() or, the second time, of
\* checkGroups(): a positive from before the descriptor's hour is asked again once,
\* then refused, so that no ticket expires later than Lifetime after the check.
Judge(h, member, checked, again) ==
  LET e == handler[h].key.epoch
      request == [pc |-> "lookup", key |-> handler[h].key, acct |-> handler[h].acct,
                  n |-> handler[h].n, nonce |-> handler[h].nonce]
  IN \/ /\ member /\ Recent(checked, e)
        /\ Become(h, [request EXCEPT !.pc = "admitted"])
     \/ /\ member /\ ~Recent(checked, e) /\ ~again
        /\ Become(h, [request EXCEPT !.pc = "recheck"])
     \/ /\ ~member \/ (~Recent(checked, e) /\ again)
        /\ Become(h, Idle)

\* membership() finds an answer that is less than 30 s old.
CacheHit(h) ==
  /\ At(h, "lookup")
  /\ \E c \in cache :
       /\ c.acct = handler[h].acct /\ c.at + 1 >= mono
       /\ Judge(h, c.member, c.checked, FALSE)
  /\ UNCHANGED <<clockVars, procVars, storeVars, tickets, challenges, nonceGen, cache, issued, batches>>

\* One query per account is in flight for the cache; others wait for its answer.
InFlight(a) == \E g \in Handlers : handler[g].pc = "querying" /\ handler[g].acct = a /\ ~handler[g].again

\* A query to the Core starts; its answer will be dated by this moment.
StartQuery(h) ==
  /\ (At(h, "lookup") /\ ~InFlight(handler[h].acct)) \/ At(h, "recheck")
  /\ Become(h, [pc |-> "querying", key |-> handler[h].key, acct |-> handler[h].acct,
                n |-> handler[h].n, nonce |-> handler[h].nonce,
                started |-> wall, at |-> mono, again |-> handler[h].pc = "recheck"])
  /\ UNCHANGED <<clockVars, procVars, storeVars, tickets, challenges, nonceGen, cache, issued, batches>>

\* The Core answers.  A positive was true at some moment since the query started; a
\* negative, dated by the moment it is returned, may have asked each group at another
\* moment.
CoreAnswers(h, member) ==
  /\ At(h, "querying")
  /\ member => memberOf[handler[h].acct] \/ lastIn[handler[h].acct] >= handler[h].at
  /\ LET a == handler[h].acct
         checked == IF member THEN handler[h].started ELSE wall
         at == IF member THEN handler[h].at ELSE mono
     IN /\ Judge(h, member, checked, handler[h].again)
        /\ cache' = IF handler[h].again THEN cache
                    ELSE {c \in cache : c.acct # a}
                           \union {[acct |-> a, member |-> member, checked |-> checked, at |-> at]}
  /\ UNCHANGED <<clockVars, procVars, storeVars, tickets, challenges, nonceGen, issued, batches>>

\* No answer: every Core endpoint failed, the request timed out or was cancelled, or
\* the lookup table was full.  Errors are not cached.
LookupFails(h) ==
  /\ At(h, "lookup") \/ At(h, "querying")
  /\ Become(h, Idle)
  /\ UNCHANGED <<clockVars, procVars, storeVars, tickets, challenges, nonceGen, cache, issued, batches>>

\* Mutant: the hour of the transaction is charged.
RecordOfNow(h) == <<handler[h].acct, wall>>

Allows(count) == count <= QuotaMax
QuotaRecord(h) == <<handler[h].acct, handler[h].key.epoch>>

\* The quota transaction.
Charge(h) ==
  /\ At(h, "admitted")
  /\ LET x == QuotaRecord(h)
         records == {y \in DOMAIN quota : quota[y] > 0}
         count == quota[x] + handler[h].n
     IN \/ /\ x \in records \/ Cardinality(records) < QuotaCap
           /\ Allows(count)
           /\ quota' = [quota EXCEPT ![x] = count]
           /\ MoveTo(h, "charged")
        \/ /\ Become(h, Idle)
           /\ UNCHANGED quota
  /\ UNCHANGED <<clockVars, procVars, latestEpoch, keys, spent, memKeys, keyGen, published, tickets,
                 challenges, nonceGen, cache, issued, batches>>

\* Mutant: the key of the hour in which the batch is signed.
SigningNow(h) == wall

SigningHour(h) == handler[h].key.epoch

\* The private key is fetched by a second call of descriptor, after the charge.
FetchKey(h) ==
  /\ At(h, "charged")
  /\ LET e == SigningHour(h) IN
       \/ /\ DescriptorOK(e, policy, pin)
          /\ Become(h, [handler[h] EXCEPT !.pc = "signing", !.key = KeyId(e, policy, pin)])
       \/ /\ DescriptorErr(e)
          /\ Become(h, Idle)
  /\ UNCHANGED <<clockVars, procVars, tickets, challenges, nonceGen, cache, issued, batches>>

\* The batch is signed and returned.
SignBatch(h, first) ==
  /\ At(h, "signing")
  /\ LET t == handler[h]
         S == first .. (first + t.n - 1)
     IN /\ Fresh(S)
        /\ \A i \in 1 .. (first - 1) : \E u \in tickets : u.no = i
        /\ tickets' = tickets \union {[key |-> t.key, acct |-> t.acct, no |-> i] : i \in S}
        /\ issued' = [issued EXCEPT ![<<t.acct, t.key.epoch>>] = @ + t.n]
        /\ batches' = [batches EXCEPT ![t.nonce] = @ + 1]
  /\ Become(h, Idle)
  /\ UNCHANGED <<clockVars, procVars, storeVars, challenges, nonceGen, cache>>

IssueStep ==
  \E h \in Handlers :
    \/ Enter(h) \/ Describe(h) \/ AnswerOrRefuse(h)
    \/ \E n \in Batch, old \in SUBSET challenges : Challenge(h, n, old)
    \/ \E i \in Nonces, a \in Accounts, n \in Batch : TakeChallenge(h, i, a, n)
    \/ CacheHit(h) \/ StartQuery(h) \/ LookupFails(h)
    \/ \E member \in BOOLEAN : CoreAnswers(h, member)
    \/ Charge(h) \/ FetchKey(h)
    \/ \E first \in 1 .. MaxTickets : SignBatch(h, first)

\* A crash forgets the requests, the challenges and the cached answers.
IssueCrash ==
  /\ handler' = [h \in Handlers |-> Idle]
  /\ challenges' = {}
  /\ cache' = {}
  /\ UNCHANGED <<nonceGen, issued, batches>>

\* The account joins or leaves the allowed groups.
MembershipChanges ==
  /\ \E a \in Accounts :
       /\ memberOf' = [memberOf EXCEPT ![a] = ~@]
       /\ lastIn' = IF memberOf[a] THEN [lastIn EXCEPT ![a] = mono] ELSE lastIn
  /\ UNCHANGED <<clockVars, procVars, storeVars, tickets, issueVars>>

--------------------------------------------------------------------------------
(* Issuance on its own; redemption is seen as a caller of descriptor that also marks
   tickets and prunes the records of expired hours. *)

MarkAndPrune(t) ==
  /\ up
  /\ spent' = PrunedSpent \union {t}
  /\ quota' = PrunedQuota
  /\ UNCHANGED <<clockVars, procVars, latestEpoch, keys, memKeys, keyGen, published, tickets>>

IssuanceInit == StoreInit /\ IssueInit

IssuanceStep ==
  \/ IssueStep /\ UNCHANGED coreVars
  \/ MembershipChanges
  \/ StoreCrash /\ IssueCrash /\ UNCHANGED coreVars
  \/ /\ \/ \E p \in Policies, c \in Pins : StoreStart(p, c)
        \/ StoreStartFails
        \/ \E e \in Hours : DescriptorCall(e)
        \/ \E t \in tickets : MarkAndPrune(t)
     /\ UNCHANGED <<issueVars, coreVars>>

IssuanceClock ==
  /\ Tick \/ ClockJump
  /\ UNCHANGED <<procVars, storeVars, tickets, issueVars, coreVars>>

IssuanceNext == IssuanceStep \/ IssuanceClock
IssuanceSpec == IssuanceInit /\ [][IssuanceNext]_issuanceVars

--------------------------------------------------------------------------------
(* Properties. *)

\* An account never holds more than QuotaMax signatures of one hour: concurrent
\* requests, crashes, restarts and the pruning done by redemptions do not reset the
\* count while the hour's key can still sign (handle's quota transaction, which
\* commits before the signatures; ACCESS.md, "24 tickets per UTC hour").
QuotaRespected == \A x \in Accounts \X Hours : issued[x] <= QuotaMax

\* A challenge yields at most one signed batch, however many requests present it at
\* once and whatever happens to them (handle, which removes it before checking it).
ChallengeSingleUse == \A i \in Nonces : batches[i] <= 1

\* The key a batch is signed with is the one its challenge and descriptor named,
\* although it is fetched again after Core queries and a charge, possibly in another
\* hour (handle's second call of descriptor).
SameKeyThroughout ==
  [][\A h \in Handlers :
       handler[h].pc = "charged" /\ handler'[h].pc = "signing" => handler'[h].key = handler[h].key
    ]_issuanceVars

\* A ticket's hour never starts before the account's membership was confirmed in it:
\* when a batch is signed its account was a member in the elapsed hour of the key or
\* later, cached answers and requests that straddle an hour included (handle's two
\* comparisons of `checked` with the epoch).
SignedForRecentMember ==
  \A t \in tickets : memberOf[t.acct] \/ lastIn[t.acct] >= t.key.epoch - (wall - mono)
================================================================================
