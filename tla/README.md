# A TLA+ verification of the Qortal MASQUE relay

The relay forwards UDP for members of Qortal groups. Members obtain blind-signed,
single-use *tickets* from the relay's ticket authority over Reticulum, and redeem them
on a QUIC connection, where their Qortal address is not known. This directory models the parts
of the relay whose correctness depends on several things happening at once or one after
the other in an order nobody chose: requests, timers, pruning, hour changes, goroutines,
crashes, restarts and shutdown. TLC checks the models on small instances; all
invariants, the composition of the ticket authority, the refinements of the tunnels and of the
receive buffers, and what the group codec and the address tests compute are proved with TLAPS for all instances.

## The system

| Part | Code | State | Operations |
|---|---|---|---|
| Ticket store | `internal/relay/tickets.go` | bbolt buckets `meta`, `keys`, `spent`, `quota`; key cache `t.keys` | `newTicketAuthority`, `descriptor`, `close` |
| Issuance | `tickets.go` `handle`; `access.go` `membership`, `checkGroups` | slots, `challenges`, membership cache and pending queries, quota | `/catalog`, `/challenge`, `/issue` |
| Redemption | `tickets.go` `redeem` | spent markers | `redeem` |
| Membership lookup | `access.go` `membership`, `checkGroups`, `checkGroup`, `coreFailed` | cache, pending lookups, slots, failed endpoints | look up, wait, ask with failover |
| Connection authorization | `access.go` `connectionContext`, `expire`, `authorize` | connection counters, authorization, timer and its generation | accept, authorize, renew, expire, close |
| Sessions and shutdown | `server.go` handler, `acquire`, `release`, `Close` | session counters, `closed` | open and end a tunnel, `Close` |
| Tunnel forwarding | `masque-go/proxy.go`; `quic-go` `datagram_queue.go` | three goroutines, stream errors, socket, send queue | copy, cancel, `Proxy.Close` |
| Receive buffers | patched `quic-go` `internal/datagrambuffer`, `http3/state_tracking_stream.go` | rings, shared budget, wake-up channel | push, pop, expire, close |
| Target policy | `server.go` `targetAllowed`, `publiclyRoutable`; `mapping.go` `isPublicInternetAddress` | none | pure |
| Start and certificate | `server.go` `Start`, `createCertificate`; `access.go` `LoadAccessConfig` | two files, database, sockets | check, load, create, open |
| Process | `cmd/qortal-masque-relay/main.go` | server, announcer, mapping | flags, start order, select loop, shutdown |
| UPnP mapping | `internal/upnp/mapping.go` | lease on the router | open, maintain, close |
| Codec | `scripts/masque_discovery_codec.py` | none | encode, decode |
| Announcer | `scripts/masque_relay_discovery.py` | links, retry delay | announce, answer, forward ticket requests |

How they interact: `main` reads the flags and the access file, maps the port, and calls
`Start`, which loads or makes the TLS identity, opens the ticket database and its socket, and
listens. `main` then runs the announcer, which publishes the hour's descriptor and forwards
ticket requests over the authority's Unix socket. `handle` answers them from the store, asking
the Core for membership. A client connects over QUIC;
`authorize` calls `redeem`, which spends the ticket in the same database, and arms the timer
that ends the connection. An authorized request opens a tunnel, counted per ticket (per host
in public mode); its goroutines copy datagrams between a bounded receive buffer, a UDP socket
and the connection's bounded send queue. `Close` stops the proxy, then HTTP/3, then the
database.

What makes it hard: every call reads the wall clock several times while hours change; pruning
runs in two places; a redemption and a renewal race with each other, with timers and with
the connection's close; three goroutines and `Proxy.Close` end a tunnel from four sides; a crash
can come between any two transactions or file writes; and a router may carry out a request
after its caller has given up. `PROJECT.json` lists these hazards at the lines where they bite.

## Modules

| Module | Models | Extends |
|---|---|---|
| `TicketStore` | the database, `descriptor`, start and crash, the clocks | |
| `TicketRedemption` | `redeem` in four steps, concurrent, with crashes | `TicketStore` |
| `TicketIssuance` | `handle` and the membership cache | `TicketStore` |
| `TicketAuthority` | both over one store | `TicketIssuance`, `TicketRedemption` |
| `Membership` | membership lookups: sharing, fan-out, failover | |
| `ConnectionAuth` | admission, timer, `expire`, `authorize` | |
| `RelaySessions` | the handler, session counters, `Close` | `ConnectionAuth` |
| `Tunnels` | a tunnel's goroutines, the send queue, `Proxy.Close` | `RelaySessions` |
| `DatagramFifo` | what a receive queue promises | |
| `DatagramBuffer` | the receive queues and their budget | |
| `Lifecycle` | `main` and the UPnP mapping | |
| `ServerStart` | the access file, `Start`, the certificate files | `TargetPolicy` |
| `Deployment` | lives of a process: `Lifecycle` and `ServerStart` together | `Lifecycle`, `ServerStart` |
| `DiscoveryCodec` | the advertisement's group list and length, as operators | |
| `Announcement` | the advertisement of a deployed relay | `Deployment`, `DiscoveryCodec` |
| `TargetPolicy` | the tests of addresses, as operators | |
| `*Proofs`, `TicketAuthorityMoves` | inductive invariants, lemmas and theorems, see *Proofs* | the modules they are about |
| `MC*` | instances for TLC: values of constants and symmetry sets only | |

### State and actions

*Time.* The authority compares whole hours, so `wall` is the hour of the system clock and
`mono` the monotonic hour that timers and deadlines use. `Tick` moves both; `ClockJump`
and `ClockBack` set only the system clock. Delays below an hour (a 30-second cache, a
one-minute challenge) are choices. `Lifetime` is the code's 12 hours.

*Store.* `DescriptorOK` and `DescriptorErr` are `descriptor` with its outcome. The function
holds `t.mu`, so it is one step, except that its first transaction (raise the mark, prune)
may commit when the rest fails: that is the second disjunct of `DescriptorErr`. RSA keys
are serial numbers, and a key id is the record that `ticketKeyID` hashes. `published` and
`tickets` are history.

*Redemption.* A call is `idle`, `described`, `verified`, `spent` or `granted`, one step for
each place where the code reads the clock or the database. `RedeemSpend` is the
transaction: it prunes with its own hour, checks the marker, checks the cap, writes the
marker. A ticket's account is visible to properties only.

*Issuance.* A handler moves from the first descriptor over the challenge, the membership
lookup, the quota transaction and the second descriptor to the signature. The Core is
external: a positive answer was true at some moment between the query's start and its
answer. `Judge` is what `handle` does with an answer: ask again once if it is older than
the descriptor's hour, then refuse.

*Composition of the authority.* `TicketRedemption` sees issuance as "some account obtains signatures
under a published key" and "some quota is charged"; `TicketIssuance` sees redemption as "markers
are written and records pruned". `TicketAuthority` runs the two for real, and the properties
`ImplementsRedemption` and `ImplementsIssuance` say that each keeps what the other assumes.
The refinement mapping is the identity, since the variables are shared.

*Membership.* A call looks at the cache and the table of lookups, then waits or leads; a lookup has
one goroutine per group, which waits for a turn, then for a slot, asks, reads the response
and sends its result. Goroutines go on after their call has returned, as in the code. A request
may fail at any time, by the endpoint's fault or because its context is over, and the code
cannot always tell; `coreFailures` also records which it was. `said` is history: the valid answer
each goroutine got. A call is made once per caller, so that a caller also names its lookup.
`TicketIssuance` has its own, coarser lookup, which also dates the answers.

*Connections.* `timer` is the armed timer with its generation; `expiring` are calls of `expire`
in progress, which load the generation in one step and close in another. A request is
waiting for `a.mu`, redeeming while it holds it, or authorized. `allowedUntil` is
history. Accounts are numbered in the order of redemption, so a ticket redeems at most once
here; that is what the ticket modules establish.

*Sessions.* A request holds a session from `Acquires` to the deferred `Release`. `phase` is how
far `Close` has come: flag set, proxy closed and waiting for tunnels, HTTP/3 closing, database
closed. A tunnel is one state that ends once.

*Tunnels.* The same, with the tunnel in detail: the handler's goroutine discards capsules and
then waits for the two copying goroutines; `rx` and `tx` are the stream's two error fields,
`sock` the egress socket. The downward goroutine may be blocked in `datagramQueue.Add`; `sent`
is its channel of one token, drained and waited for in the code's two steps. `Proxy.Close`
holds `s.mx` in a phase of its own while it closes the registered streams one by one.
`ImplementsRelay` is the refinement: `RelaySessions` with the tunnel's detail forgotten and that phase
taken for "draining". A datagram that is dropped or forwarded upward changes nothing here.
The handler leaves its capsules in two ways. A failed `Read` of the stream has closed the receiving side
(`MainLeavesCapsules`); a frame that `http3` refuses has not (`MainMeetsFrame`), and the upward goroutine goes on waiting for datagrams.

*Receive buffers.* `Push` and `Pop` hold the stream's mutex but share `used` with every other queue, so
a call (`call`) takes a step for each change of `used`: one for each entry that `expire` removes, then the queue's own
limits and the reservation of the payload, the reservation of a larger ring, and the copy. What one removal
gives back, its payload and perhaps the ring, is one step. The clock is read when the call begins. The ring is the
code's ring, with head and free slots. `DatagramFifo` says what comes out: accepted entries in order, each at most once,
none that was stale when the receiver asked, and nothing lost but stale heads and what a closed queue held;
`ImplementsFifo` maps the ring to the sequence it holds.

*Start.* `step` follows `Start`; the two files are missing, torn (truncated by `os.WriteFile`, not
yet written) or whole with the pair they belong to. A certificate is the number of its pair and
the name it is for; `due` says that it ends within a day. The access file is its form
(one object, or something `LoadAccessConfig` refuses) and its values. `held` is what the process keeps open: the
database, the ticket socket, the UDP socket. Each failing step closes what its own code closes (`newTicketAuthority` the database, `serve` the
listener, `Start`'s deferred function the tickets), and `path` is what lies at the socket's path, where a killed process leaves a
stale socket that the next start removes.

*Process.* `pc` follows `main`. A request to a router is sent, answered, and returned to its
caller; a caller whose context ends leaves it in `stray`, where the router may still carry it
out. `HourPasses` is possible only when nothing that takes seconds is under way. `Deployment`
replaces `Lifecycle`'s one-step start by `Start` itself, and begins again with other flags after the
process has ended or was killed; the state directory and the routers are as they were left.

*Pure functions.* `TargetPolicy` has IPv4 addresses as octets in both spellings (`::ffff:a.b.c.d` too), with netip's tests
as netip defines them, and compares the relay's tests with the IANA registry of special-purpose blocks. An IPv6 address is the kind of block it lies
in and whether it has a zone. `DiscoveryCodec`
encodes and decodes group lists digit by digit in a base that is a parameter (128 in the
code, 2 where all byte strings are enumerated). Their properties are checked
over inputs at the edges and, in the same invariant, on what the running system computes with them: the
groups an announcer signs (`GroupsCanonical`), the address a relay is advertised at (`AdvertisedIsPublic`).

## Runs

| Run | Specification | States | Shows |
|---|---|---|---|
| `clock_skew` | `RedemptionSkewSpec` | | with the clock also set back and two policies: one key per policy and hour (`OneKeyPerHour`); unexpired tickets keep their key (`TicketsStayRedeemable`) |
| `redeemed_once` | `RedemptionSpec` | | *violation*, see below |
| `issuance` | `IssuanceSpec` | 203,893 | quota, single-use challenges, recent membership, one key per batch |
| `authority` | `AuthoritySpec` | 167,404 | a ticket has one live holder (`NoDoubleLiveGrant`), is marked as long as it could be used (`UsableTicketIsMarked`), and an authorization ends with it (`GrantEndsWithTicket`); a removed member is gone within `Lifetime` (`RevocationBound`); the composition implements both parts (`ImplementsParts`) |
| `relay_groups` | `ExpirySpec` | 219,665 | an open connection always has its end pending, and comes to it; exact counters; the order of `Close`, and that it returns |
| `tunnels` | `TunnelsSpec` | 42,302 | no goroutine waits for a lost wake-up; a tunnel that `Proxy.Close` cancelled ends, and one that lost its connection ends or is stranded (`CancelledEnds`, see below); nothing of an ended one is left running; the tunnel in detail implements the one-state tunnel (`ImplementsRelay`) |
| `old_timer` | `ExpirySpec` | | *violation*, see below |
| `membership` | `MembershipFairSpec` | | every answer is the Core's; slots and turns are given back and tables keep their caps; every call returns and every goroutine ends |
| `demotion` | `MembershipSpec` | | *violation*, see below |
| `deployment` | `DeploymentSpec` | 143,862 | over two lives: the lease does not lapse; every way out cleans up; a failed start holds nothing; the identity served is the one on disk, and is kept; the access file means what it says; the process stops when it should; it is advertised outside the special-purpose blocks; what it signs fits and says the groups it admits |
| `mapping_removed` | `LifecycleSafety` | | *violation*, see below |
| `buffer` | `BufferSpec` | 605,007 | the shared budget is exact; no receiver sleeps beside a datagram; each queue implements `DatagramFifo` |

The type invariants of `Tunnels`, `DatagramBuffer`, `Membership` and `Deployment`, which hold their caps, are the first
conjuncts of `NoLostWakeup`, `BudgetExact`, `SlotsAccounted` and `AccessAsWritten`.

Four runs show the code disagreeing with its documentation.

* `redeemed_once`: ACCESS.md says duplicate redemption fails. A second redemption that passes
  the expiry check at the end of the ticket's last hour, and whose transaction runs in the
  next hour, prunes the marker before it looks for it. It succeeds, with an authorization
  that has already expired; `NoDoubleLiveGrant`, which is checked and proved, is what the code
  does guarantee.
* `old_timer`: a comment in `expire` says an old timer must not cancel a renewal. The function
  compares the generation and closes in two steps, so a renewal in between is closed.
* `demotion`: a comment in `checkGroup` says that healthy endpoints keep their order. A lookup that
  ends while a response body is being read makes the read fail, and the endpoint is demoted as
  if it had failed.
* `mapping_removed`: a comment says that `Close` removes the mapping from the router. `main` does not
  wait for `Maintain`, so a refresh already sent can be carried out after the deletion, and the
  mapping stays until its lease ends.

The models have some further behaviour that the properties are worded around. A tunnel whose capsules end with a frame that
`http3` refuses has closed its socket and its sending side, but not its receiving side, and the end of a connection closes only the sending
side of a stream. Its upward goroutine then waits for a datagram that cannot come, and the tunnel keeps its session
until `Proxy.Close` cancels it (`Stranded`, the exception in `CancelledEnds`). UPnP's test of a router's address is weaker than
`Start`'s: it lets the documentation and benchmarking blocks pass, for which `Start` then refuses. A comment in `mapping.go` says that it
rejects CGNAT as well; it does, unless the address is written `::ffff:100.64.0.0` (the exception in `MappableIfRoutable`), which `Start` then refuses.
`Start` refuses all of 192.0.0.0/16, of which only two networks of 256 addresses are in the registry (`ProtocolBlock`), and accepts `::` and documentation
addresses that carry a zone, since netip compares the zone or finds no prefix (the last case of `AdvertisedIsPublic`).

A server name that is an IP address is written into the
certificate as a DNS name and never verifies, so each start makes a new pair (the exception in `IdentityKept`). A crash between the two certificate
writes can leave a pair that the next start refuses until someone removes it. The
certificate is replaced before the access policy is checked, so a start that then fails may already
have changed the identity. And `Start` accepts server names and a few IPv6 blocks that the
announcer refuses, which ends the announcer and with it the relay.

### Bounds

Every bound is a constant with its name. `Lifetime = 2` with `MaxHour = 3` lets a ticket be
issued, live through an hour change, expire and be pruned. Two requests are enough for the
races of redemption, which are between two holders of one ticket; the proofs cover the rest.
Issuance runs with two handlers, a quota of two and batches of one or two, so that two requests
compete for the last of the quota; `authority` has one account, one handler and two requests, and
its third hour is where pruning meets issuance.

One connection with two requests covers renewals that race with its timer. `tunnels` has two tunnels on
one connection with a send queue of one, so that each can take the other's token; tunnels of different connections share
only the counters, which `relay_groups` checks. `membership` has a table of one lookup, so that a
second address finds it full while goroutines of the first linger; two groups with one turn at
a time, two endpoints and one slot for all make every order of failure, answer and cancellation
happen. `buffer` has one queue that may burst (three packets, five bytes) and one that may not, rings
that start at two slots and grow, and a budget of eight that both together exceed;
one unit of time separates fresh from stale.

`deployment` has two routers, since `Open` goes on to the next after a failure, and the code's
lease of two hours with a refresh each hour; the second router's address is public for UPnP and not for
`Start`. Eleven configurations cover mapped, fixed and local addresses, one with a zone, both
modes, an empty access file and one that is refused, targets and announcer flags that `main` refuses, a name that never verifies, and a group
list too long to announce.
Two lives and three certificate pairs let a life inherit what the one before left, half-written or not.
A life begins only once the router requests of the last are over, a certificate becomes due only between two lives,
and the announcer of a killed life is not followed.

`Announcement` takes every name length and group lists at the edges of each encoded width (an address written
`::ffff:a.b.c.d` counts as sixteen bytes, in `Start` as in the encoder); its canonical form is
checked with digits of base 2, three of which overflow the bound as five of base 128 do. `TargetPolicy` takes the
octets on both sides of every block's edge, and every IPv6 kind with and without a zone.

Deadlock is checked for `main`. The other runs end when their clock, their tickets or their calls are used up.
Symmetry is used where the elements are interchangeable (requests, handlers, policies) and never in a run
with a liveness property.

### Fairness

`ExpirySpec` assumes only that due timers fire and that the goroutines of `expire` run: nothing is
assumed of requests, so a redemption may hold `a.mu` for ever. `CloseReturns` is stated
under the further assumption (`CloseFairness`) that `Close` and handlers go on, that a redemption
returns (it is local database work) and that a stream which `Proxy.Close` cancelled ends its tunnel; that last assumption is what
`CancelledEnds` shows of the tunnel in detail. `TunnelsFairness` assumes that the goroutines run, that `Close` goes on, and
that a connection with queued datagrams sends them or is ended by its idle timeout. No peer and no target
is assumed to do anything: a tunnel that is not cancelled may last for ever. Nothing is claimed for a tunnel whose stream
alone has ended while its connection lives and other tunnels keep the send queue full: `Add` is not a fair
queue, and the model has the behaviour in which others always come first.

`MembershipFairSpec` assumes that some goroutine runs when one can, that the HTTP client's
two-second timeout gives every request an outcome, and that a lookup's context ends (six seconds); it does not
assume that an endpoint works or that a slot is had. `DeploymentSpec` assumes that `main` and `Maintain`
run, that time passes and that `Server.Close` returns (`CloseReturns`); a router need not
answer, since contexts bound the wait, but a request nobody waits for is at last carried out or lost. Nobody
need start the relay again. The safety specifications assume no fairness.

## Proofs

Theorems hold for every value of the constants that satisfies the named assumptions of the
modules. These say little: sets of connections and requests are finite, caps and
bounds are natural numbers, `NoTicket` is no ticket, `Clients` is a sequence of positive
numbers, and a lease has room for a refresh (`Lease >= 2`). The handlers are finitely many,
as the authority's slots are (`TicketIssuance`); callers of the membership lookup and receive queues need not be. A first ring has
a slot, a queue's limit grows in burst mode, and no payload is one of the receiver's own states (`BufferAssumption`).
A deployment's flags and addresses have their types, and the groups of an access file that is an object are integers of at most
32 bits, as Go's decoder sees to (`DeploymentAssumption`). `TunnelsInit` is of a relay in public mode, where a connection has
no redemptions and no timer; the theorems about `RelaySafety` are for both modes.

| Module | Theorems |
|---|---|
| `TicketAuthorityMoves` | on redemption alone: `TicketHasOneHolder` (`NoDoubleLiveGrant`), `MarkersAreDurable` (`UsableTicketIsMarked`), `GrantsEnd` (`GrantEndsWithTicket`), `KeysAreNeverRemade` and `TicketsAreNotOrphaned` (`OneKeyPerHour`, `TicketsStayRedeemable`, also for clocks set back), `TypeCorrect`, `SkewTypeCorrect`; then the lemmas of `TicketAuthorityProofs` on single steps of handlers, of the store and of the quota |
| `TicketAuthorityProofs` | `AuthorityImplementsRedemption`, `AuthorityImplementsIssuance` and both as `AuthorityImplementsParts`; `RevocationIsBounded`, `SignedForMembers`, `ChallengesAreUsedOnce`, `OneKeyThroughout`, `QuotaIsRespected`, `TicketHasOneHolderThroughout`, `AuthorityTypes` |
| `MembershipProofs` | `AnswersAreJustified`, `SlotsAreAccounted` |
| `TunnelsProofs` | on connections and sessions: `ConnectionsAlwaysCounted`, `SessionsAlwaysCounted`, `ExpiryAlwaysPending`, `ClosesInOrder`, `NoneAcquiredAfterClose`, `RelayTypes`; on tunnels: `WakeupsNeverLost` (`NoLostWakeup`), `TunnelsLeaveNothing` (`NothingLeftRunning`), `TunnelsImplementRelay` (`ImplementsRelay`) |
| `DatagramBufferProofs` | `BudgetIsExact` (`BudgetExact`), `ReceiversRemembered` (`NoReceiverForgotten`), `BufferImplementsFifo` (`ImplementsFifo`), and `BufferInvariant`, from which they follow |
| `DeploymentProofs` | `AlwaysMappedWhileServing`, `NothingEverLeftBehind`, `IdentityAlwaysOnDisk`, `IdentityAlwaysKept`, `FailedStartsHoldNothing`, `EveryLifeIsMapped`, `StartedInvariant` |
| `AlgorithmProofs` | the operators without state: `EveryAddressJudged`, `DecodeEncoded`, `EncodeDecoded`, and lemmas on sorting, recursion and lengths |
| `AnnouncementProofs` | `AccessAlwaysAsWritten` (`AccessAsWritten`), `AdvertisedAlwaysPublic` (`AdvertisedIsPublic`), `AlwaysAnnouncedFits` (`AnnouncedFits`), `GroupsAlwaysCanonical` (`GroupsCanonical`) |

*Single use.* `NoDoubleLiveGrant` is not inductive: that a second redemption is refused depends on
its marker being there. `SingleUseInv` adds that a request past its transaction is marked
while the ticket's hour is served (`UsableTicketIsMarked`), that at most one request is past it in
that time (`SingleHolder`), that a deadline lies within the ticket's lifetime
(`GrantEndsWithTicket`), and that the monotonic clock is not ahead of the system clock. Once the hour
is no longer served a second request may get past the transaction (the finding above), but
its deadline is not in the future. The last fact is where a clock set back would break the
argument, and why these theorems are about `RedemptionSpec`.

*Keys.* `KeyInv` says that every published key is either in the database or of an hour that
the high-water mark has put out of reach, and that the cache agrees with the database. The mark
is raised in the transaction that prunes, so it survives whatever the clock does.

*The authority.* `AuthInv` joins `SingleUseInv` and `KeyInv` to what is known of issuance. A cached answer
is dated by a moment that has passed, and was true then; a handler that was told
"member" is for an account that was one in its key's hour (`CacheInv`, `HandlersInv`, `SignedForRecentMember`).
`GrantsInv` carries this from the ticket to the authorization: a deadline is at most `Lifetime` after an hour in which the account was a
member, which is `RevocationBound`. `NonceInv` says that a nonce is in the table, held by one
handler, or used up. The refinements follow step by step: what one part does to the store is a
step that the other's specification allows its environment, because of `PublishedInv` and the types.

*The quota.* `QuotaRespected` speaks of signatures, but a request is charged before it signs and may die in
between, and its record may be pruned while it waits. `QuotaInv` therefore counts what the requests past their charge may
still sign, as a set with one element for each blinded message. While the hour can still be signed for, the record covers what was signed and
what was charged; a request that has fetched its key fits the quota together with what was signed before, and needs no record any more. An
hour that has expired is not charged again and no key of it is fetched.

*Membership.* `LookupInv` adds what is known of each goroutine: it exists only for a
lookup that has begun; once answered it has finished, so an answer is never replaced and what
was justified stays so; the result it sends is what it was told; and a leader that has met no
error has collected only negatives. For the slots, `WorkerCounts` says that the goroutines that hold one are
a finite set of that size, and likewise the turns of each lookup: each step adds or removes one goroutine, which is why nothing
has to be assumed of the number of callers.

*Connections and sessions.* `RelayInv` relates a connection's state to its callback, its timer
and the calls of `expire` that have loaded a generation: one of them is going to close it. The counters are
cardinalities of the sets of connections and of requests that hold something; each action adds or removes one
element, and the cardinality lemmas do the rest. A request keeps the key it acquired with, so a renewal that changes the
connection's account moves no count.

*Tunnels.* `TunnelInv` adds three facts to the invariant of the connections. A request belongs to a connection that was accepted; a
handler that waits for its goroutines has closed the socket; and a goroutine blocked in `Add` has something to wake it:
the token, a queued datagram, or another goroutine that took the token and has not queued yet (`Woke`). The last needs
the third case because draining the channel and queueing are two steps. The refinement then goes action by action: a
goroutine's step changes nothing that `RelaySessions` sees, `MainEnds` is its tunnel's end, and the counters and conditions of the
other steps read the same from the abstract requests.

*Receive buffers.* `RingOK` says of one queue that the slots from its head on hold entries, as many as it counts, and that its
bytes are what they weigh. A sum over a sequence would need induction; the invariant instead has a witness, the
weights of all the entries' suffixes (`Weighs`), which a removal shifts, an insertion raises and a copy keeps. An index goes around
the ring at most once (`Wrap`), so different entries are in different slots (`Apart`), and what `remove`, the copy and the insertion do to the
ring is what `Tail`, nothing and `Append` do to its contents (`Removed`, `GrownRing`, `Stored`). For the budget, `Charged` has one element for
each byte a queue is charged for; a step changes the elements of one queue, and `used` by as many (`HeapMoves`). What a call found out
before it reserved, that the ring is full and the payload fits, still holds when it copies, since it has the mutex (`CallOK`). The refinement
needs besides that a call's clock is not ahead of time, so that what was stale when it began still is.

*Process.* `LifeInv` bounds the lease from below: what is left on the router is at least `Lease` less the time since
the last refresh that succeeded, and `Maintain`'s clock is at most `Interval`, half a lease. A refresh that
fails stops the relay, so the bound does not have to survive it.

*Start.* `DeploymentInv` is `LifeInv` and `StartInv`, which says what the directory holds at each step (`Written`).
The certificate is written first, and until the key follows, the key on disk is not the new pair's. A
process past these steps has both files whole, of the pair it serves, for its name and not due. Being
killed between the writes leaves a torn file or two of different pairs, which no later start serves. `Linked` ties
`Start`'s steps to `main`'s.

*What a relay was started with.* `StartedInv` follows a configuration through a life: from the flags on, `start` is what was
chosen, except for the address that `Open` filled in (`Configured`); a step of `Start` has behind it the tests that come before
it, and an announcer has all of them (`Passed`); and what the process holds fits the step it is at (`Holding`): nothing before the database is opened, then
at most the database, then at most the tickets, so that what the deferred function and the failing step close between them is
everything (`DeferredCloses`, from which `FailedStartsHoldNothing`). A process that has
ended keeps its `step` until the next begins, which is why `Configured` speaks of both `pc` and `step`. The four properties of
`AnnouncementProofs` are then facts about operators, applied to what `StartedInv` says of the running relay.

*Operators for every input.* The prover cannot use the library's induction theorems, which take an operator. The ones here take a set
instead: a set of numbers that has 0, and n + 1 with n, has all of them (`Induction`, and `InductionTo` below a bound). They rest on
`Least`, which the library's well-foundedness of `<` gives. `Recursion` shows from them that the function a recursive definition names
exists: it is the union of its finite approximations. The definitions of the model are then unfolded one by one
(`GroupBytesUnfolds`, `EncodeGroupsUnfolds`, `ValueUnfolds`, `DecodeUnfolds`). `Sorted` is a `CHOOSE`, so that its result
has to be shown to exist (`Enumerable`).

*Addresses.* The code tests octets, the registry is made of intervals of networks. `RefusedBlocks` turns each interval into conditions on
octets, and each test is compared with them block by block, for all octets and both spellings (`RoutableV4`, `MappableV4`, `AllowedV4`).
The registry and 192.0.0.0/16 together are exactly what `publiclyRoutable` refuses of IPv4; the theorem says the two
directions apart, so that what the code refuses beyond the registry is in sight.

*The codec.* Lengths agree because both loops divide by the base until the group is below it (`GroupBytesAgree`), and a group of 31 bits takes at most
five bytes (`FiveBytes`). For one group, its digits are canonical and have its value (`EncodedDigits`, `EncodedCanonical`), and canonical digits
are the encoding of their value (`DigitsEncode`); without the test for a last zero the second fails. For a list, reading `n` groups
consumes exactly the encoding of the first `n` (`Begins`, `PackedStarts`), in both directions. Bases 2 and 128 are those for which
division is known to the solver (`BasesDivide`); everything else holds for any base.

Only model-checked: all liveness, under fairness, for which TLAPS has no backend here.

## Not modelled

* The discovery announcer (`scripts/masque_relay_discovery.py`) is a process of its own around the
  Reticulum library, which is not in the repository: its threads, links and timers are the
  library's. `Lifecycle` has its start, failure and end, and `Announcement` the part of its payload that
  `Start` must foresee.
* `strictJSON` parses one request and keeps no state. A request it refuses is a refusal of
  `TicketIssuance` or `TicketRedemption`.
* The test client parses its configuration, dials and copies. That a client refuses a certificate which ended while the relay ran
  is out of sight: `Start` looks at the end of a certificate once, and so does the model.
* The base58 functions of `access.go` keep no state, and the quota and the caches are keyed by the address that
  `addressForKey` computes from the key, not by what a client spelled.
* Of the QUIC and HTTP/3 library, only the queues that the repository patches or relies on are modelled.
  The rest appears as the events the relay sees.
* RSA, hashing and signatures are abstracted to identities and to the choice of being refused.
* Statistics and logging are left out.
* The code's numeric limits (8 slots, 256 challenges, 24 tickets, 100000 records, 512 connections)
  are constants of the models.
