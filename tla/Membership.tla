------------------------------ MODULE Membership -------------------------------
(***************************************************************************)
(* Membership lookups (internal/relay/access.go, membership, checkGroups,   *)
(* checkGroup, coreFailed): one lookup per address at a time, whose answer   *)
(* the others wait for; a goroutine per allowed group, which asks the Core   *)
(* endpoints in turn; the policy-wide slots, the demotion of failed         *)
(* endpoints and the cache.                                                 *)
(*                                                                         *)
(* A caller calls membership once, so it also names the lookup it leads.    *)
(* The goroutines of a lookup may outlive the call.                         *)
(***************************************************************************)
EXTENDS Integers, Sequences, FiniteSets

CONSTANTS
  Callers,      \* calls of membership
  Addresses,    \* Qortal addresses
  AllowedGroups,\* config.AllowedGroupIDs
  CoreURLBases, \* config.CoreURLBases, in the order of the configuration
  Slots,        \* Core requests at once, for all lookups (16)
  Parallel,     \* group lookups at once, for one address (4)
  PendingCap,   \* lookups at once (128)
  CacheCap      \* cached answers (4096)

Bases == {CoreURLBases[i] : i \in DOMAIN CoreURLBases}

ASSUME MembershipAssumption ==
  /\ CoreURLBases \in Seq(Bases) /\ CoreURLBases # <<>>
  /\ Slots \in Nat \ {0} /\ Parallel \in Nat \ {0} /\ PendingCap \in Nat /\ CacheCap \in Nat \ {0}

VARIABLES
  caller,      \* where each call is
  pending,     \* p.pending: the callers that lead a lookup
  cache,       \* p.cache: the answers that are less than 30 s old
  coreFailures,\* p.coreFailures: the endpoints demoted for now, and (history) why
  slots,       \* len(p.slots)
  parallel,    \* len(parallel), per lookup
  cancelled,   \* is the lookup's context over?
  unresolved,  \* unresolved # nil, per lookup
  worker,      \* the goroutine of each lookup and group
  said         \* history: the valid answer each goroutine got

lookupVars == <<cancelled, unresolved, worker, parallel, said>>
memberVars == <<caller, pending, cache, coreFailures, slots, lookupVars>>

Results == {"member", "nonmember", "error"}
NotStarted == [step |-> "none"]
InStep(l, g, step) == worker[l][g].step = step

CallerStates ==
  [pc: {"idle"}] \union [pc: {"call", "lead"}, addr: Addresses]
    \union [pc: {"wait"}, addr: Addresses, on: Callers]
    \union [pc: {"end"}, addr: Addresses, result: Results, from: Callers]

WorkerStates ==
  [step: {"none", "queued", "collected"}] \union [step: {"done"}, result: Results]
    \union [step: {"want", "asking", "reading"}, left: SUBSET DOMAIN CoreURLBases]

MembershipShape ==
  /\ caller \in [Callers -> CallerStates]
  /\ pending \subseteq Callers
  /\ cache \subseteq [addr: Addresses, result: Results \ {"error"}, from: Callers]
  /\ unresolved \in [Callers -> BOOLEAN]
  /\ worker \in [Callers -> [AllowedGroups -> WorkerStates]]
  /\ said \in [Callers -> [AllowedGroups -> {"nothing", "member", "nonmember"}]]

MembershipTypeOK ==
  /\ MembershipShape
  /\ Cardinality(pending) <= PendingCap
  /\ Cardinality(cache) <= CacheCap
  /\ coreFailures \in [Bases -> {"healthy", "failed", "cutoff"}]
  /\ slots \in 0 .. Slots
  /\ parallel \in [Callers -> 0 .. Parallel]
  /\ cancelled \in [Callers -> BOOLEAN]

MembershipInit ==
  /\ caller = [l \in Callers |-> [pc |-> "idle"]]
  /\ pending = {} /\ cache = {} /\ slots = 0
  /\ coreFailures = [b \in Bases |-> "healthy"]
  /\ parallel = [l \in Callers |-> 0]
  /\ cancelled = [l \in Callers |-> FALSE]
  /\ unresolved = [l \in Callers |-> FALSE]
  /\ worker = [l \in Callers |-> [g \in AllowedGroups |-> NotStarted]]
  /\ said = [l \in Callers |-> [g \in AllowedGroups |-> "nothing"]]

--------------------------------------------------------------------------------
(* membership. *)

Turns(l, state) == caller' = [caller EXCEPT ![l] = state]
Ends(l, result, from) ==
  Turns(l, [pc |-> "end", addr |-> caller[l].addr, result |-> result, from |-> from])

Called(l, a) ==
  /\ caller[l].pc = "idle"
  /\ Turns(l, [pc |-> "call", addr |-> a])
  /\ UNCHANGED <<pending, cache, coreFailures, slots, lookupVars>>

TableFull == Cardinality(pending) >= PendingCap
LeaderFor(a) == {m \in pending : caller[m].addr = a}
CacheFor(a) == {c \in cache : c.addr = a}

\* One turn of membership's loop: a cached answer, a lookup to wait for, a full table, or
\* a lookup of its own.
Looks(l) ==
  LET a == caller[l].addr
  IN /\ caller[l].pc = "call"
     /\ \/ /\ \E c \in CacheFor(a) : Ends(l, c.result, c.from)
           /\ UNCHANGED <<pending, worker>>
        \/ /\ CacheFor(a) = {}
           /\ \E m \in LeaderFor(a) : Turns(l, [pc |-> "wait", addr |-> a, on |-> m])
           /\ UNCHANGED <<pending, worker>>
        \/ /\ CacheFor(a) = {} /\ LeaderFor(a) = {}
           /\ IF TableFull
              THEN Ends(l, "error", l) /\ UNCHANGED <<pending, worker>>
              ELSE /\ Turns(l, [pc |-> "lead", addr |-> a])
                   /\ pending' = pending \union {l}
                   /\ worker' = [worker EXCEPT ![l] = [g \in AllowedGroups |-> [step |-> "queued"]]]
     /\ UNCHANGED <<cache, coreFailures, slots, cancelled, unresolved, parallel, said>>

\* The lookup it waited for is over (done is closed): look again.
Wakes(l) ==
  /\ caller[l].pc = "wait" /\ caller[l].on \notin pending
  /\ Turns(l, [pc |-> "call", addr |-> caller[l].addr])
  /\ UNCHANGED <<pending, cache, coreFailures, slots, lookupVars>>

\* Its request ended while it waited.
GivesUp(l) ==
  /\ caller[l].pc = "wait"
  /\ Ends(l, "error", l)
  /\ UNCHANGED <<pending, cache, coreFailures, slots, lookupVars>>

\* Mutant: a lookup that failed stays in the table.
UnpendResolved(l, result) == pending' = IF result = "error" THEN pending ELSE pending \ {l}

Unpend(l, result) == pending' = pending \ {l}

\* A full cache drops some answer for the new one.
Caches(l, result) ==
  LET entry == [addr |-> caller[l].addr, result |-> result, from |-> l]
  IN IF result = "error" THEN UNCHANGED cache
     ELSE IF Cardinality(cache) < CacheCap THEN cache' = cache \union {entry}
     ELSE \E c \in cache : cache' = (cache \ {c}) \union {entry}

\* checkGroups returns, cancelling what is left of the lookup, and membership stores the
\* answer and wakes those who wait.
Finishes(l, result) ==
  /\ cancelled' = [cancelled EXCEPT ![l] = TRUE]
  /\ Caches(l, result)
  /\ Unpend(l, result)
  /\ Ends(l, result, l)

--------------------------------------------------------------------------------
(* checkGroups: results in the order in which they come. *)

Becomes(l, g, state) == worker' = [worker EXCEPT ![l][g] = state]

Collects(l, g) ==
  /\ caller[l].pc = "lead" /\ InStep(l, g, "done")
  /\ Becomes(l, g, [step |-> "collected"])
  /\ IF worker[l][g].result = "member"
     THEN Finishes(l, "member") /\ UNCHANGED unresolved
     ELSE /\ unresolved' = [unresolved EXCEPT ![l] = @ \/ worker[l][g].result = "error"]
          /\ UNCHANGED <<caller, pending, cache, cancelled>>
  /\ UNCHANGED <<coreFailures, slots, parallel, said>>

\* Mutant: groups that could not be asked count as negatives.
VerdictOpen(l) == "nonmember"

Verdict(l) == IF unresolved[l] THEN "error" ELSE "nonmember"

Concludes(l) ==
  /\ caller[l].pc = "lead"
  /\ \A g \in AllowedGroups : InStep(l, g, "collected")
  /\ Finishes(l, Verdict(l))
  /\ UNCHANGED <<coreFailures, slots, unresolved, worker, parallel, said>>

\* The caller's request ends, or six seconds have passed.
ContextEnds(l) ==
  /\ caller[l].pc = "lead" /\ ~cancelled[l]
  /\ cancelled' = [cancelled EXCEPT ![l] = TRUE]
  /\ UNCHANGED <<caller, pending, cache, coreFailures, slots, unresolved, worker, parallel, said>>

--------------------------------------------------------------------------------
(* The goroutine of group g, and checkGroup. *)

Sends(l, g, result) ==
  /\ Becomes(l, g, [step |-> "done", result |-> result])
  /\ parallel' = [parallel EXCEPT ![l] = IF InStep(l, g, "queued") THEN @ ELSE @ - 1]

First(indexes) == CHOOSE i \in indexes : \A j \in indexes : i <= j

\* Its turn comes; the endpoints that are not coreFailures, or all of them.
TakesTurn(l, g) ==
  LET healthy == {i \in DOMAIN CoreURLBases : coreFailures[CoreURLBases[i]] = "healthy"}
  IN /\ InStep(l, g, "queued") /\ parallel[l] < Parallel
     /\ parallel' = [parallel EXCEPT ![l] = @ + 1]
     /\ Becomes(l, g, [step |-> "want", left |-> IF healthy = {} THEN DOMAIN CoreURLBases ELSE healthy])
     /\ UNCHANGED <<caller, pending, cache, coreFailures, slots, cancelled, unresolved, said>>

\* The context is over before a turn or a slot is had.
Abandons(l, g) ==
  /\ InStep(l, g, "queued") \/ (InStep(l, g, "want") /\ worker[l][g].left # {})
  /\ cancelled[l]
  /\ Sends(l, g, "error")
  /\ UNCHANGED <<caller, pending, cache, coreFailures, slots, cancelled, unresolved, said>>

Asks(l, g) ==
  /\ InStep(l, g, "want") /\ worker[l][g].left # {} /\ slots < Slots
  /\ slots' = slots + 1
  /\ Becomes(l, g, [worker[l][g] EXCEPT !.step = "asking"])
  /\ UNCHANGED <<caller, pending, cache, coreFailures, cancelled, unresolved, parallel, said>>

\* Mutant: a cancelled request keeps its slot.
FreeSlotUnlessCancelled(l) == slots' = IF cancelled[l] THEN slots ELSE slots - 1

FreeSlot(l) == slots' = slots - 1

Asked(l, g) == CoreURLBases[First(worker[l][g].left)]
coreFailed(b, why) ==
  coreFailures' = [coreFailures EXCEPT ![b] = IF @ = "healthy" THEN why ELSE @]
NextBase(l, g) ==
  /\ Becomes(l, g, [step |-> "want", left |-> worker[l][g].left \ {First(worker[l][g].left)}])
  /\ UNCHANGED <<caller, pending, cache, cancelled, unresolved, parallel, said>>

\* No response: the endpoint is demoted unless the context is what ended the request.
RequestFails(l, g) ==
  /\ InStep(l, g, "asking")
  /\ IF cancelled[l] THEN UNCHANGED coreFailures ELSE coreFailed(Asked(l, g), "failed")
  /\ FreeSlot(l)
  /\ NextBase(l, g)

\* client.Do returns a response, whose body is still to be read; it does not once the
\* context is over.
Responds(l, g) ==
  /\ InStep(l, g, "asking") /\ ~cancelled[l]
  /\ Becomes(l, g, [worker[l][g] EXCEPT !.step = "reading"])
  /\ UNCHANGED <<caller, pending, cache, coreFailures, slots, cancelled, unresolved, parallel, said>>

\* The body cannot be read to its end, which the context may have caused, or it is not a
\* valid answer.
ResponseFails(l, g) ==
  /\ InStep(l, g, "reading")
  /\ \/ coreFailed(Asked(l, g), "failed")
     \/ cancelled[l] /\ coreFailed(Asked(l, g), "cutoff")
  /\ FreeSlot(l)
  /\ NextBase(l, g)

\* A valid answer, positive or negative, is final.
Answers(l, g, result) ==
  /\ InStep(l, g, "reading")
  /\ FreeSlot(l)
  /\ Sends(l, g, result)
  /\ said' = [said EXCEPT ![l][g] = result]
  /\ UNCHANGED <<caller, pending, cache, coreFailures, cancelled, unresolved>>

\* Every endpoint has failed.
Exhausts(l, g) ==
  /\ InStep(l, g, "want") /\ worker[l][g].left = {}
  /\ Sends(l, g, "error")
  /\ UNCHANGED <<caller, pending, cache, coreFailures, slots, cancelled, unresolved, said>>

WorkerStep(l, g) ==
  \/ TakesTurn(l, g) \/ Abandons(l, g) \/ Asks(l, g) \/ Exhausts(l, g)
  \/ RequestFails(l, g) \/ Responds(l, g) \/ ResponseFails(l, g)
  \/ \E result \in {"member", "nonmember"} : Answers(l, g, result)

--------------------------------------------------------------------------------
(* Five seconds of demotion, or thirty of a cached answer, pass. *)

DemotionEnds ==
  /\ \E b \in Bases : /\ coreFailures[b] # "healthy"
                      /\ coreFailures' = [coreFailures EXCEPT ![b] = "healthy"]
  /\ UNCHANGED <<caller, pending, cache, slots, lookupVars>>

AnswerAges ==
  /\ \E c \in cache : cache' = cache \ {c}
  /\ UNCHANGED <<caller, pending, coreFailures, slots, lookupVars>>

CallerStep(l) ==
  \/ Looks(l) \/ Wakes(l) \/ Concludes(l)
  \/ \E g \in AllowedGroups : Collects(l, g)

MembershipNext ==
  \/ \E l \in Callers :
       \/ \E a \in Addresses : Called(l, a)
       \/ CallerStep(l) \/ GivesUp(l) \/ ContextEnds(l)
       \/ \E g \in AllowedGroups : WorkerStep(l, g)
  \/ DemotionEnds \/ AnswerAges

\* Some goroutine runs when one can, the HTTP client gives every request an outcome within
\* its timeout, and a lookup's context ends after six seconds.
MembershipFairness ==
  WF_memberVars(\E l \in Callers :
    CallerStep(l) \/ ContextEnds(l) \/ \E g \in AllowedGroups : WorkerStep(l, g))

MembershipSpec == MembershipInit /\ [][MembershipNext]_memberVars
MembershipFairSpec == MembershipSpec /\ MembershipFairness

--------------------------------------------------------------------------------
(* Properties. *)

HoldsSlot(l, g) == InStep(l, g, "asking") \/ InStep(l, g, "reading")

Justified(result, from) ==
  /\ result = "member" => \E g \in AllowedGroups : said[from][g] = "member"
  /\ result = "nonmember" => \A g \in AllowedGroups : said[from][g] = "nonmember"

\* Every answer given, cached or shared with those who waited, is one the Core gave: a
\* positive from some allowed group, a negative only when every group was asked and said
\* so.  Failures, failover, cancellation and the order of results never turn into either
\* (checkGroups; ACCESS.md, "If membership cannot be established, admission fails closed").
AnswersJustified ==
  /\ \A l \in Callers : caller[l].pc = "end" => Justified(caller[l].result, caller[l].from)
  /\ \A c \in cache : Justified(c.result, c.from)

\* The policy's slots and a lookup's turns are exactly those in use, by goroutines whose
\* call is over included: no error path of checkGroup loses one, and the tables keep their
\* caps (membership, checkGroups, checkGroup).
SlotsAccounted ==
  /\ MembershipTypeOK
  /\ slots = Cardinality({w \in Callers \X AllowedGroups : HoldsSlot(w[1], w[2])})
  /\ \A l \in Callers :
       parallel[l] = Cardinality({g \in AllowedGroups : HoldsSlot(l, g) \/ InStep(l, g, "want")})

\* Every call of membership returns, though the lookup it waits for may be cancelled or
\* fail, and every goroutine it started ends, though nobody may collect its result.
LookupsEnd ==
  \A l \in Callers :
    caller[l].pc # "idle" ~>
      /\ caller[l].pc = "end"
      /\ \A g \in AllowedGroups : worker[l][g].step \in {"none", "done", "collected"}

\* "Temporarily demote failed Core endpoints, preserving configured order among healthy
\* endpoints" (access.go, checkGroup): no endpoint is demoted because the relay itself ended
\* the request.
HealthyKeepTheirPlace == \A b \in Bases : coreFailures[b] # "cutoff"
================================================================================
