----------------------------- MODULE TunnelsProofs -----------------------------
(***************************************************************************)
(* The counters of connections and sessions, the pending expiry of every     *)
(* open connection and the order of Close, for every number of connections,  *)
(* requests, sources and every value of the caps and bounds (RelaySessions); *)
(* then the goroutines of the tunnels: no wakeup is lost, none is left       *)
(* behind, and they implement the one-state tunnel of RelaySessions, for     *)
(* every length of the send queue.                                           *)
(***************************************************************************)
EXTENDS Tunnels, FiniteSetTheorems, TLAPS

\* A connection's callback has been started only if the connection is closed.
CallbackState == \A c \in Conns : callback[c] # "none" => conn[c] = "closed"

ConnInv == ConnTypeOK /\ CallbackState /\ ConnectionsCounted /\ ExpiryPending

\* The connections the counters should count, of one source and of all.
CountedOf(s) == {c \in Conns : source[c] = s /\ (conn[c] = "open" \/ callback[c] = "count")}
CountedAll == {c \in Conns : conn[c] = "open" \/ callback[c] = "count"}
Counts ==
  /\ connectionCount = Cardinality(CountedAll)
  /\ \A s \in Sources : connections[s] = Cardinality(CountedOf(s))

\* Every connection has a source, so the total is over all of them.
LEMMA CountsEquivalent == ASSUME ConnTypeOK PROVE ConnectionsCounted <=> Counts
<1>1. UNION {CountedOf(s) : s \in Sources} = CountedAll
  BY DEF CountedOf, CountedAll, ConnTypeOK
<1> QED BY <1>1, Zenon DEF ConnectionsCounted, Counts, CountedOf, CountedAll

\* The counted sets are finite.
LEMMA CountedFinite ==
  /\ IsFiniteSet(CountedAll)
  /\ \A s : IsFiniteSet(CountedOf(s))
<1>1. IsFiniteSet(Conns)
  BY ConnectionAssumption, Zenon
<1>2. CountedAll \in SUBSET Conns /\ \A s : CountedOf(s) \in SUBSET Conns
  BY Zenon DEF CountedAll, CountedOf
<1> QED BY <1>1, <1>2, FS_Subset, Zenon

\* A step that neither opens, closes nor counts a connection.
LEMMA CountsKept ==
  ASSUME Counts, UNCHANGED <<conn, source, callback, connectionCount, connections>>
  PROVE  Counts'
BY Zenon DEF Counts, CountedAll, CountedOf

\* A closed connection stays counted until its callback has run.
LEMMA CountsClosing ==
  ASSUME ConnTypeOK, Counts, NEW c \in Conns, conn[c] = "open", Close(c),
         UNCHANGED <<source, connectionCount, connections>>
  PROVE  Counts'
<1>1. CountedAll' = CountedAll
  BY Zenon DEF CountedAll, Close, ConnTypeOK
<1>2. \A s : CountedOf(s)' = CountedOf(s)
  BY Zenon DEF CountedOf, Close, ConnTypeOK
<1> QED BY <1>1, <1>2, Zenon DEF Counts

\* connectionContext counts one connection more.
LEMMA CountsAccept ==
  ASSUME ConnInv, Counts, NEW c \in Conns, Accept(c)
  PROVE  Counts' /\ connectionCount' \in 0 .. ConnCap
                 /\ connections' \in [Sources -> 0 .. SourceConnCap]
<1> USE DEF ConnInv
<1>0. callback[c] # "count" /\ source[c] \in Sources /\ conn[c] # "open" /\ source' = source
  BY Zenon DEF CallbackState, Accept, ConnTypeOK
<1>1. CountedAll' = CountedAll \cup {c} /\ c \notin CountedAll
  BY <1>0, Zenon DEF CountedAll, Accept, ConnTypeOK
<1>2. CountedOf(source[c])' = CountedOf(source[c]) \cup {c} /\ c \notin CountedOf(source[c])
  BY <1>0, Zenon DEF CountedOf, Accept, ConnTypeOK
<1>3. \A s : s # source[c] => CountedOf(s)' = CountedOf(s)
  BY Zenon DEF CountedOf, Accept, ConnTypeOK
<1>4. Cardinality(CountedAll') = Cardinality(CountedAll) + 1
  BY <1>1, CountedFinite, FS_AddElement, Zenon
<1>5. Cardinality(CountedOf(source[c])') = Cardinality(CountedOf(source[c])) + 1
  BY <1>2, CountedFinite, FS_AddElement, Zenon
<1>6. connectionCount' = connectionCount + 1 /\ connectionCount < ConnCap
      /\ connections[source[c]] < SourceConnCap
      /\ connections' = [connections EXCEPT ![source[c]] = connections[source[c]] + 1]
  BY Zenon DEF Accept
<1>7. ASSUME NEW s \in Sources PROVE connections'[s] = Cardinality(CountedOf(s)')
  <2>1. connections[s] = Cardinality(CountedOf(s)) /\ connections \in [Sources -> 0 .. SourceConnCap]
    BY Zenon DEF Counts, ConnTypeOK
  <2>2. CASE s = source[c]
    BY <1>0, <1>5, <1>6, <2>1, <2>2, Zenon
  <2>3. CASE s # source[c]
    BY <1>0, <1>3, <1>6, <2>1, <2>3, Zenon
  <2> QED BY <2>2, <2>3, Zenon
<1> QED BY <1>0, <1>4, <1>6, <1>7, ConnectionAssumption DEF Counts, ConnTypeOK

\* The callback uncounts its connection, which was counted.
LEMMA CountsCallback ==
  ASSUME ConnInv, Counts, NEW c \in Conns, CallbackCounts(c)
  PROVE  Counts' /\ connectionCount' \in 0 .. ConnCap
                 /\ connections' \in [Sources -> 0 .. SourceConnCap]
<1> USE DEF ConnInv
<1>0. callback[c] = "count" /\ conn[c] = "closed" /\ source[c] \in Sources
      /\ conn' = conn /\ source' = source
      /\ callback' = [callback EXCEPT ![c] = IF Groups THEN "stop" ELSE "done"]
      /\ connectionCount' = connectionCount - 1
      /\ connections' = [connections EXCEPT ![source[c]] = connections[source[c]] - 1]
  BY Zenon DEF CallbackState, CallbackCounts, ConnTypeOK, Uncount
<1>1. CountedAll' = CountedAll \ {c} /\ c \in CountedAll
  BY <1>0, Zenon DEF CountedAll, ConnTypeOK
<1>2. CountedOf(source[c])' = CountedOf(source[c]) \ {c} /\ c \in CountedOf(source[c])
  BY <1>0, Zenon DEF CountedOf, ConnTypeOK
<1>3. \A s : s # source[c] => CountedOf(s)' = CountedOf(s)
  BY <1>0, Zenon DEF CountedOf, ConnTypeOK
<1>4. Cardinality(CountedAll') = Cardinality(CountedAll) - 1 /\ Cardinality(CountedAll) # 0
  BY <1>1, CountedFinite, FS_RemoveElement, FS_EmptySet, Zenon
<1>5. Cardinality(CountedOf(source[c])') = Cardinality(CountedOf(source[c])) - 1
      /\ Cardinality(CountedOf(source[c])) # 0
  BY <1>2, CountedFinite, FS_RemoveElement, FS_EmptySet, Zenon
<1>6. ASSUME NEW s \in Sources PROVE connections'[s] = Cardinality(CountedOf(s)')
  <2>1. connections[s] = Cardinality(CountedOf(s)) /\ connections \in [Sources -> 0 .. SourceConnCap]
    BY Zenon DEF Counts, ConnTypeOK
  <2>2. CASE s = source[c]
    BY <1>0, <1>5, <2>1, <2>2, Zenon
  <2>3. CASE s # source[c]
    BY <1>0, <1>3, <2>1, <2>3, Zenon
  <2> QED BY <2>2, <2>3, Zenon
<1>7. connectionCount' \in 0 .. ConnCap
  <2>1. connectionCount # 0
    BY <1>4, Zenon DEF Counts
  <2>2. connectionCount \in 0 .. ConnCap
    BY Zenon DEF ConnTypeOK
  <2> QED BY <1>0, <2>1, <2>2, ConnectionAssumption
<1>8. connections[source[c]] # 0 /\ connections \in [Sources -> 0 .. SourceConnCap]
  BY <1>0, <1>5, Zenon DEF Counts, ConnTypeOK
<1>9. connections[source[c]] - 1 \in 0 .. SourceConnCap
  BY <1>0, <1>8, ConnectionAssumption
<1>10. connections' \in [Sources -> 0 .. SourceConnCap]
  BY <1>0, <1>8, <1>9, Zenon
<1> QED BY <1>0, <1>4, <1>6, <1>7, <1>10, Zenon DEF Counts

--------------------------------------------------------------------------------
(* Types and pending expiry, one action at a time. *)

\* The end of one connection is pending.
Pending(c) ==
  \/ timer[c] = [gen |-> timerGeneration[c], at |-> allowedUntil[c]]
  \/ \E x \in expiring : x.conn = c /\ x.gen = timerGeneration[c]

\* What ConnInv says, in the terms of this module.
LEMMA ConnInvMeaning ==
  ASSUME ConnTypeOK
  PROVE  ConnInv <=> /\ CallbackState /\ Counts
                     /\ \A c \in Conns : Groups /\ conn[c] = "open" => Pending(c)
BY CountsEquivalent, Zenon DEF ConnInv, ExpiryPending, Pending

\* The same in the next state.
LEMMA ConnInvNext ==
  ASSUME ConnTypeOK', CallbackState', Counts',
         \A c \in Conns : Groups /\ conn'[c] = "open" => Pending(c)'
  PROVE  ConnInv'
<1>1. UNION {CountedOf(s)' : s \in Sources} = CountedAll'
  BY DEF CountedOf, CountedAll, ConnTypeOK
<1>2. ConnectionsCounted'
  BY <1>1, Zenon DEF ConnectionsCounted, Counts, CountedOf, CountedAll
<1>3. ExpiryPending'
  BY Zenon DEF ExpiryPending, Pending
<1> QED BY <1>2, <1>3, Zenon DEF ConnInv

\* Due times stay within their bound.
LEMMA DueTimes ==
  ASSUME ConnTypeOK, NEW lease \in 0 .. MaxLease
  PROVE  now + Grace \in Times /\ now + lease \in Times
<1>1. now \in 0 .. MaxTime
  BY Zenon DEF ConnTypeOK
<1> QED BY <1>1, ConnectionAssumption DEF Times

\* connectionContext admits a connection and arms its timer.
LEMMA AcceptKeeps ==
  ASSUME ConnInv, NEW c \in Conns, Accept(c)
  PROVE  ConnInv'
<1>0. ConnTypeOK /\ CallbackState /\ Counts /\ ExpiryPending
  BY CountsEquivalent, Zenon DEF ConnInv
<1>1. Counts' /\ connectionCount' \in 0 .. ConnCap /\ connections' \in [Sources -> 0 .. SourceConnCap]
  BY <1>0, CountsAccept, Zenon
<1>2. ConnTypeOK'
  <2>1. now + Grace \in Times
    BY <1>0, DueTimes, ConnectionAssumption
  <2>2. timer' \in [Conns -> [gen: Nat, at: Times]] /\ timerGeneration' \in [Conns -> Nat]
    <3>1. [gen |-> 1, at |-> now + Grace] \in [gen: Nat, at: Times]
      BY <2>1, Zenon
    <3>2. timer \in [Conns -> [gen: Nat, at: Times]] /\ timerGeneration \in [Conns -> Nat]
      BY <1>0, Zenon DEF ConnTypeOK
    <3>3. CASE Groups
      BY <3>1, <3>2, <3>3, Zenon DEF Accept, Arm
    <3>4. CASE ~Groups
      BY <3>2, <3>4, Zenon DEF Accept
    <3> QED BY <3>3, <3>4, Zenon
  <2> QED BY <1>0, <1>1, <2>1, <2>2, Zenon DEF Accept, ConnTypeOK
<1>3. CallbackState'
  BY <1>0, Zenon DEF Accept, CallbackState, ConnTypeOK
<1>4. ASSUME NEW d \in Conns, Groups, conn'[d] = "open" PROVE Pending(d)'
  BY <1>0, <1>4 DEF Accept, Arm, Pending, ExpiryPending, ConnTypeOK
<1> QED BY <1>1, <1>2, <1>3, <1>4, ConnInvNext, Zenon

\* connectionContext refuses one at a cap.
LEMMA RefuseKeeps ==
  ASSUME ConnInv, NEW c \in Conns, Refuse(c)
  PROVE  ConnInv'
<1>0. ConnTypeOK /\ CallbackState /\ Counts /\ ExpiryPending
  BY CountsEquivalent, Zenon DEF ConnInv
<1>1. ConnTypeOK'
  BY <1>0, Zenon DEF Refuse, ConnTypeOK, countVars, authVars
<1>2. CallbackState'
  BY <1>0, Zenon DEF Refuse, CallbackState, ConnTypeOK
<1>3. CountedAll' = CountedAll /\ \A s : CountedOf(s)' = CountedOf(s)
  BY <1>0, Zenon DEF Refuse, CountedAll, CountedOf, ConnTypeOK
<1>4. Counts'
  BY <1>0, <1>3, Zenon DEF Refuse, Counts, countVars
<1>5. ASSUME NEW d \in Conns, Groups, conn'[d] = "open" PROVE Pending(d)'
  BY <1>0, <1>5, Zenon DEF Refuse, Pending, ExpiryPending, ConnTypeOK, authVars
<1> QED BY <1>1, <1>2, <1>4, <1>5, ConnInvNext, Zenon

\* A connection is closed: by its peer, by the server, or by a call of expire that ends.
LEMMA CloseKeeps ==
  ASSUME ConnInv, NEW c \in Conns, conn[c] = "open", Close(c),
         \/ expiring' = expiring
         \/ \E x \in expiring : x.conn = c /\ expiring' = expiring \ {x},
         UNCHANGED <<now, source, countVars, authVars, mu, redeemed, allowedUntil>>
  PROVE  ConnInv'
<1>0. ConnTypeOK /\ CallbackState /\ Counts /\ ExpiryPending
  BY CountsEquivalent, Zenon DEF ConnInv
<1>1. ConnTypeOK'
  BY <1>0, Zenon DEF Close, ConnTypeOK, countVars, authVars
<1>2. CallbackState'
  BY <1>0, Zenon DEF Close, CallbackState, ConnTypeOK
<1>3. Counts'
  BY <1>0, CountsClosing, Zenon DEF countVars
<1>4. ASSUME NEW d \in Conns, Groups, conn'[d] = "open" PROVE Pending(d)'
  <2>1. d # c /\ conn[d] = "open"
    BY <1>0, <1>4, Zenon DEF Close, ConnTypeOK
  <2>2. \A x \in expiring : x.conn = d => x \in expiring'
    BY <2>1, Zenon
  <2> QED BY <1>0, <1>4, <2>1, <2>2, Zenon DEF Pending, ExpiryPending, authVars
<1> QED BY <1>1, <1>2, <1>3, <1>4, ConnInvNext, Zenon

\* The callback of a closed connection gives its place back.
LEMMA CallbackCountsKeeps ==
  ASSUME ConnInv, NEW c \in Conns, CallbackCounts(c)
  PROVE  ConnInv'
<1>0. ConnTypeOK /\ CallbackState /\ Counts /\ ExpiryPending
  BY CountsEquivalent, Zenon DEF ConnInv
<1>1. Counts' /\ connectionCount' \in 0 .. ConnCap /\ connections' \in [Sources -> 0 .. SourceConnCap]
  BY <1>0, CountsCallback, Zenon
<1>2. ConnTypeOK'
  BY <1>0, <1>1, Zenon DEF CallbackCounts, ConnTypeOK, authVars
<1>3. CallbackState'
  BY <1>0, Zenon DEF CallbackCounts, CallbackState, ConnTypeOK
<1>4. ASSUME NEW d \in Conns, Groups, conn'[d] = "open" PROVE Pending(d)'
  BY <1>0, <1>4, Zenon DEF CallbackCounts, Pending, ExpiryPending, authVars
<1> QED BY <1>1, <1>2, <1>3, <1>4, ConnInvNext, Zenon

\* The callback stops the timer of a connection that is closed.
LEMMA CallbackStopsKeeps ==
  ASSUME ConnInv, NEW c \in Conns, CallbackStops(c)
  PROVE  ConnInv'
<1>0. ConnTypeOK /\ CallbackState /\ Counts /\ ExpiryPending
  BY CountsEquivalent, Zenon DEF ConnInv
<1>1. conn[c] = "closed"
  BY <1>0, Zenon DEF CallbackStops, CallbackState
<1>2. ConnTypeOK'
  <2>1. NoTimer \in [gen: Nat, at: Times]
    BY ConnectionAssumption DEF NoTimer, Times
  <2> QED BY <1>0, <2>1, Zenon DEF CallbackStops, ConnTypeOK, countVars
<1>3. CallbackState'
  BY <1>0, <1>1, Zenon DEF CallbackStops, CallbackState, ConnTypeOK
<1>4. CountedAll' = CountedAll /\ \A s : CountedOf(s)' = CountedOf(s)
  BY <1>0, <1>1, Zenon DEF CallbackStops, CountedAll, CountedOf, ConnTypeOK
<1>5. Counts'
  BY <1>0, <1>4, Zenon DEF CallbackStops, Counts, countVars
<1>6. ASSUME NEW d \in Conns, Groups, conn'[d] = "open" PROVE Pending(d)'
  BY <1>0, <1>1, <1>6, Zenon DEF CallbackStops, Pending, ExpiryPending, ConnTypeOK
<1> QED BY <1>2, <1>3, <1>5, <1>6, ConnInvNext, Zenon

\* A timer that fires leaves a call of expire of its generation in its place.
LEMMA TimerFiresKeeps ==
  ASSUME ConnInv, NEW c \in Conns, TimerFires(c)
  PROVE  ConnInv'
<1>0. ConnTypeOK /\ CallbackState /\ Counts /\ ExpiryPending
  BY CountsEquivalent, Zenon DEF ConnInv
<1> DEFINE x == [conn |-> c, gen |-> timer[c].gen, step |-> "load"]
<1>1. x.conn = c /\ x.gen = timer[c].gen /\ x \in expiring' /\ expiring \subseteq expiring'
  BY Zenon DEF TimerFires
<1>2. x \in [conn: Conns, gen: Nat, step: {"load", "close"}]
  BY <1>0, Zenon DEF ConnTypeOK
<1>3. expiring' = expiring \union {x}
  BY Zenon DEF TimerFires
<1> HIDE DEF x
<1>4. NoTimer \in [gen: Nat, at: Times]
  BY ConnectionAssumption DEF NoTimer, Times
<1>5. ConnTypeOK'
  BY <1>0, <1>2, <1>3, <1>4, Zenon DEF TimerFires, ConnTypeOK, countVars
<1>6. CallbackState'
  BY <1>0, Zenon DEF TimerFires, CallbackState
<1>7. Counts'
  BY <1>0, CountsKept, Zenon DEF TimerFires, countVars
<1>8. ASSUME NEW d \in Conns, Groups, conn'[d] = "open" PROVE Pending(d)'
  <2>1. Pending(d)
    BY <1>0, <1>8, Zenon DEF TimerFires, ExpiryPending, Pending
  <2>2. CASE \E y \in expiring : y.conn = d /\ y.gen = timerGeneration[d]
    BY <1>1, <2>2, Zenon DEF TimerFires, Pending
  <2>3. CASE d = c /\ timer[d] = [gen |-> timerGeneration[d], at |-> allowedUntil[d]]
    BY <1>1, <2>3 DEF TimerFires, Pending
  <2>4. CASE d # c /\ timer[d] = [gen |-> timerGeneration[d], at |-> allowedUntil[d]]
    BY <1>0, <2>4, Zenon DEF TimerFires, Pending, ConnTypeOK
  <2> QED BY <2>1, <2>2, <2>3, <2>4, Zenon DEF Pending
<1> QED BY <1>5, <1>6, <1>7, <1>8, ConnInvNext, Zenon

\* A call of expire goes on if its generation is current; otherwise it was not the pending
\* one.
LEMMA ExpireLoadsKeeps ==
  ASSUME ConnInv, NEW x \in expiring, ExpireLoads(x)
  PROVE  ConnInv'
<1>0. ConnTypeOK /\ CallbackState /\ Counts /\ ExpiryPending
  BY CountsEquivalent, Zenon DEF ConnInv
<1> DEFINE y == [x EXCEPT !.step = "close"]
<1>1. x \in [conn: Conns, gen: Nat, step: {"load", "close"}]
  BY <1>0, Zenon DEF ConnTypeOK
<1>2. y \in [conn: Conns, gen: Nat, step: {"load", "close"}] /\ y.conn = x.conn /\ y.gen = x.gen
  BY <1>1, Zenon
<1>3. expiring' = (expiring \ {x}) \union (IF timerGeneration[x.conn] = x.gen THEN {y} ELSE {})
  BY Zenon DEF ExpireLoads
<1> HIDE DEF y
<1>4. ConnTypeOK'
  <2>1. expiring' \subseteq [conn: Conns, gen: Nat, step: {"load", "close"}]
    BY <1>0, <1>2, <1>3, Zenon DEF ConnTypeOK
  <2> QED BY <1>0, <2>1, Zenon DEF ExpireLoads, ConnTypeOK, countVars, authVars
<1>5. CallbackState'
  BY <1>0, Zenon DEF ExpireLoads, CallbackState
<1>6. Counts'
  BY <1>0, CountsKept, Zenon DEF ExpireLoads, countVars
<1>7. ASSUME NEW d \in Conns, Groups, conn'[d] = "open" PROVE Pending(d)'
  <2>1. Pending(d)
    BY <1>0, <1>7, Zenon DEF ExpireLoads, ExpiryPending, Pending
  <2>2. ASSUME NEW z \in expiring, z.conn = d, z.gen = timerGeneration[d]
        PROVE \E w \in expiring' : w.conn = d /\ w.gen = timerGeneration[d]
    BY <1>2, <1>3, <2>2, Zenon
  <2> QED BY <2>1, <2>2, Zenon DEF ExpireLoads, Pending, authVars
<1> QED BY <1>4, <1>5, <1>6, <1>7, ConnInvNext, Zenon

\* The clock goes on.
LEMMA PassesKeeps ==
  ASSUME ConnInv, Passes
  PROVE  ConnInv'
<1>0. ConnTypeOK /\ CallbackState /\ Counts /\ ExpiryPending
  BY CountsEquivalent, Zenon DEF ConnInv
<1>1. ConnTypeOK'
  <2>1. now' \in 0 .. MaxTime
    BY <1>0, ConnectionAssumption, SMTT(30) DEF Passes, ConnTypeOK
  <2> QED BY <1>0, <2>1, Zenon DEF Passes, ConnTypeOK, countVars, authVars
<1>2. CallbackState'
  BY <1>0, Zenon DEF Passes, CallbackState
<1>3. Counts'
  BY <1>0, CountsKept, Zenon DEF Passes, countVars
<1>4. ASSUME NEW d \in Conns, Groups, conn'[d] = "open" PROVE Pending(d)'
  BY <1>0, <1>4, Zenon DEF Passes, Pending, ExpiryPending, authVars
<1> QED BY <1>1, <1>2, <1>3, <1>4, ConnInvNext, Zenon

--------------------------------------------------------------------------------
(* Requests. *)

ReqStates == {NoReq} \union Waiting \union Authorized \union Acquired

\* A request's fields, by where it is.
LEMMA ReqFields ==
  ASSUME NEW r \in ReqStates
  PROVE  /\ r.pc \in {"waiting", "redeeming"} => r \in Waiting /\ r.conn \in Conns
         /\ r.pc = "authorized" => r \in Authorized /\ r.conn \in Conns /\ r.account \in 0 .. MaxRedeemed
         /\ r.pc \in {"acquired", "tunnel", "leaving"} => r \in Acquired /\ r.conn \in Conns /\ r.key \in Keys
         /\ r.pc \notin {"waiting", "redeeming", "authorized", "acquired", "tunnel", "leaving"} => r = NoReq
BY DEF ReqStates, NoReq, Waiting, Authorized, Acquired

\* authorize up to the redemption changes attempts and the lock, and no expiry.
LEMMA DecidesKeeps ==
  ASSUME ConnInv, req \in [Reqs -> ReqStates], NEW q \in Reqs, NEW renew \in BOOLEAN, Decides(q, renew)
  PROVE  ConnInv'
<1>0. ConnTypeOK /\ CallbackState /\ Counts /\ ExpiryPending
  BY CountsEquivalent, Zenon DEF ConnInv
<1> DEFINE c == req[q].conn
           tries == IF attempts[c] > MaxAttempts THEN attempts[c] ELSE attempts[c] + 1
<1>1. c \in Conns
  BY ReqFields, Zenon DEF Decides
<1>2. tries \in 0 .. (MaxAttempts + 1)
  <2>1. attempts[c] \in 0 .. (MaxAttempts + 1)
    BY <1>0, <1>1, Zenon DEF ConnTypeOK
  <2> QED BY <2>1, ConnectionAssumption
<1>3. /\ attempts' = attempts \/ attempts' = [attempts EXCEPT ![c] = tries]
      /\ mu' = mu \/ mu' = [mu EXCEPT ![c] = q]
      /\ UNCHANGED <<now, conn, source, countVars, until, address, timerGeneration, timer,
                     expiring, callback, redeemed, allowedUntil>>
  BY Zenon DEF Decides
<1> HIDE DEF c, tries
<1>4. attempts' \in [Conns -> 0 .. (MaxAttempts + 1)] /\ mu' \in [Conns -> Reqs \union {"free"}]
  <2>1. attempts \in [Conns -> 0 .. (MaxAttempts + 1)] /\ mu \in [Conns -> Reqs \union {"free"}]
    BY <1>0, Zenon DEF ConnTypeOK
  <2>2. attempts' \in [Conns -> 0 .. (MaxAttempts + 1)]
    BY <1>2, <1>3, <2>1, Zenon
  <2>3. mu' \in [Conns -> Reqs \union {"free"}]
    BY <1>3, <2>1, Zenon
  <2> QED BY <2>2, <2>3, Zenon
<1>5. ConnTypeOK'
  BY <1>0, <1>3, <1>4, Zenon DEF ConnTypeOK, countVars
<1>6. CallbackState'
  BY <1>0, <1>3, Zenon DEF CallbackState
<1>7. Counts'
  BY <1>0, <1>3, CountsKept, Zenon DEF countVars
<1>8. ASSUME NEW d \in Conns, Groups, conn'[d] = "open" PROVE Pending(d)'
  BY <1>0, <1>3, <1>8, Zenon DEF Pending, ExpiryPending
<1> QED BY <1>5, <1>6, <1>7, <1>8, ConnInvNext, Zenon

\* A renewal arms a timer of its own generation for the new permission.
LEMMA RenewsKeeps ==
  ASSUME ConnInv, req \in [Reqs -> ReqStates], NEW q \in Reqs, NEW lease \in 0 .. MaxLease, Renews(q, lease)
  PROVE  ConnInv'
<1>0. ConnTypeOK /\ CallbackState /\ Counts /\ ExpiryPending
  BY CountsEquivalent, Zenon DEF ConnInv
<1> DEFINE c == req[q].conn
           generation == timerGeneration[c] + 1
           armed == [gen |-> generation, at |-> now + lease]
<1>1. c \in Conns
  BY ReqFields, Zenon DEF Renews
<1>2. generation \in Nat /\ redeemed + 1 \in 0 .. MaxRedeemed /\ now + lease \in Times
  <2>1. timerGeneration[c] \in Nat /\ redeemed \in 0 .. MaxRedeemed /\ redeemed < MaxRedeemed
    BY <1>0, <1>1, Zenon DEF ConnTypeOK, Renews
  <2> QED BY <1>0, <2>1, DueTimes, ConnectionAssumption, SMTT(30)
<1>3. armed \in [gen: Nat, at: Times]
  BY <1>2, Zenon
<1>4. /\ redeemed' = redeemed + 1
      /\ address' = [address EXCEPT ![c] = redeemed + 1]
      /\ until' = [until EXCEPT ![c] = now + lease]
      /\ allowedUntil' = [allowedUntil EXCEPT ![c] = now + lease]
      /\ timerGeneration' = [timerGeneration EXCEPT ![c] = generation]
      /\ attempts' = [attempts EXCEPT ![c] = 0]
      /\ timer' = [timer EXCEPT ![c] = armed]
      /\ mu' = [mu EXCEPT ![c] = "free"]
      /\ UNCHANGED <<now, conn, source, countVars, expiring, callback>>
  BY Zenon  DEF Renews, Arm
<1>5. ConnTypeOK'
  <2>1. /\ redeemed' \in 0 .. MaxRedeemed /\ address' \in [Conns -> 0 .. MaxRedeemed]
        /\ until' \in [Conns -> Times] /\ allowedUntil' \in [Conns -> Times]
        /\ timerGeneration' \in [Conns -> Nat] /\ timer' \in [Conns -> [gen: Nat, at: Times]]
    <3> HIDE DEF c, generation, armed
    <3> QED BY <1>0, <1>1, <1>2, <1>3, <1>4, Zenon DEF ConnTypeOK
  <2>2. attempts' \in [Conns -> 0 .. (MaxAttempts + 1)] /\ mu' \in [Conns -> Reqs \union {"free"}]
    BY <1>0, <1>1, <1>4, ConnectionAssumption, SMTT(30) DEF ConnTypeOK
  <2> QED BY <1>0, <1>4, <2>1, <2>2, Zenon DEF ConnTypeOK, countVars
<1>6. CallbackState'
  BY <1>0, <1>4, Zenon DEF CallbackState
<1>7. Counts'
  BY <1>0, <1>4, CountsKept, Zenon DEF countVars
<1>8. ASSUME NEW d \in Conns, Groups, conn'[d] = "open" PROVE Pending(d)'
  <2>1. CASE d = c
    <3>1. timer'[d] = armed /\ timerGeneration'[d] = generation /\ allowedUntil'[d] = now + lease
      <4> HIDE DEF c, generation, armed
      <4> QED BY <1>0, <1>1, <1>4, <2>1, Zenon DEF ConnTypeOK
    <3> QED BY <3>1, Zenon DEF Pending
  <2>2. CASE d # c
    <3> HIDE DEF c, generation, armed
    <3> QED BY <1>0, <1>4, <1>8, <2>2, Zenon DEF Pending, ExpiryPending, ConnTypeOK
  <2> QED BY <2>1, <2>2, Zenon
<1> QED BY <1>5, <1>6, <1>7, <1>8, ConnInvNext, Zenon

\* A redemption that fails gives the lock back.
LEMMA RedeemFailsKeeps ==
  ASSUME ConnInv, req \in [Reqs -> ReqStates], NEW q \in Reqs, RedeemFails(q)
  PROVE  ConnInv'
<1>0. ConnTypeOK /\ CallbackState /\ Counts /\ ExpiryPending
  BY CountsEquivalent, Zenon DEF ConnInv
<1>1. ConnTypeOK'
  BY <1>0, Zenon DEF RedeemFails, ConnTypeOK, countVars, authVars
<1>2. CallbackState'
  BY <1>0, Zenon DEF RedeemFails, CallbackState
<1>3. Counts'
  BY <1>0, CountsKept, Zenon DEF RedeemFails, countVars
<1>4. ASSUME NEW d \in Conns, Groups, conn'[d] = "open" PROVE Pending(d)'
  BY <1>0, <1>4, Zenon DEF RedeemFails, Pending, ExpiryPending, authVars
<1> QED BY <1>1, <1>2, <1>3, <1>4, ConnInvNext, Zenon

\* A step of the handlers or of Close leaves the connections alone.
LEMMA ConnStutters == ASSUME ConnInv, UNCHANGED connVars PROVE ConnInv'
<1>1. ConnTypeOK'
  BY Zenon DEF ConnInv, ConnTypeOK, connVars, countVars, authVars
<1>2. CallbackState' /\ ConnectionsCounted'
  <2>1. UNCHANGED <<conn, callback, source, connectionCount, connections>>
    BY Zenon DEF connVars, countVars
  <2>2. CallbackState'
    BY <2>1, Zenon DEF ConnInv, CallbackState
  <2>3. ConnectionsCounted'
    BY <2>1 DEF ConnInv, ConnectionsCounted
  <2> QED BY <2>2, <2>3, Zenon
<1>3. ExpiryPending'
  BY Zenon DEF ConnInv, ExpiryPending, connVars, authVars
<1> QED BY <1>1, <1>2, <1>3, Zenon DEF ConnInv

--------------------------------------------------------------------------------
(* Sessions and the phases of Close. *)

ClosePhases == {"running", "closing", "draining", "stopping", "down"}
Holding == {"acquired", "tunnel", "leaving"}

\* No tunnel runs once http3 is being closed, and no request is left at the end.
Drained ==
  /\ phase \in {"stopping", "down"} => \A q \in Reqs : req[q].pc # "tunnel"
  /\ phase = "down" => \A q \in Reqs : req[q] = NoReq

SessionTypes ==
  /\ req \in [Reqs -> ReqStates]
  /\ activeSessions \in 0 .. MaxSessions
  /\ activeByAddress \in [Keys -> 0 .. SourceSessions]
  /\ phase \in ClosePhases

SessInv == SessionTypes /\ SessionsCounted /\ Drained

HeldAll == {q \in Reqs : req[q].pc \in Holding}
HeldFor(k) == {q \in Reqs : req[q].pc \in Holding /\ req[q].key = k}

\* SessionsCounted, with its sets named.
LEMMA SessionsMeaning ==
  SessionsCounted <=> /\ activeSessions = Cardinality(HeldAll)
                      /\ \A k \in Keys : activeByAddress[k] = Cardinality(HeldFor(k))
BY Zenon DEF SessionsCounted, HeldAll, HeldFor, Holds, Holding

\* The sets of sessions are finite.
LEMMA HeldFinite == IsFiniteSet(HeldAll) /\ \A k : IsFiniteSet(HeldFor(k))
<1>1. IsFiniteSet(Reqs)
  BY ConnectionAssumption, Zenon
<1>2. HeldAll \in SUBSET Reqs /\ \A k : HeldFor(k) \in SUBSET Reqs
  BY Zenon DEF HeldAll, HeldFor
<1> QED BY <1>1, <1>2, FS_Subset, Zenon

\* A request moves on without acquiring or releasing.
LEMMA MovesKeeps ==
  ASSUME SessInv, NEW q \in Reqs, NEW state \in ReqStates, Goes(q, state),
         state.pc \in Holding <=> req[q].pc \in Holding,
         state.pc \in Holding => state.key = req[q].key,
         state.pc = "tunnel" => phase \in {"running", "closing"},
         phase # "down",
         UNCHANGED sessionVars
  PROVE  SessInv'
<1>0. SessionTypes /\ SessionsCounted /\ Drained
  BY Zenon DEF SessInv
<1>1. req' = [req EXCEPT ![q] = state] /\ req \in [Reqs -> ReqStates]
  BY <1>0, Zenon DEF Goes, SessionTypes
<1>2. SessionTypes'
  BY <1>0, <1>1, Zenon DEF SessionTypes, sessionVars
<1>3. HeldAll' = HeldAll /\ \A k : HeldFor(k)' = HeldFor(k)
  BY <1>1, Zenon DEF HeldAll, HeldFor
<1>4. SessionsCounted'
  BY <1>0, <1>3, SessionsMeaning, Zenon DEF sessionVars, SessionsCounted, HeldAll, HeldFor, Holds, Holding
<1>5. Drained'
  BY <1>0, <1>1, Zenon DEF Drained, sessionVars
<1> QED BY <1>2, <1>4, <1>5, Zenon DEF SessInv

\* release gives back exactly what acquire took.
LEMMA ReleaseKeeps ==
  ASSUME SessInv, NEW q \in Reqs, req[q].pc \in Holding, Release(q, req[q].key),
         Goes(q, NoReq), phase' = phase
  PROVE  SessInv'
<1>0. SessionTypes /\ SessionsCounted /\ Drained
  BY Zenon DEF SessInv
<1>1. req' = [req EXCEPT ![q] = NoReq] /\ req \in [Reqs -> ReqStates] /\ NoReq \in ReqStates
      /\ req[q].key \in Keys /\ NoReq.pc = "idle"
  BY <1>0, ReqFields, Zenon DEF Goes, SessionTypes, ReqStates, Holding, NoReq
<1>2. PICK k \in Keys : k = req[q].key
  BY <1>1, Zenon
<1>3. HeldAll' = HeldAll \ {q} /\ q \in HeldAll
  BY <1>1, Zenon DEF HeldAll, Holding
<1>4. HeldFor(k)' = HeldFor(k) \ {q} /\ q \in HeldFor(k)
  BY <1>1, <1>2, Zenon DEF HeldFor, Holding
<1>5. \A j \in Keys : j # k => HeldFor(j)' = HeldFor(j)
  BY <1>1, <1>2, Zenon DEF HeldFor, Holding
<1>6. Cardinality(HeldAll') = Cardinality(HeldAll) - 1 /\ Cardinality(HeldAll) # 0
  BY <1>3, HeldFinite, FS_RemoveElement, FS_EmptySet, Zenon
<1>7. Cardinality(HeldFor(k)') = Cardinality(HeldFor(k)) - 1 /\ Cardinality(HeldFor(k)) # 0
  BY <1>4, HeldFinite, FS_RemoveElement, FS_EmptySet, Zenon
<1>8. /\ activeSessions = Cardinality(HeldAll) /\ activeSessions \in 0 .. MaxSessions
      /\ \A j \in Keys : activeByAddress[j] = Cardinality(HeldFor(j))
      /\ activeByAddress \in [Keys -> 0 .. SourceSessions]
  BY <1>0, SessionsMeaning, Zenon DEF SessionTypes
<1>9. activeSessions' = Cardinality(HeldAll') /\ activeSessions' \in 0 .. MaxSessions
  BY <1>6, <1>8, SessionAssumption DEF Release
<1>10. activeByAddress[k] \in 1 .. SourceSessions
  BY <1>7, <1>8, SessionAssumption
<1>11. activeByAddress' = [activeByAddress EXCEPT ![k] = activeByAddress[k] - 1]
  <2>1. (IF activeByAddress[k] <= 1 THEN 0 ELSE activeByAddress[k] - 1) = activeByAddress[k] - 1
    BY <1>10, SessionAssumption
  <2>2. activeByAddress' = [activeByAddress EXCEPT ![k] = IF activeByAddress[k] <= 1 THEN 0 ELSE activeByAddress[k] - 1]
    BY <1>2, Zenon DEF Release
  <2> QED BY <2>1, <2>2, Zenon
<1>12. activeByAddress' \in [Keys -> 0 .. SourceSessions]
  <2>1. activeByAddress[k] - 1 \in 0 .. SourceSessions
    BY <1>10, SessionAssumption
  <2> QED BY <1>8, <1>11, <2>1, Zenon
<1>13. ASSUME NEW j \in Keys PROVE activeByAddress'[j] = Cardinality(HeldFor(j)')
  <2>1. CASE j = k
    BY <1>7, <1>8, <1>11, <2>1, Zenon
  <2>2. CASE j # k
    BY <1>5, <1>8, <1>11, <2>2, Zenon
  <2> QED BY <2>1, <2>2, Zenon
<1>14. SessionsCounted'
  BY <1>9, <1>13, Zenon DEF SessionsCounted, HeldAll, HeldFor, Holds, Holding
<1>15. SessionTypes'
  BY <1>0, <1>1, <1>9, <1>12, Zenon DEF SessionTypes
<1>16. Drained'
  BY <1>0, <1>1, Zenon DEF Drained, Holding
<1> QED BY <1>14, <1>15, <1>16, Zenon DEF SessInv

\* acquire counts one session more, under the caps.
LEMMA AcquiresKeeps ==
  ASSUME ConnTypeOK, SessInv, NEW q \in Reqs, Acquires(q)
  PROVE  SessInv'
<1>0. SessionTypes /\ SessionsCounted /\ Drained
  BY Zenon DEF SessInv
<1>1. req[q].pc = "authorized" /\ req[q] \in Authorized /\ req \in [Reqs -> ReqStates]
      /\ req[q].conn \in Conns /\ req[q].account \in 0 .. MaxRedeemed /\ phase # "down" /\ phase' = phase
  <2>1. req[q].pc = "authorized" /\ phase' = phase
    BY Zenon DEF Acquires
  <2>2. req \in [Reqs -> ReqStates]
    BY <1>0, Zenon DEF SessionTypes
  <2>3. req[q] \in Authorized /\ req[q].conn \in Conns /\ req[q].account \in 0 .. MaxRedeemed
    BY <2>1, <2>2, ReqFields, Zenon
  <2>4. phase # "down"
    BY <1>0, <2>1 DEF Drained, NoReq
  <2> QED BY <2>1, <2>2, <2>3, <2>4, Zenon
<1>2. PICK k \in Keys : k = IF req[q].account # 0 THEN req[q].account ELSE source[req[q].conn]
  <2>1. source[req[q].conn] \in Sources
    BY <1>1, Zenon DEF ConnTypeOK
  <2> QED BY <1>1, <2>1 DEF Keys
<1>3. CASE Full(k)
  <2>1. Goes(q, NoReq) /\ UNCHANGED sessionVars
    BY <1>2, <1>3, Zenon DEF Acquires, sessionVars
  <2>2. NoReq \in ReqStates /\ NoReq.pc = "idle"
    BY Zenon DEF ReqStates, NoReq
  <2> QED BY <1>1, <2>1, <2>2, MovesKeeps, Zenon DEF Holding
<1>4. CASE ~Full(k)
  <2> DEFINE state == [pc |-> "acquired", conn |-> req[q].conn, key |-> k]
  <2>1. state \in ReqStates /\ state.pc = "acquired" /\ state.key = k
    BY <1>1, Zenon DEF ReqStates, Acquired
  <2>2. /\ req' = [req EXCEPT ![q] = state]
        /\ activeSessions' = activeSessions + 1
        /\ activeByAddress' = [activeByAddress EXCEPT ![k] = activeByAddress[k] + 1]
    BY <1>2, <1>4, Zenon DEF Acquires, Goes
  <2> HIDE DEF state
  <2>3. HeldAll' = HeldAll \cup {q} /\ q \notin HeldAll
    BY <1>1, <2>1, <2>2, Zenon DEF HeldAll, Holding
  <2>4. HeldFor(k)' = HeldFor(k) \cup {q} /\ q \notin HeldFor(k)
    BY <1>1, <2>1, <2>2, Zenon DEF HeldFor, Holding
  <2>5. \A j \in Keys : j # k => HeldFor(j)' = HeldFor(j)
    BY <1>1, <2>1, <2>2, Zenon DEF HeldFor, Holding
  <2>6. Cardinality(HeldAll') = Cardinality(HeldAll) + 1
    BY <2>3, HeldFinite, FS_AddElement, Zenon
  <2>7. Cardinality(HeldFor(k)') = Cardinality(HeldFor(k)) + 1
    BY <2>4, HeldFinite, FS_AddElement, Zenon
  <2>8. /\ activeSessions = Cardinality(HeldAll) /\ activeSessions \in 0 .. MaxSessions
        /\ \A j \in Keys : activeByAddress[j] = Cardinality(HeldFor(j))
        /\ activeByAddress \in [Keys -> 0 .. SourceSessions]
    BY <1>0, SessionsMeaning, Zenon DEF SessionTypes
  <2>9. activeSessions' = Cardinality(HeldAll') /\ activeSessions' \in 0 .. MaxSessions
    BY <1>4, <2>2, <2>6, <2>8, SessionAssumption DEF Full
  <2>10. activeByAddress' \in [Keys -> 0 .. SourceSessions]
    <3>1. activeByAddress[k] + 1 \in 0 .. SourceSessions
      BY <1>4, <2>8, SessionAssumption DEF Full
    <3> QED BY <2>2, <2>8, <3>1, Zenon
  <2>11. ASSUME NEW j \in Keys PROVE activeByAddress'[j] = Cardinality(HeldFor(j)')
    <3>1. CASE j = k
      BY <2>2, <2>7, <2>8, <3>1, Zenon
    <3>2. CASE j # k
      BY <2>2, <2>5, <2>8, <3>2, Zenon
    <3> QED BY <3>1, <3>2, Zenon
  <2>12. SessionsCounted'
    BY <2>9, <2>11, Zenon DEF SessionsCounted, HeldAll, HeldFor, Holds, Holding
  <2>13. SessionTypes'
    BY <1>0, <1>1, <2>1, <2>2, <2>9, <2>10, Zenon DEF SessionTypes
  <2>14. Drained'
    BY <1>0, <1>1, <2>1, <2>2, Zenon DEF Drained
  <2> QED BY <2>12, <2>13, <2>14, Zenon DEF SessInv
<1> QED BY <1>3, <1>4, Zenon

\* A step of a connection or of a timer leaves the requests alone.
LEMMA SessStutters == ASSUME SessInv, UNCHANGED <<req, sessionVars>> PROVE SessInv'
BY Zenon DEF SessInv, SessionTypes, SessionsCounted, Drained, Holds, sessionVars

\* A request that arrives or is inside authorize.
LEMMA AuthorizeKeeps ==
  ASSUME ConnInv, SessInv, NEW q \in Reqs, AuthorizePart(q)
  PROVE  ConnInv' /\ SessInv'
<1>0. ConnTypeOK /\ SessionTypes /\ Drained /\ req \in [Reqs -> ReqStates] /\ UNCHANGED sessionVars
  BY Zenon DEF ConnInv, SessInv, SessionTypes, AuthorizePart
<1>1. ASSUME NEW state \in ReqStates, Goes(q, state), state.pc \notin Holding, req[q].pc \notin Holding,
             phase # "down"
      PROVE SessInv'
  BY <1>0, <1>1, MovesKeeps, Zenon DEF Holding
<1>2. NoReq \in ReqStates /\ NoReq.pc = "idle"
  BY Zenon DEF ReqStates, NoReq
<1>3. CASE Accepting /\ Arrives(q)
  <2> DEFINE waits == [pc |-> "waiting", conn |-> StreamOf[q]]
             passes == [pc |-> "authorized", conn |-> StreamOf[q], account |-> 0]
  <2>1. StreamOf[q] \in Conns /\ 0 \in 0 .. MaxRedeemed
    BY ConnectionAssumption, SMTT(30)
  <2>2. waits \in ReqStates /\ waits.pc = "waiting" /\ passes \in ReqStates /\ passes.pc = "authorized"
    BY <2>1, Zenon DEF ReqStates, Waiting, Authorized
  <2>3. req[q].pc \notin Holding /\ phase # "down" /\ (Goes(q, waits) \/ Goes(q, passes)) /\ UNCHANGED connVars
    BY <1>2, <1>3, Zenon DEF Arrives, Accepting, Holding
  <2> HIDE DEF waits, passes
  <2>4. SessInv'
    BY <1>1, <2>2, <2>3, Zenon DEF Holding
  <2> QED BY <2>3, <2>4, ConnStutters, Zenon
<1>4. ASSUME NEW renew \in BOOLEAN, Decides(q, renew) PROVE ConnInv' /\ SessInv'
  <2> DEFINE c == req[q].conn
             redeems == [req[q] EXCEPT !.pc = "redeeming"]
             passes == [pc |-> "authorized", conn |-> c, account |-> address[c]]
  <2>1. req[q] \in Waiting /\ c \in Conns /\ req[q].pc = "waiting"
    BY <1>0, <1>4, ReqFields, Zenon DEF Decides
  <2>2. redeems \in ReqStates /\ redeems.pc = "redeeming"
    BY <2>1, Zenon DEF ReqStates, Waiting
  <2>3. passes \in ReqStates /\ passes.pc = "authorized"
    BY <1>0, <2>1, Zenon DEF ReqStates, Authorized, ConnTypeOK
  <2>4. Goes(q, NoReq) \/ Goes(q, redeems) \/ Goes(q, passes)
    BY <1>4, Zenon DEF Decides
  <2>5. phase # "down" /\ req[q].pc \notin Holding
    BY <1>0, <1>2, <2>1, Zenon DEF Drained, Holding
  <2> HIDE DEF redeems, passes
  <2>6. SessInv'
    BY <1>1, <1>2, <2>2, <2>3, <2>4, <2>5, Zenon DEF Holding
  <2> QED BY <1>0, <1>4, <2>6, DecidesKeeps, Zenon
<1>5. ASSUME NEW lease \in 0 .. MaxLease, Renews(q, lease) PROVE ConnInv' /\ SessInv'
  <2> DEFINE passes == [pc |-> "authorized", conn |-> req[q].conn, account |-> redeemed + 1]
  <2>1. req[q].conn \in Conns /\ req[q].pc = "redeeming"
    BY <1>0, <1>5, ReqFields, Zenon DEF Renews
  <2>2. redeemed + 1 \in 0 .. MaxRedeemed
    <3>1. redeemed \in 0 .. MaxRedeemed /\ redeemed < MaxRedeemed
      BY <1>0, <1>5, Zenon DEF Renews, ConnTypeOK
    <3> QED BY <3>1, ConnectionAssumption, SMTT(30)
  <2>3. passes \in ReqStates /\ passes.pc = "authorized"
    BY <2>1, <2>2, Zenon DEF ReqStates, Authorized
  <2>4. Goes(q, passes)
    BY <1>5, Zenon DEF Renews
  <2>5. phase # "down" /\ req[q].pc \notin Holding
    BY <1>0, <1>2, <2>1, Zenon DEF Drained, Holding
  <2> HIDE DEF passes
  <2>6. SessInv'
    BY <1>1, <2>3, <2>4, <2>5, Zenon DEF Holding
  <2> QED BY <1>0, <1>5, <2>6, RenewsKeeps, Zenon
<1>6. CASE RedeemFails(q)
  <2>1. Goes(q, NoReq) /\ req[q].pc = "redeeming"
    BY <1>6, Zenon DEF RedeemFails
  <2>2. phase # "down" /\ req[q].pc \notin Holding
    BY <1>0, <1>2, <2>1, Zenon DEF Drained, Holding
  <2>3. SessInv'
    BY <1>1, <1>2, <2>1, <2>2, Zenon DEF Holding
  <2> QED BY <1>0, <1>6, <2>3, RedeemFailsKeeps, Zenon
<1> QED BY <1>3, <1>4, <1>5, <1>6, Zenon DEF AuthorizePart, AuthorizeRuns

\* The handler after authorize.
LEMMA HandlerKeeps ==
  ASSUME ConnInv, SessInv, NEW q \in Reqs, HandlerPart(q) \/ TunnelStarts(q) \/ TunnelEnds(q)
  PROVE  ConnInv' /\ SessInv'
<1>0. ConnTypeOK /\ SessionTypes /\ Drained /\ req \in [Reqs -> ReqStates] /\ phase \in ClosePhases
  BY Zenon DEF ConnInv, SessInv, SessionTypes
<1>1. NoReq \in ReqStates /\ NoReq.pc = "idle"
  BY Zenon DEF ReqStates, NoReq
<1>2. req[q].pc # "idle" => phase # "down"
  BY <1>0, <1>1, Zenon DEF Drained
<1>3. UNCHANGED connVars
  BY Zenon  DEF HandlerPart, Answers, Acquires, DialFails, Leaves, TunnelStarts, TunnelEnds
<1>4. CASE Answers(q)
  BY <1>1, <1>2, <1>3, <1>4, MovesKeeps, ConnStutters, Zenon DEF Answers, Holding
<1>5. CASE Acquires(q)
  BY <1>0, <1>3, <1>5, AcquiresKeeps, ConnStutters, Zenon
<1>6. CASE DialFails(q) \/ Leaves(q)
  BY <1>3, <1>6, ReleaseKeeps, ConnStutters, Zenon DEF DialFails, Leaves, Holding
<1>7. CASE TunnelStarts(q)
  <2>1. CASE ProxyOpen
    <3> DEFINE state == [req[q] EXCEPT !.pc = "tunnel"]
    <3>1. req[q] \in Acquired /\ req[q].pc = "acquired"
      BY <1>0, <1>7, ReqFields, Zenon DEF TunnelStarts
    <3>2. state \in ReqStates /\ state.pc = "tunnel" /\ state.key = req[q].key
      BY <3>1, Zenon DEF ReqStates, Acquired
    <3>3. Goes(q, state) /\ UNCHANGED sessionVars
      BY <1>7, <2>1, Zenon DEF TunnelStarts, sessionVars
    <3> HIDE DEF state
    <3> QED BY <1>2, <1>3, <2>1, <3>1, <3>2, <3>3, MovesKeeps, ConnStutters, Zenon DEF Holding, ProxyOpen
  <2>2. CASE ~ProxyOpen
    BY <1>3, <1>7, <2>2, ReleaseKeeps, ConnStutters, Zenon DEF TunnelStarts, Holding
  <2> QED BY <2>1, <2>2, Zenon
<1>8. CASE TunnelEnds(q)
  <2> DEFINE state == [req[q] EXCEPT !.pc = "leaving"]
  <2>1. req[q] \in Acquired /\ req[q].pc = "tunnel"
    BY <1>0, <1>8, ReqFields, Zenon DEF TunnelEnds
  <2>2. state \in ReqStates /\ state.pc = "leaving" /\ state.key = req[q].key
    BY <2>1, Zenon DEF ReqStates, Acquired
  <2>3. Goes(q, state) /\ UNCHANGED sessionVars
    BY <1>8, Zenon DEF TunnelEnds
  <2> HIDE DEF state
  <2> QED BY <1>2, <1>3, <2>1, <2>2, <2>3, MovesKeeps, ConnStutters, Zenon DEF Holding
<1> QED BY <1>4, <1>5, <1>6, <1>7, <1>8, Zenon DEF HandlerPart

\* Connections and timers.
LEMMA ConnectionKeeps ==
  ASSUME ConnInv, ConnectionPart
  PROVE  ConnInv'
<1>1. CASE \E c \in Conns : Accept(c) \/ Refuse(c)
  BY <1>1, AcceptKeeps, RefuseKeeps, Zenon
<1>2. ASSUME NEW c \in Conns, PeerCloses(c) PROVE ConnInv'
  BY <1>2, CloseKeeps, Zenon DEF PeerCloses
<1>3. CASE \E c \in Conns : CallbackCounts(c) \/ CallbackStops(c) \/ TimerFires(c)
  BY <1>3, CallbackCountsKeeps, CallbackStopsKeeps, TimerFiresKeeps, Zenon
<1>4. ASSUME NEW x \in expiring, ExpireLoads(x) PROVE ConnInv'
  BY <1>4, ExpireLoadsKeeps, Zenon
<1>5. ASSUME NEW x \in expiring, ExpireCloses(x) PROVE ConnInv'
  <2>1. x.conn \in Conns
    BY Zenon  DEF ConnInv, ConnTypeOK
  <2>2. CASE conn[x.conn] = "open"
    BY <1>5, <2>1, <2>2, CloseKeeps, Zenon DEF ExpireCloses
  <2>3. CASE conn[x.conn] # "open"
    <3>0. ConnTypeOK /\ CallbackState /\ Counts /\ ExpiryPending
      BY CountsEquivalent, Zenon DEF ConnInv
    <3>1. ConnTypeOK'
      BY <1>5, <2>3, <3>0, Zenon DEF ExpireCloses, ConnTypeOK, countVars, authVars
    <3>2. CallbackState' /\ Counts'
      BY <1>5, <2>3, <3>0, CountsKept, Zenon DEF ExpireCloses, CallbackState, countVars
    <3>3. ASSUME NEW d \in Conns, Groups, conn'[d] = "open" PROVE Pending(d)'
      <4>1. Pending(d) /\ d # x.conn
        BY <1>5, <2>3, <3>0, <3>3, Zenon DEF ExpireCloses, ExpiryPending, Pending
      <4>2. \A y \in expiring : y.conn = d => y \in expiring'
        BY <1>5, <4>1, Zenon DEF ExpireCloses
      <4> QED BY <1>5, <4>1, <4>2, Zenon DEF ExpireCloses, Pending, authVars
    <3> QED BY <3>1, <3>2, <3>3, ConnInvNext, Zenon
  <2> QED BY <2>2, <2>3, Zenon
<1>6. CASE Passes
  BY <1>6, PassesKeeps, Zenon
<1> QED BY <1>1, <1>2, <1>3, <1>4, <1>5, <1>6, Zenon DEF ConnectionPart

\* Server.Close.
LEMMA ClosingKeeps ==
  ASSUME ConnInv, SessInv, CloseBegins \/ ProxyCloses \/ StopPart
  PROVE  ConnInv' /\ SessInv'
<1>0. SessionTypes /\ SessionsCounted /\ Drained
  BY Zenon  DEF SessInv
<1>1. ASSUME NEW c \in Conns, ConnStops(c) PROVE ConnInv' /\ SessInv'
  BY <1>1, CloseKeeps, SessStutters, Zenon DEF ConnStops
<1>2. CASE CloseBegins \/ ProxyCloses \/ ServerCloses \/ TicketsClose
  <2>1. UNCHANGED <<connVars, req, activeSessions, activeByAddress>> /\ phase' \in ClosePhases
    BY <1>2, Zenon DEF CloseBegins, ProxyCloses, ServerCloses, TicketsClose, ClosePhase, ClosePhases
  <2>2. SessionTypes' /\ SessionsCounted'
    BY <1>0, <2>1, Zenon DEF SessionTypes, SessionsCounted, Holds
  <2>3. Drained'
    BY <1>0, <1>2, <2>1, Zenon DEF Drained, CloseBegins, ProxyCloses, ServerCloses, TicketsClose, ClosePhase
  <2> QED BY <2>1, <2>2, <2>3, ConnStutters, Zenon DEF SessInv
<1> QED BY <1>1, <1>2, Zenon DEF StopPart

--------------------------------------------------------------------------------
(* The inductive invariant and what follows from it. *)

RelayInv == ConnInv /\ SessInv

\* Nothing is counted and nothing is pending at the start.
LEMMA RelayInvInit == ASSUME RelayInit PROVE RelayInv
<1>1. ConnTypeOK
  <2>1. NoTimer \in [gen: Nat, at: Times] /\ 0 \in Times
    BY ConnectionAssumption DEF NoTimer, Times
  <2> QED BY <2>1, ConnectionAssumption DEF RelayInit, ConnInit, ConnTypeOK
<1>2. CallbackState /\ ExpiryPending
  BY Zenon DEF RelayInit, ConnInit, CallbackState, ExpiryPending
<1>3. CountedAll = {} /\ \A s : CountedOf(s) = {}
  BY Zenon DEF RelayInit, ConnInit, CountedAll, CountedOf
<1>4. Counts
  BY <1>3, FS_EmptySet, Zenon DEF RelayInit, ConnInit, Counts
<1>5. SessionTypes /\ Drained
  BY SessionAssumption DEF RelayInit, SessionTypes, ReqStates, ClosePhases, Drained, NoReq
<1>6. HeldAll = {} /\ \A k : HeldFor(k) = {}
  BY Zenon DEF RelayInit, HeldAll, HeldFor, NoReq, Holding
<1>7. SessionsCounted
  BY <1>6, SessionsMeaning, FS_EmptySet, Zenon DEF RelayInit
<1> QED BY <1>1, <1>2, <1>4, <1>5, <1>7, CountsEquivalent, Zenon DEF RelayInv, ConnInv, SessInv

\* Every step keeps the invariant.
LEMMA RelayInvStep == ASSUME RelayInv, [RelayNext]_relayVars PROVE RelayInv'
<1>1. CASE ConnectionPart
  <2>1. ConnInv'
    BY <1>1, ConnectionKeeps, Zenon DEF RelayInv
  <2>2. SessInv'
    BY <1>1, SessStutters, Zenon DEF RelayInv, ConnectionPart
  <2> QED BY <2>1, <2>2, Zenon DEF RelayInv
<1>2. ASSUME NEW q \in Reqs, AuthorizePart(q) PROVE RelayInv'
  BY <1>2, AuthorizeKeeps, Zenon DEF RelayInv
<1>3. ASSUME NEW q \in Reqs, HandlerPart(q) \/ TunnelStarts(q) \/ TunnelEnds(q) PROVE RelayInv'
  BY <1>3, HandlerKeeps, Zenon DEF RelayInv
<1>4. CASE CloseBegins \/ ProxyCloses \/ StopPart
  BY <1>4, ClosingKeeps, Zenon DEF RelayInv
<1>5. CASE UNCHANGED relayVars
  BY <1>5, ConnStutters, SessStutters, Zenon DEF RelayInv, relayVars
<1> QED BY <1>1, <1>2, <1>3, <1>4, <1>5, Zenon DEF RelayNext

\* The invariant of the whole relay.
THEOREM RelayInvariant == RelaySafety => []RelayInv
<1>1. RelayInit => RelayInv
  BY RelayInvInit, Zenon
<1>2. RelayInv /\ [RelayNext]_relayVars => RelayInv'
  BY RelayInvStep, Zenon
<1> QED BY <1>1, <1>2, PTL DEF RelaySafety

\* Every variable keeps its type: neither counter ever passes its cap or falls below zero
\* (connectionContext, acquire, release).
THEOREM RelayTypes == RelaySafety => []RelayTypeOK
<1>1. RelayInv => RelayTypeOK
  BY Zenon DEF RelayInv, ConnInv, SessInv, SessionTypes, RelayTypeOK, ReqStates, ClosePhases
<1> QED BY <1>1, RelayInvariant, PTL

\* The connection counters are exact, whatever the order of closes, timers and callbacks.
THEOREM ConnectionsAlwaysCounted == RelaySafety => []ConnectionsCounted
<1>1. RelayInv => ConnectionsCounted
  BY Zenon DEF RelayInv, ConnInv
<1> QED BY <1>1, RelayInvariant, PTL

\* The session counters are exact, whatever accounts renewals give a connection meanwhile.
THEOREM SessionsAlwaysCounted == RelaySafety => []SessionsCounted
<1>1. RelayInv => SessionsCounted
  BY Zenon DEF RelayInv, SessInv
<1> QED BY <1>1, RelayInvariant, PTL

\* No open connection is ever without its end pending.
THEOREM ExpiryAlwaysPending == RelaySafety => []ExpiryPending
<1>1. RelayInv => ExpiryPending
  BY Zenon DEF RelayInv, ConnInv
<1> QED BY <1>1, RelayInvariant, PTL

\* Close stops tunnels before http3, and handlers before the ticket database.
THEOREM ClosesInOrder == RelaySafety => []CloseOrder
<1>1. RelayInv => CloseOrder
  BY DEF RelayInv, SessInv, Drained, CloseOrder, NoReq
<1> QED BY <1>1, RelayInvariant, PTL

\* No session is acquired once closed is set: a step after that only releases.
THEOREM NoneAcquiredAfterClose == RelaySafety => NoSessionAfterClose
<1>1. ASSUME RelayInv, [RelayNext]_relayVars, closed PROVE activeSessions' <= activeSessions
  <2>0. activeSessions \in Nat
    BY <1>1, SessionAssumption DEF RelayInv, SessInv, SessionTypes
  <2>1. ASSUME NEW q \in Reqs, HandlerPart(q) \/ TunnelStarts(q) \/ TunnelEnds(q)
        PROVE activeSessions' <= activeSessions
    <3>1. ASSUME NEW k, Release(q, k) PROVE activeSessions' <= activeSessions
      BY <2>0, <3>1 DEF Release
    <3>2. CASE Answers(q) \/ TunnelEnds(q)
      BY <2>0, <3>2 DEF Answers, TunnelEnds, sessionVars
    <3>3. CASE Acquires(q)
      <4>1. \A key : Full(key)
        BY <1>1, Zenon DEF Full
      <4>2. UNCHANGED activeSessions
        BY <3>3, <4>1, Zenon DEF Acquires
      <4> QED BY <2>0, <4>2
    <3>4. CASE DialFails(q) \/ Leaves(q)
      BY <3>1, <3>4, Zenon DEF DialFails, Leaves
    <3>5. CASE TunnelStarts(q)
      BY <2>0, <3>1, <3>5 DEF TunnelStarts
    <3> QED BY <2>1, <3>2, <3>3, <3>4, <3>5, Zenon DEF HandlerPart
  <2>2. CASE ConnectionPart \/ (\E q \in Reqs : AuthorizePart(q)) \/ CloseBegins \/ ProxyCloses \/ StopPart
    <3>0. SUFFICES activeSessions' = activeSessions
      BY <2>0
    <3>1. CASE ConnectionPart
      BY <3>1, Zenon DEF ConnectionPart, sessionVars
    <3>2. CASE \E q \in Reqs : AuthorizePart(q)
      BY <3>2, Zenon DEF AuthorizePart, sessionVars
    <3>3. CASE CloseBegins \/ ProxyCloses \/ StopPart
      BY <3>3, Zenon DEF CloseBegins, ProxyCloses, StopPart, ServerCloses, TicketsClose, ConnStops, sessionVars
    <3> QED BY <2>2, <3>1, <3>2, <3>3, Zenon
  <2>3. CASE UNCHANGED relayVars
    BY <2>0, <2>3 DEF relayVars, sessionVars
  <2> QED BY <1>1, <2>1, <2>2, <2>3, Zenon DEF RelayNext
<1>2. RelayInv /\ [RelayNext]_relayVars => [closed => activeSessions' <= activeSessions]_relayVars
  BY <1>1, Zenon
<1> QED BY <1>2, RelayInvariant, PTL DEF RelaySafety, NoSessionAfterClose

--------------------------------------------------------------------------------
(* The goroutines of the tunnels. *)

Holder == [pc: {"acquired", "leaving"}, conn: Conns, key: Keys]
TunnelReqs == {NoReq} \union Authorized \union Holder \union Tunnel

TunnelTypes ==
  /\ Mode = "public"
  /\ req \in [Reqs -> TunnelReqs]
  /\ activeSessions \in 0 .. MaxSessions
  /\ activeByAddress \in [Keys -> 0 .. SourceSessions]
  /\ phase \in Phases
  /\ sendQueue \in [Conns -> 0 .. SendCap] /\ sent \in [Conns -> BOOLEAN]

\* A request is a stream of a connection that was accepted.
Attached == \A q \in Reqs : req[q].pc # "idle" => conn[req[q].conn] \in {"open", "closed"}

\* The handler closes the socket before it waits for the goroutines.
Settled == \A q \in Reqs : Running(q) /\ req[q].main = "waiting" => ~req[q].sock

\* What wakes a goroutine that waits in Add.
Waker(c) ==
  \/ sent[c] \/ sendQueue[c] > 0
  \/ \E p \in Reqs : Running(p) /\ req[p].conn = c /\ req[p].down = "add"
Blocked(q, c) == Running(q) /\ req[q].conn = c /\ req[q].down = "full"
Woke == \A q \in Reqs, c \in Conns : Blocked(q, c) /\ conn[c] = "open" => Waker(c)

TunnelState == TunnelTypes /\ Attached /\ Settled /\ Woke
TunnelInv == ConnInv /\ TunnelState

\* A request's fields, by where it is.
LEMMA TunnelFields ==
  ASSUME NEW r \in TunnelReqs
  PROVE  /\ r.pc \in {"idle", "authorized", "acquired", "leaving", "tunnel"}
         /\ r.pc = "idle" => r = NoReq
         /\ r.pc = "authorized" => r \in Authorized /\ r.conn \in Conns /\ r.account \in 0 .. MaxRedeemed
         /\ r.pc \in {"acquired", "leaving"} => r \in Holder /\ r.conn \in Conns /\ r.key \in Keys
         /\ r.pc = "tunnel" => r \in Tunnel /\ r.conn \in Conns /\ r.key \in Keys
<1>1. CASE r \in {NoReq}
  BY <1>1 DEF NoReq
<1>2. CASE r \in Authorized
  BY <1>2, Zenon DEF Authorized
<1>3. CASE r \in Holder
  BY <1>3, Zenon DEF Holder
<1>4. CASE r \in Tunnel
  BY <1>4, Zenon DEF Tunnel
<1> QED BY <1>1, <1>2, <1>3, <1>4, Zenon DEF TunnelReqs

\* A goroutine of a running tunnel moves, and touches neither queue nor connection: it
\* does not begin to wait in Add, and does not leave an Add it is about to make.
LEMMA GoroutineMoves ==
  ASSUME TunnelState, NEW q \in Reqs, Running(q), NEW state \in TunnelReqs,
         Goes(q, state), state.conn = req[q].conn,
         state.pc = "tunnel" => (state.main = "waiting" => ~state.sock),
         state.pc = "tunnel" /\ state.down = "full" => req[q].down = "full",
         req[q].down = "add" => state.pc = "tunnel" /\ state.down = "add",
         UNCHANGED <<connVars, sessionVars, queueVars>>
  PROVE  TunnelState'
<1>0. /\ req \in [Reqs -> TunnelReqs] /\ req' = [req EXCEPT ![q] = state]
      /\ conn' = conn /\ sendQueue' = sendQueue /\ sent' = sent
  BY Zenon DEF TunnelState, TunnelTypes, Goes, connVars, queueVars
<1>1. req'[q] = state /\ \A p \in Reqs : p # q => req'[p] = req[p]
  BY <1>0, Zenon
<1>2. TunnelTypes'
  BY <1>0, Zenon DEF TunnelState, TunnelTypes, sessionVars
<1>3. Attached'
  BY <1>0, <1>1, Zenon DEF TunnelState, Attached, Running
<1>4. Settled'
  BY <1>1, Zenon DEF TunnelState, Settled, Running
<1>5. ASSUME NEW c \in Conns, Waker(c) PROVE Waker(c)'
  BY <1>0, <1>1, <1>5, Zenon DEF Waker, Running
<1>6. ASSUME NEW p \in Reqs, NEW c \in Conns, Blocked(p, c)' PROVE Blocked(p, c)
  BY <1>1, <1>6, Zenon DEF Blocked, Running
<1>7. Woke'
  BY <1>0, <1>5, <1>6, Zenon DEF TunnelState, Woke
<1> QED BY <1>2, <1>3, <1>4, <1>7, Zenon DEF TunnelState

\* A handler outside its tunnel moves, stays on its connection and starts no tunnel.
LEMMA HandlerMoves ==
  ASSUME TunnelState, NEW q \in Reqs, ~Running(q), NEW state \in TunnelReqs,
         Goes(q, state), state.pc # "tunnel",
         state.pc # "idle" => state.conn \in Conns /\ conn[state.conn] \in {"open", "closed"},
         activeSessions' \in 0 .. MaxSessions, activeByAddress' \in [Keys -> 0 .. SourceSessions],
         UNCHANGED <<connVars, phase, queueVars>>
  PROVE  TunnelState'
<1>0. /\ req \in [Reqs -> TunnelReqs] /\ req' = [req EXCEPT ![q] = state]
      /\ conn' = conn /\ sendQueue' = sendQueue /\ sent' = sent
  BY Zenon DEF TunnelState, TunnelTypes, Goes, connVars, queueVars
<1>1. req'[q] = state /\ \A p \in Reqs : p # q => req'[p] = req[p]
  BY <1>0, Zenon
<1>2. TunnelTypes'
  BY <1>0, Zenon DEF TunnelState, TunnelTypes
<1>3. Attached'
  BY <1>0, <1>1, Zenon DEF TunnelState, Attached
<1>4. Settled'
  BY <1>1, Zenon DEF TunnelState, Settled, Running
<1>5. ASSUME NEW c \in Conns, Waker(c) PROVE Waker(c)'
  BY <1>0, <1>1, <1>5, Zenon DEF Waker, Running
<1>6. ASSUME NEW p \in Reqs, NEW c \in Conns, Blocked(p, c)' PROVE Blocked(p, c)
  BY <1>1, <1>6, Zenon DEF Blocked, Running
<1>7. Woke'
  BY <1>0, <1>5, <1>6, Zenon DEF TunnelState, Woke
<1> QED BY <1>2, <1>3, <1>4, <1>7, Zenon DEF TunnelState

\* acquire, for a request that authorize let through.
LEMMA AcquireMoves ==
  ASSUME ConnTypeOK, TunnelState, NEW q \in Reqs, Acquires(q), UNCHANGED queueVars
  PROVE  TunnelState'
<1>1. req[q].pc = "authorized" /\ UNCHANGED <<connVars, phase, queueVars>>
  BY Zenon DEF Acquires
<1>2. req[q] \in TunnelReqs /\ req[q].conn \in Conns /\ req[q].account \in 0 .. MaxRedeemed
  BY <1>1, TunnelFields, Zenon DEF TunnelState, TunnelTypes
<1>3. ~Running(q) /\ conn[req[q].conn] \in {"open", "closed"}
  BY <1>1, Zenon DEF Running, TunnelState, Attached
<1>4. PICK k \in Keys : k = IF req[q].account # 0 THEN req[q].account ELSE source[req[q].conn]
  <2>1. source[req[q].conn] \in Sources
    BY <1>2, Zenon DEF ConnTypeOK
  <2> QED BY <1>2, <2>1 DEF Keys
<1>5. activeSessions \in 0 .. MaxSessions /\ activeByAddress \in [Keys -> 0 .. SourceSessions]
  BY Zenon DEF TunnelState, TunnelTypes
<1>6. CASE Full(k)
  <2>1. Goes(q, NoReq) /\ UNCHANGED <<activeSessions, activeByAddress>>
    BY <1>4, <1>6, Zenon DEF Acquires
  <2>2. NoReq \in TunnelReqs /\ NoReq.pc = "idle"
    BY Zenon DEF TunnelReqs, NoReq
  <2>3. activeSessions' \in 0 .. MaxSessions /\ activeByAddress' \in [Keys -> 0 .. SourceSessions]
    BY <1>5, <2>1, Zenon
  <2> QED BY <1>1, <1>3, <2>1, <2>2, <2>3, HandlerMoves, Zenon
<1>7. CASE ~Full(k)
  <2> DEFINE state == [pc |-> "acquired", conn |-> req[q].conn, key |-> k]
  <2>1. state \in TunnelReqs /\ state.pc = "acquired" /\ state.conn = req[q].conn
    BY <1>2, Zenon DEF TunnelReqs, Holder
  <2>2. /\ Goes(q, state)
        /\ activeSessions' = activeSessions + 1
        /\ activeByAddress' = [activeByAddress EXCEPT ![k] = activeByAddress[k] + 1]
    BY <1>4, <1>7, Zenon DEF Acquires
  <2> HIDE DEF state
  <2>3. activeSessions' \in 0 .. MaxSessions
    BY <1>5, <1>7, <2>2, SessionAssumption DEF Full
  <2>4. activeByAddress[k] + 1 \in 0 .. SourceSessions
    BY <1>5, <1>7, SessionAssumption DEF Full
  <2>5. activeByAddress' \in [Keys -> 0 .. SourceSessions]
    BY <1>5, <2>2, <2>4, Zenon
  <2>6. state.pc # "tunnel" /\ state.conn \in Conns /\ conn[state.conn] \in {"open", "closed"}
    BY <1>2, <1>3, <2>1, Zenon
  <2> QED BY <1>1, <1>3, <2>1, <2>2, <2>3, <2>5, <2>6, HandlerMoves, ZenonT(30)
<1> QED BY <1>6, <1>7, Zenon

\* A request ends and releases its session, or ends without having had one.
LEMMA EndMoves ==
  ASSUME TunnelState, NEW q \in Reqs, ~Running(q), Goes(q, NoReq),
         \/ UNCHANGED <<activeSessions, activeByAddress>>
         \/ req[q].pc \in {"acquired", "leaving"} /\ Release(q, req[q].key),
         UNCHANGED <<connVars, phase, queueVars>>
  PROVE  TunnelState'
<1>1. activeSessions \in 0 .. MaxSessions /\ activeByAddress \in [Keys -> 0 .. SourceSessions]
  BY Zenon DEF TunnelState, TunnelTypes
<1>2. NoReq \in TunnelReqs /\ NoReq.pc = "idle"
  BY Zenon DEF TunnelReqs, NoReq
<1>3. CASE UNCHANGED <<activeSessions, activeByAddress>>
  BY <1>1, <1>2, <1>3, HandlerMoves, Zenon
<1>4. CASE req[q].pc \in {"acquired", "leaving"} /\ Release(q, req[q].key)
  <2>1. PICK k \in Keys : k = req[q].key
    BY <1>4, TunnelFields, Zenon DEF TunnelState, TunnelTypes
  <2>2. activeSessions' \in 0 .. MaxSessions
    BY <1>1, <1>4, SessionAssumption DEF Release
  <2>3. (IF activeByAddress[k] <= 1 THEN 0 ELSE activeByAddress[k] - 1) \in 0 .. SourceSessions
    BY <1>1, SessionAssumption
  <2>4. activeByAddress' = [activeByAddress EXCEPT ![k] =
                              IF activeByAddress[k] <= 1 THEN 0 ELSE activeByAddress[k] - 1]
    BY <1>4, <2>1, Zenon DEF Release
  <2>5. activeByAddress' \in [Keys -> 0 .. SourceSessions]
    BY <1>1, <2>3, <2>4, Zenon
  <2> QED BY <1>2, <2>2, <2>5, HandlerMoves, Zenon
<1> QED BY <1>3, <1>4, Zenon

\* A request arrives on an open connection; in public mode nothing else of authorize runs.
LEMMA AuthorizeMoves ==
  ASSUME TunnelState, NEW q \in Reqs, AuthorizePart(q), UNCHANGED queueVars
  PROVE  TunnelState' /\ UNCHANGED <<connVars, sessionVars>> /\ Arrives(q)
<1>0. req \in [Reqs -> TunnelReqs]
  BY Zenon DEF TunnelState, TunnelTypes
<1>1. req[q].pc \notin {"waiting", "redeeming"}
  BY <1>0, TunnelFields, Zenon
<1>2. Accepting /\ Arrives(q) /\ UNCHANGED sessionVars
  <2>1. \A renew \in BOOLEAN : ~Decides(q, renew)
    BY <1>1, Zenon DEF Decides
  <2>2. \A lease \in 0 .. MaxLease : ~Renews(q, lease)
    BY <1>1, Zenon DEF Renews
  <2>3. ~RedeemFails(q)
    BY <1>1, Zenon DEF RedeemFails
  <2> QED BY <2>1, <2>2, <2>3, Zenon DEF AuthorizePart, AuthorizeRuns
<1> DEFINE state == [pc |-> "authorized", conn |-> StreamOf[q], account |-> 0]
<1>3. req[q] = NoReq /\ conn[StreamOf[q]] = "open" /\ Goes(q, state) /\ UNCHANGED connVars
  BY <1>2, Zenon DEF Arrives, Groups, TunnelState, TunnelTypes
<1>4. StreamOf[q] \in Conns /\ 0 \in 0 .. MaxRedeemed
  BY ConnectionAssumption
<1>5. state \in TunnelReqs /\ state.pc = "authorized" /\ state.conn = StreamOf[q]
  BY <1>4, Zenon DEF TunnelReqs, Authorized
<1> HIDE DEF state
<1>6. /\ state.pc # "tunnel" /\ state.conn \in Conns /\ conn[state.conn] \in {"open", "closed"}
      /\ ~Running(q)
  BY <1>3, <1>4, <1>5 DEF Running, NoReq
<1>7. activeSessions' \in 0 .. MaxSessions /\ activeByAddress' \in [Keys -> 0 .. SourceSessions]
  BY <1>2, Zenon DEF TunnelState, TunnelTypes, sessionVars
<1>8. UNCHANGED <<connVars, phase, queueVars>>
  BY <1>2, <1>3, Zenon DEF sessionVars
<1>9. TunnelState'
  BY <1>3, <1>5, <1>6, <1>7, <1>8, HandlerMoves, Zenon
<1> QED BY <1>2, <1>3, <1>9, Zenon

\* A connection is opened once, and never again once it is closed.
LEMMA ConnectionMoves ==
  ASSUME ConnTypeOK, ConnectionPart \/ (\E c \in Conns : ConnStops(c))
  PROVE  \A c \in Conns : /\ conn[c] = "closed" => conn'[c] = "closed"
                          /\ conn[c] = "open" => conn'[c] \in {"open", "closed"}
<1>0. conn \in [Conns -> {"new", "open", "closed", "refused"}]
  BY Zenon DEF ConnTypeOK
<1>1. ASSUME NEW c \in Conns, Accept(c) \/ Refuse(c)
      PROVE  conn[c] = "new" /\ (\E s : conn' = [conn EXCEPT ![c] = s])
  BY <1>1, Zenon DEF Accept, Refuse
<1>2. ASSUME NEW c \in Conns, PeerCloses(c) \/ ConnStops(c)
      PROVE  conn[c] = "open" /\ conn' = [conn EXCEPT ![c] = "closed"]
  BY <1>2, Zenon DEF PeerCloses, ConnStops, Close
<1>3. ASSUME NEW c \in Conns, CallbackCounts(c) \/ CallbackStops(c) \/ TimerFires(c)
      PROVE  conn' = conn
  BY <1>3, Zenon DEF CallbackCounts, CallbackStops, TimerFires
<1>4. ASSUME NEW x \in expiring, ExpireLoads(x) \/ ExpireCloses(x)
      PROVE  conn' = conn \/ (conn[x.conn] = "open" /\ conn' = [conn EXCEPT ![x.conn] = "closed"])
  BY <1>4, Zenon DEF ExpireLoads, ExpireCloses, Close
<1>5. ASSUME Passes PROVE conn' = conn
  BY <1>5, Zenon DEF Passes
<1>6. ASSUME NEW c, NEW s, conn' = [conn EXCEPT ![c] = s],
             conn[c] = "new" \/ (conn[c] = "open" /\ s = "closed")
      PROVE  \A d \in Conns : /\ conn[d] = "closed" => conn'[d] = "closed"
                              /\ conn[d] = "open" => conn'[d] \in {"open", "closed"}
  BY <1>0, <1>6, Zenon
<1> QED BY <1>1, <1>2, <1>3, <1>4, <1>5, <1>6, SMTT(30) DEF ConnectionPart

\* A step of the connections leaves the requests and the queues alone.
LEMMA ConnectionTunnelMoves ==
  ASSUME ConnTypeOK, TunnelState, ConnectionPart \/ (\E c \in Conns : ConnStops(c)), UNCHANGED queueVars
  PROVE  TunnelState'
<1>0. UNCHANGED <<req, sessionVars>>
  BY Zenon DEF ConnectionPart, ConnStops
<1>1. \A c \in Conns : /\ conn[c] = "closed" => conn'[c] = "closed"
                       /\ conn[c] = "open" => conn'[c] \in {"open", "closed"}
  BY ConnectionMoves, Zenon
<1>2. TunnelTypes'
  BY <1>0, Zenon DEF TunnelState, TunnelTypes, sessionVars, queueVars
<1>3. \A q \in Reqs : req[q].pc # "idle" => req[q].conn \in Conns
  BY TunnelFields, Zenon DEF TunnelState, TunnelTypes
<1>4. Attached'
  BY <1>0, <1>1, <1>3, Zenon DEF TunnelState, Attached
<1>5. Settled'
  BY <1>0, Zenon DEF TunnelState, Settled, Running
<1>6. ASSUME NEW c \in Conns, Waker(c) PROVE Waker(c)'
  BY <1>0, <1>6, Zenon DEF Waker, Running, queueVars
<1>7. ASSUME NEW q \in Reqs, NEW c \in Conns, Blocked(q, c)', conn'[c] = "open" PROVE Waker(c)'
  <2>1. Blocked(q, c) /\ req[q].pc # "idle" /\ req[q].conn = c
    BY <1>0, <1>7, Zenon DEF Blocked, Running
  <2>2. conn[c] = "open"
    BY <1>1, <1>7, <2>1, Zenon DEF TunnelState, Attached
  <2> QED BY <1>6, <2>1, <2>2, Zenon DEF TunnelState, Woke
<1> QED BY <1>2, <1>4, <1>5, <1>7, Zenon DEF TunnelState, Woke

\* ProxyConnectedSocket registers a tunnel, or refuses it once the proxy is closed.
LEMMA RegisterMoves ==
  ASSUME TunnelState, NEW q \in Reqs, Registers(q)
  PROVE  TunnelState'
<1>0. req \in [Reqs -> TunnelReqs] /\ req[q].pc = "acquired" /\ UNCHANGED <<connVars, phase, queueVars>>
  BY Zenon DEF TunnelState, TunnelTypes, Registers
<1>1. req[q].conn \in Conns /\ req[q].key \in Keys /\ ~Running(q)
  BY <1>0, TunnelFields, Zenon DEF Running
<1>2. CASE ~MayRegister
  BY <1>0, <1>1, <1>2, EndMoves, Zenon DEF Registers
<1>3. CASE MayRegister
  <2> DEFINE state == [pc |-> "tunnel", conn |-> req[q].conn, key |-> req[q].key,
                       main |-> "capsules", up |-> "receive", down |-> "read",
                       rx |-> TRUE, tx |-> TRUE, sock |-> TRUE]
  <2>1. state \in TunnelReqs
    BY <1>1, Zenon DEF TunnelReqs, Tunnel
  <2>2. /\ state.conn = req[q].conn /\ state.pc = "tunnel" /\ state.main = "capsules"
        /\ state.down = "read"
    BY Zenon
  <2>3. req' = [req EXCEPT ![q] = state] /\ UNCHANGED <<activeSessions, activeByAddress>>
    BY <1>3, Zenon DEF Registers, Goes
  <2> HIDE DEF state
  <2>4. req'[q] = state /\ \A p \in Reqs : p # q => req'[p] = req[p]
    BY <1>0, <2>3, Zenon
  <2>5. conn' = conn /\ sendQueue' = sendQueue /\ sent' = sent
    BY <1>0, Zenon DEF connVars, queueVars
  <2>6. TunnelTypes'
    BY <1>0, <2>1, <2>3, <2>5, Zenon DEF TunnelState, TunnelTypes
  <2>7. Attached' /\ Settled'
    BY <1>0, <2>2, <2>4, <2>5, Zenon DEF TunnelState, Attached, Settled, Running
  <2>8. ASSUME NEW c \in Conns, Waker(c) PROVE Waker(c)'
    BY <1>0, <2>4, <2>5, <2>8, Zenon DEF Waker, Running
  <2>9. ASSUME NEW p \in Reqs, NEW c \in Conns, Blocked(p, c)' PROVE Blocked(p, c)
    BY <2>2, <2>4, <2>9, Zenon DEF Blocked, Running
  <2> QED BY <2>5, <2>6, <2>7, <2>8, <2>9, Zenon DEF TunnelState, Woke
<1> QED BY <1>2, <1>3, Zenon

\* Add: with room the datagram is queued, and without it there is something to Pop.
LEMMA AddMoves ==
  ASSUME TunnelState, NEW q \in Reqs, DownAdds(q)
  PROVE  TunnelState'
<1>0. req \in [Reqs -> TunnelReqs] /\ Running(q) /\ req[q].down = "add" /\ UNCHANGED <<connVars, sessionVars>>
  BY Zenon DEF TunnelState, TunnelTypes, DownAdds
<1>1. PICK c \in Conns : c = req[q].conn
  BY <1>0, TunnelFields, Zenon DEF Running
<1>2. req[q] \in Tunnel /\ sendQueue \in [Conns -> 0 .. SendCap] /\ sent \in [Conns -> BOOLEAN]
  BY <1>0, TunnelFields, Zenon DEF Running, TunnelState, TunnelTypes
<1>3. PICK down \in {"read", "full"} : req' = [req EXCEPT ![q] = [req[q] EXCEPT !.down = down]]
  BY Zenon DEF DownAdds, Goes
<1> DEFINE state == [req[q] EXCEPT !.down = down]
<1>4. /\ state \in TunnelReqs /\ state.pc = "tunnel" /\ state.conn = c /\ state.down = down
      /\ state.main = req[q].main /\ state.sock = req[q].sock
  BY <1>1, <1>2, Zenon DEF TunnelReqs, Tunnel
<1> HIDE DEF state
<1>5. req'[q] = state /\ \A p \in Reqs : p # q => req'[p] = req[p]
  BY <1>0, <1>3, Zenon DEF state
<1>6. /\ sendQueue' \in [Conns -> 0 .. SendCap] /\ sent' \in [Conns -> BOOLEAN]
      /\ sendQueue'[c] > 0
      /\ \A d \in Conns : d # c => sendQueue'[d] = sendQueue[d] /\ sent'[d] = sent[d]
  <2>1. CASE Room(c)
    <3>1. sendQueue' = [sendQueue EXCEPT ![c] = sendQueue[c] + 1] /\ sent' = sent
      BY <1>1, <2>1, Zenon DEF DownAdds
    <3>2. sendQueue[c] + 1 \in 0 .. SendCap /\ sendQueue[c] + 1 > 0
      BY <1>2, <2>1, TunnelAssumption DEF Room
    <3> QED BY <1>2, <3>1, <3>2, Zenon
  <2>2. CASE ~Room(c)
    <3>1. sent' = [sent EXCEPT ![c] = FALSE] /\ sendQueue' = sendQueue
      BY <1>1, <2>2, Zenon DEF DownAdds
    <3>2. sendQueue[c] > 0
      BY <1>2, <2>2, TunnelAssumption, SMTT(30) DEF Room
    <3> QED BY <1>2, <3>1, <3>2, Zenon
  <2> QED BY <2>1, <2>2, Zenon
<1>7. TunnelTypes'
  <2>1. req' \in [Reqs -> TunnelReqs]
    BY <1>0, <1>3, <1>4, Zenon DEF state
  <2> QED BY <1>0, <1>6, <2>1, Zenon DEF TunnelState, TunnelTypes, sessionVars
<1>8. conn' = conn
  BY <1>0, Zenon DEF connVars
<1>9. Attached' /\ Settled'
  BY <1>0, <1>1, <1>4, <1>5, <1>8, SMTT(30) DEF TunnelState, Attached, Settled, Running
<1>10. ASSUME NEW p \in Reqs, NEW d \in Conns, Blocked(p, d)', conn'[d] = "open" PROVE Waker(d)'
  <2>1. CASE d = c
    BY <1>6, <2>1, Zenon DEF Waker
  <2>2. CASE d # c
    <3>1. Blocked(p, d)
      BY <1>4, <1>5, <1>10, <2>2, Zenon DEF Blocked, Running
    <3>2. Waker(d)
      BY <1>8, <1>10, <3>1, Zenon DEF TunnelState, Woke
    <3> QED BY <1>1, <1>4, <1>5, <1>6, <2>2, <3>2, Zenon DEF Waker, Running
  <2> QED BY <2>1, <2>2, Zenon
<1> QED BY <1>7, <1>9, <1>10, Zenon DEF TunnelState, Woke

\* A woken Add takes the token and tries again, which wakes the others in its stead; or
\* the connection is closed, and nobody waits for it.
LEMMA WakeMoves ==
  ASSUME TunnelState, NEW q \in Reqs, DownWakes(q)
  PROVE  TunnelState'
<1>0. /\ req \in [Reqs -> TunnelReqs] /\ Running(q) /\ req[q].down = "full"
      /\ UNCHANGED <<connVars, sessionVars, sendQueue>>
  BY Zenon DEF TunnelState, TunnelTypes, DownWakes
<1>1. PICK c \in Conns : c = req[q].conn
  BY <1>0, TunnelFields, Zenon DEF Running
<1>2. req[q] \in Tunnel /\ sent \in [Conns -> BOOLEAN]
  BY <1>0, TunnelFields, Zenon DEF Running, TunnelState, TunnelTypes
<1> DEFINE again == [req[q] EXCEPT !.down = "add"]
           ends == [req[q] EXCEPT !.down = "done", !.tx = FALSE]
<1>3. /\ again \in Tunnel /\ again.conn = c /\ again.down = "add"
      /\ again.main = req[q].main /\ again.sock = req[q].sock
      /\ ends \in Tunnel /\ ends.conn = c /\ ends.down = "done"
      /\ ends.main = req[q].main /\ ends.sock = req[q].sock
  BY <1>1, <1>2, Zenon DEF Tunnel
<1>4. PICK r \in Tunnel : /\ req' = [req EXCEPT ![q] = r] /\ r.conn = c
                          /\ r.main = req[q].main /\ r.sock = req[q].sock
                          /\ r.down = "add" \/ (r.down = "done" /\ conn[c] = "closed")
  <2>1. Goes(q, again) \/ (conn[c] = "closed" /\ Goes(q, ends))
    BY <1>1, Zenon DEF DownWakes, Woken, DownEnds
  <2> HIDE DEF again, ends
  <2> QED BY <1>3, <2>1, Zenon DEF Goes
<1>5. /\ req'[q] = r /\ r.pc = "tunnel" /\ r \in TunnelReqs
      /\ \A p \in Reqs : p # q => req'[p] = req[p]
  BY <1>0, <1>4, Zenon DEF Tunnel, TunnelReqs
<1>6. sent' \in [Conns -> BOOLEAN] /\ \A d \in Conns : d # c => sent'[d] = sent[d]
  BY <1>1, <1>2, Zenon DEF DownWakes
<1>7. conn' = conn /\ sendQueue' = sendQueue
  BY <1>0, Zenon DEF connVars
<1>8. TunnelTypes'
  <2>1. req' \in [Reqs -> TunnelReqs]
    BY <1>0, <1>4, <1>5, Zenon
  <2> QED BY <1>0, <1>6, <2>1, Zenon DEF TunnelState, TunnelTypes, sessionVars
<1>9. Attached' /\ Settled'
  BY <1>0, <1>1, <1>4, <1>5, <1>7, SMTT(30) DEF TunnelState, Attached, Settled, Running
<1>10. ASSUME NEW p \in Reqs, NEW d \in Conns, Blocked(p, d)', conn'[d] = "open" PROVE Waker(d)'
  <2>1. CASE d = c
    <3>1. r.down = "add"
      BY <1>4, <1>7, <1>10, <2>1, Zenon
    <3> QED BY <1>4, <1>5, <2>1, <3>1, Zenon DEF Waker, Running
  <2>2. CASE d # c
    <3>1. Blocked(p, d)
      BY <1>4, <1>5, <1>10, <2>2, Zenon DEF Blocked, Running
    <3>2. Waker(d)
      BY <1>7, <1>10, <3>1, Zenon DEF TunnelState, Woke
    <3> QED BY <1>1, <1>4, <1>5, <1>6, <1>7, <2>2, <3>2, Zenon DEF Waker, Running
  <2> QED BY <2>1, <2>2, Zenon
<1> QED BY <1>8, <1>9, <1>10, Zenon DEF TunnelState, Woke

\* Pop leaves the token behind.
LEMMA PopMoves ==
  ASSUME TunnelState, NEW c \in Conns, Pops(c)
  PROVE  TunnelState'
<1>0. UNCHANGED <<conn, req, sessionVars>>
  BY Zenon DEF Pops, relayVars, connVars
<1>1. sendQueue \in [Conns -> 0 .. SendCap] /\ sent \in [Conns -> BOOLEAN]
  BY Zenon DEF TunnelState, TunnelTypes
<1>2. sendQueue[c] - 1 \in 0 .. SendCap
  BY <1>1, TunnelAssumption DEF Pops
<1>3. /\ sendQueue' \in [Conns -> 0 .. SendCap] /\ sent' \in [Conns -> BOOLEAN] /\ sent'[c]
      /\ \A d \in Conns : d # c => sendQueue'[d] = sendQueue[d] /\ sent'[d] = sent[d]
  BY <1>1, <1>2, Zenon DEF Pops
<1>4. TunnelTypes' /\ Attached' /\ Settled'
  BY <1>0, <1>3, Zenon DEF TunnelState, TunnelTypes, Attached, Settled, Running, sessionVars
<1>5. ASSUME NEW q \in Reqs, NEW d \in Conns, Blocked(q, d)', conn'[d] = "open" PROVE Waker(d)'
  <2>1. CASE d = c
    BY <1>3, <2>1, Zenon DEF Waker
  <2>2. CASE d # c
    <3>1. Waker(d)
      BY <1>0, <1>5, Zenon DEF TunnelState, Woke, Blocked, Running
    <3> QED BY <1>0, <1>3, <2>2, <3>1, Zenon DEF Waker, Running
  <2> QED BY <2>1, <2>2, Zenon
<1> QED BY <1>4, <1>5, Zenon DEF TunnelState, Woke

\* A phase of Close.
LEMMA PhaseMoves ==
  ASSUME TunnelState, UNCHANGED <<conn, req, activeSessions, activeByAddress, queueVars>>, phase' \in Phases
  PROVE  TunnelState'
<1>1. TunnelTypes' /\ Attached' /\ Settled'
  BY Zenon DEF TunnelState, TunnelTypes, Attached, Settled, Running, queueVars
<1>2. Woke'
  BY Zenon DEF TunnelState, Woke, Waker, Blocked, Running, queueVars
<1> QED BY <1>1, <1>2, Zenon DEF TunnelState

--------------------------------------------------------------------------------
(* Every step keeps the invariant. *)

\* The goroutines, in every step that touches no queue.
LEMMA GoroutinesKeep ==
  ASSUME TunnelState, NEW q \in Reqs,
         OutsidePart(q) \/ MainRuns(q) \/ UpStops(q) \/ DownStops(q) \/ ProxyCancels(q)
  PROVE  TunnelState' /\ UNCHANGED connVars
<1>0. req[q] \in TunnelReqs /\ Running(q) /\ UNCHANGED <<connVars, sessionVars, queueVars>>
  BY Zenon DEF TunnelState, TunnelTypes, OutsidePart, MainRuns, MainLeavesCapsules, MainMeetsFrame,
         LeavesCapsules, MainEnds, PeerStopsSending, UpFails, UpStops, DownReads, DownStops, ProxyCancels, Open
<1>1. req[q] \in Tunnel
  BY <1>0, TunnelFields, Zenon DEF Running
<1>2. req[q].main = "waiting" => ~req[q].sock
  BY <1>0, Zenon DEF TunnelState, Settled
<1>3. UNCHANGED connVars
  BY <1>0, Zenon
<1>4. CASE MainLeavesCapsules(q) \/ MainMeetsFrame(q) \/ ProxyCancels(q)
  <2> DEFINE leaves == [req[q] EXCEPT !.main = "waiting", !.rx = FALSE, !.tx = FALSE, !.sock = FALSE]
             meets == [req[q] EXCEPT !.main = "waiting", !.rx = req[q].rx, !.tx = FALSE, !.sock = FALSE]
             closes == [req[q] EXCEPT !.rx = FALSE, !.tx = FALSE, !.sock = FALSE]
  <2>1. /\ leaves \in Tunnel /\ leaves.conn = req[q].conn /\ ~leaves.sock /\ leaves.down = req[q].down
        /\ meets \in Tunnel /\ meets.conn = req[q].conn /\ ~meets.sock /\ meets.down = req[q].down
        /\ closes \in Tunnel /\ closes.conn = req[q].conn /\ ~closes.sock /\ closes.down = req[q].down
    BY <1>1, Zenon DEF Tunnel
  <2>2. Goes(q, leaves) \/ Goes(q, meets) \/ Goes(q, closes)
    BY <1>4, Zenon DEF MainLeavesCapsules, MainMeetsFrame, LeavesCapsules, ProxyCancels, ClosesEntry
  <2>3. /\ leaves.pc = "tunnel" /\ meets.pc = "tunnel" /\ closes.pc = "tunnel"
        /\ leaves \in TunnelReqs /\ meets \in TunnelReqs /\ closes \in TunnelReqs
    BY <2>1, Zenon DEF Tunnel, TunnelReqs
  <2> HIDE DEF leaves, meets, closes
  <2> QED BY <1>0, <1>3, <2>1, <2>2, <2>3, GoroutineMoves, Zenon
<1>5. CASE MainEnds(q)
  <2> DEFINE state == [pc |-> "leaving", conn |-> req[q].conn, key |-> req[q].key]
  <2>1. state \in TunnelReqs /\ state.conn = req[q].conn /\ state.pc = "leaving"
    BY <1>1, ZenonT(30) DEF Tunnel, Holder, TunnelReqs
  <2>2. Goes(q, state) /\ req[q].down = "done"
    BY <1>5, Zenon DEF MainEnds, WaitReturns
  <2> HIDE DEF state
  <2> QED BY <1>0, <1>3, <2>1, <2>2, GoroutineMoves, Zenon
<1>6. CASE PeerStopsSending(q) \/ UpFails(q) \/ UpStops(q)
  <2> DEFINE stops == [req[q] EXCEPT !.tx = FALSE]
             ends == [req[q] EXCEPT !.up = "done", !.tx = FALSE]
  <2>1. /\ stops \in Tunnel /\ stops.conn = req[q].conn /\ stops.sock = req[q].sock
        /\ stops.down = req[q].down /\ stops.main = req[q].main
        /\ ends \in Tunnel /\ ends.conn = req[q].conn /\ ends.sock = req[q].sock
        /\ ends.down = req[q].down /\ ends.main = req[q].main
    BY <1>1, Zenon DEF Tunnel
  <2>2. Goes(q, stops) \/ Goes(q, ends)
    BY <1>6, Zenon DEF PeerStopsSending, UpFails, UpStops, UpEnds
  <2>3. stops.pc = "tunnel" /\ ends.pc = "tunnel" /\ stops \in TunnelReqs /\ ends \in TunnelReqs
    BY <2>1, ZenonT(30) DEF Tunnel, TunnelReqs
  <2> HIDE DEF stops, ends
  <2> QED BY <1>0, <1>2, <1>3, <2>1, <2>2, <2>3, GoroutineMoves, Zenon
<1>7. CASE DownReads(q) \/ DownStops(q)
  <2> DEFINE adds == [req[q] EXCEPT !.down = "add"]
             ends == [req[q] EXCEPT !.down = "done", !.tx = FALSE]
  <2>1. /\ adds \in Tunnel /\ adds.conn = req[q].conn /\ adds.sock = req[q].sock
        /\ adds.down = "add" /\ adds.main = req[q].main
        /\ ends \in Tunnel /\ ends.conn = req[q].conn /\ ends.sock = req[q].sock
        /\ ends.down = "done" /\ ends.main = req[q].main
    BY <1>1, Zenon DEF Tunnel
  <2>2. (Goes(q, adds) \/ Goes(q, ends)) /\ req[q].down = "read"
    BY <1>7, Zenon DEF DownReads, DownStops, DownEnds
  <2>3. adds.pc = "tunnel" /\ ends.pc = "tunnel" /\ adds \in TunnelReqs /\ ends \in TunnelReqs
    BY <2>1, Zenon DEF Tunnel, TunnelReqs
  <2> HIDE DEF adds, ends
  <2> QED BY <1>0, <1>2, <1>3, <2>1, <2>2, <2>3, GoroutineMoves, Zenon
<1> QED BY <1>4, <1>5, <1>6, <1>7, Zenon DEF OutsidePart, MainRuns

\* The steps of a tunnel that goes on.
RunsOn(q) == OutsidePart(q) \/ UpStops(q) \/ DownRuns(q) \/ ProxyCancels(q)

\* They are steps of a running tunnel.
LEMMA RunsOnRunning == ASSUME NEW q \in Reqs, RunsOn(q) PROVE Running(q)
BY Zenon  DEF RunsOn, OutsidePart, DownRuns, MainLeavesCapsules, MainMeetsFrame, LeavesCapsules,
       PeerStopsSending, UpFails, UpStops, DownReads,
       DownStops, DownAdds, DownWakes, ProxyCancels, Open

\* They leave the tunnel registered, on its connection and under its key.
LEMMA RunsOnMoves ==
  ASSUME NEW q \in Reqs, req[q] \in Tunnel, RunsOn(q)
  PROVE  /\ \E r \in Tunnel : Goes(q, r) /\ r.pc = "tunnel" /\ r.conn = req[q].conn /\ r.key = req[q].key
         /\ UNCHANGED <<connVars, sessionVars>>
<1> DEFINE Fits(r) == r \in Tunnel /\ r.pc = "tunnel" /\ r.conn = req[q].conn /\ r.key = req[q].key
           leaves == [req[q] EXCEPT !.main = "waiting", !.rx = FALSE, !.tx = FALSE, !.sock = FALSE]
           meets == [req[q] EXCEPT !.main = "waiting", !.rx = req[q].rx, !.tx = FALSE, !.sock = FALSE]
           closes == [req[q] EXCEPT !.rx = FALSE, !.tx = FALSE, !.sock = FALSE]
           stops == [req[q] EXCEPT !.tx = FALSE]
           upEnds == [req[q] EXCEPT !.up = "done", !.tx = FALSE]
           downEnds == [req[q] EXCEPT !.down = "done", !.tx = FALSE]
           down(d) == [req[q] EXCEPT !.down = d]
<1>1. Fits(leaves) /\ Fits(meets) /\ Fits(closes) /\ Fits(stops) /\ Fits(upEnds) /\ Fits(downEnds)
  BY Zenon DEF Tunnel
<1>2. Fits(down("read")) /\ Fits(down("add")) /\ Fits(down("full"))
  BY Zenon DEF Tunnel
<1>3. CASE MainLeavesCapsules(q) \/ MainMeetsFrame(q) \/ ProxyCancels(q)
  BY <1>1, <1>3, Zenon DEF MainLeavesCapsules, MainMeetsFrame, LeavesCapsules, ProxyCancels, ClosesEntry
<1>4. CASE PeerStopsSending(q) \/ UpFails(q) \/ UpStops(q)
  BY <1>1, <1>4, Zenon DEF PeerStopsSending, UpFails, UpStops, UpEnds
<1>5. CASE DownReads(q) \/ DownStops(q)
  BY <1>1, <1>2, <1>5, Zenon DEF DownReads, DownStops, DownEnds
<1>6. CASE DownAdds(q) \/ DownWakes(q)
  BY <1>1, <1>2, <1>6, Zenon DEF DownAdds, DownWakes, DownEnds, Woken
<1> QED BY <1>3, <1>4, <1>5, <1>6, Zenon DEF RunsOn, OutsidePart, DownRuns

\* What RelaySessions has and Tunnels does not detail.
LEMMA RelayPartKeeps == ASSUME TunnelInv, RelayPart PROVE TunnelInv'
<1>0. ConnInv /\ ConnTypeOK /\ TunnelState /\ UNCHANGED queueVars
  BY Zenon DEF TunnelInv, ConnInv, RelayPart
<1>1. CASE ConnectionPart
  BY <1>0, <1>1, ConnectionKeeps, ConnectionTunnelMoves, Zenon DEF TunnelInv
<1>2. ASSUME NEW q \in Reqs, AuthorizePart(q) PROVE TunnelInv'
  BY <1>0, <1>2, AuthorizeMoves, ConnStutters, Zenon DEF TunnelInv
<1>3. ASSUME NEW q \in Reqs, HandlerPart(q) PROVE TunnelInv'
  <2>1. ConnInv'
    BY <1>0, <1>3, ConnStutters, Zenon DEF HandlerPart, Answers, Acquires, DialFails, Leaves
  <2>2. CASE Acquires(q)
    BY <1>0, <2>1, <2>2, AcquireMoves, Zenon DEF TunnelInv
  <2>3. CASE Answers(q) \/ DialFails(q) \/ Leaves(q)
    <3>1. ~Running(q) /\ Goes(q, NoReq) /\ UNCHANGED <<connVars, phase, queueVars>>
      BY <1>0, <2>3, Zenon DEF Answers, DialFails, Leaves, Running, sessionVars
    <3>2. \/ UNCHANGED <<activeSessions, activeByAddress>>
          \/ req[q].pc \in {"acquired", "leaving"} /\ Release(q, req[q].key)
      BY <2>3, Zenon DEF Answers, DialFails, Leaves, sessionVars
    <3> QED BY <1>0, <2>1, <3>1, <3>2, EndMoves, Zenon DEF TunnelInv
  <2> QED BY <1>3, <2>2, <2>3, Zenon DEF HandlerPart
<1>4. CASE \E c \in Conns : ConnStops(c)
  <2>1. PICK c \in Conns : ConnStops(c)
    BY <1>4, Zenon
  <2>2. ConnInv'
    BY <1>0, <2>1, CloseKeeps, Zenon DEF ConnStops
  <2> QED BY <1>0, <1>4, <2>2, ConnectionTunnelMoves, Zenon DEF TunnelInv
<1>5. CASE CloseBegins \/ ServerCloses \/ TicketsClose
  <2>1. UNCHANGED <<connVars, req, activeSessions, activeByAddress>> /\ phase' \in Phases
    BY <1>5, Zenon DEF CloseBegins, ServerCloses, TicketsClose, ClosePhase, Phases
  <2>2. UNCHANGED <<conn, req, activeSessions, activeByAddress, queueVars>>
    BY <1>0, <2>1, Zenon DEF connVars
  <2> QED BY <1>0, <2>1, <2>2, PhaseMoves, ConnStutters, Zenon DEF TunnelInv
<1> QED BY <1>1, <1>2, <1>3, <1>4, <1>5, Zenon DEF RelayPart, StopPart

\* Every step.
LEMMA TunnelInvStep == ASSUME TunnelInv, [TunnelsNext]_tunnelVars PROVE TunnelInv'
<1>0. ConnInv /\ TunnelState
  BY Zenon DEF TunnelInv
<1>1. ASSUME NEW q \in Reqs,
             OutsidePart(q) \/ MainRuns(q) \/ UpStops(q) \/ DownStops(q) \/ ProxyCancels(q)
      PROVE TunnelInv'
  BY <1>0, <1>1, GoroutinesKeep, ConnStutters, Zenon DEF TunnelInv
<1>2. ASSUME NEW q \in Reqs, Registers(q) PROVE TunnelInv'
  <2>1. UNCHANGED connVars
    BY <1>2, Zenon DEF Registers
  <2> QED BY <1>0, <1>2, <2>1, RegisterMoves, ConnStutters, Zenon DEF TunnelInv
<1>3. ASSUME NEW q \in Reqs, DownAdds(q) \/ DownWakes(q) PROVE TunnelInv'
  <2>1. UNCHANGED connVars
    BY <1>3, Zenon DEF DownAdds, DownWakes
  <2> QED BY <1>0, <1>3, <2>1, AddMoves, WakeMoves, ConnStutters, Zenon DEF TunnelInv
<1>4. ASSUME NEW c \in Conns, Pops(c) PROVE TunnelInv'
  <2>1. UNCHANGED connVars
    BY <1>4, Zenon DEF Pops, relayVars
  <2> QED BY <1>0, <1>4, <2>1, PopMoves, ConnStutters, Zenon DEF TunnelInv
<1>5. CASE ProxyLocks \/ ProxyUnlocks
  <2>1. UNCHANGED <<connVars, req, activeSessions, activeByAddress, queueVars>> /\ phase' \in Phases
    BY <1>5, Zenon DEF ProxyLocks, ProxyUnlocks, ClosePhase, Phases
  <2>2. conn' = conn
    BY <2>1, Zenon DEF connVars
  <2> QED BY <1>0, <2>1, <2>2, PhaseMoves, ConnStutters, Zenon DEF TunnelInv
<1>6. CASE UNCHANGED tunnelVars
  <2>1. UNCHANGED <<connVars, conn, req, activeSessions, activeByAddress, queueVars, phase>>
    BY <1>6, Zenon DEF tunnelVars, relayVars, sessionVars, connVars
  <2>2. phase' \in Phases
    BY <1>0, <2>1, Zenon DEF TunnelState, TunnelTypes
  <2> QED BY <1>0, <2>1, <2>2, PhaseMoves, ConnStutters, Zenon DEF TunnelInv
<1> QED BY <1>1, <1>2, <1>3, <1>4, <1>5, <1>6, RelayPartKeeps, Zenon DEF TunnelsNext, DownRuns, ProxyClosePart

\* Nothing runs and nothing is queued at the start.
LEMMA TunnelInvInit == ASSUME TunnelsInit PROVE TunnelInv
<1>1. ConnInv
  BY RelayInvInit, Zenon DEF TunnelsInit, RelayInv
<1>2. TunnelTypes
  <2>1. NoReq \in TunnelReqs /\ 0 \in 0 .. SendCap /\ 0 \in 0 .. MaxSessions /\ 0 \in 0 .. SourceSessions
    BY SessionAssumption, TunnelAssumption DEF TunnelReqs
  <2> QED BY <2>1, Zenon DEF TunnelsInit, RelayInit, TunnelTypes, Phases
<1>3. \A q \in Reqs : req[q].pc = "idle"
  BY Zenon DEF TunnelsInit, RelayInit, NoReq
<1>4. Attached /\ Settled /\ Woke
  BY <1>3, Zenon DEF Attached, Settled, Woke, Blocked, Running
<1> QED BY <1>1, <1>2, <1>4, Zenon DEF TunnelInv, TunnelState

\* The invariant of the tunnels.
THEOREM TunnelInvariant == TunnelsSafety => []TunnelInv
<1>1. TunnelsInit => TunnelInv
  BY TunnelInvInit, Zenon
<1>2. TunnelInv /\ [TunnelsNext]_tunnelVars => TunnelInv'
  BY TunnelInvStep, Zenon
<1> QED BY <1>1, <1>2, PTL DEF TunnelsSafety

\* No wakeup is lost: a goroutine that waits in Add on an open connection has a token, a
\* queued datagram or another Add to wake it (datagramQueue.Add, Pop), whatever the
\* tunnels of the connection, the connection and Proxy.Close do meanwhile.
THEOREM WakeupsNeverLost == TunnelsSafety => []NoLostWakeup
<1>1. TunnelInv => TunnelsTypeOK
  <2> SUFFICES ASSUME TunnelInv PROVE TunnelsTypeOK
    BY Zenon
  <2>1. TunnelReqs \subseteq {NoReq} \union Authorized \union Acquired \union Tunnel
    BY Zenon DEF TunnelReqs, Holder, Acquired
  <2>2. req \in [Reqs -> {NoReq} \union Authorized \union Acquired \union Tunnel]
    BY <2>1, Zenon DEF TunnelInv, TunnelState, TunnelTypes
  <2> QED BY <2>2, Zenon DEF TunnelInv, ConnInv, TunnelState, TunnelTypes, TunnelsTypeOK
<1>2. ASSUME TunnelInv, NEW q \in Reqs, Running(q), req[q].down = "full", conn[req[q].conn] = "open"
      PROVE  Waker(req[q].conn)
  <2>1. req[q].conn \in Conns
    BY <1>2, TunnelFields, Zenon DEF TunnelInv, TunnelState, TunnelTypes, Running
  <2> QED BY <1>2, <2>1, Zenon DEF TunnelInv, TunnelState, Woke, Blocked
<1>3. TunnelInv => NoLostWakeup
  BY <1>1, <1>2, Zenon DEF NoLostWakeup, Waker
<1> QED BY <1>3, TunnelInvariant, PTL

\* No goroutine is left behind: a session is released when both goroutines have ended and
\* the socket is closed (ProxyConnectedSocket, wg.Wait; Proxy.Close, refCount.Wait).
THEOREM TunnelsLeaveNothing == TunnelsSafety => NothingLeftRunning
<1>1. ASSUME TunnelInv, TunnelsNext, NEW p \in Reqs, Running(p), ~Running(p)'
      PROVE  MainEnds(p)
  <2>0. req \in [Reqs -> TunnelReqs] /\ req[p] \in Tunnel /\ req[p].pc = "tunnel"
    BY <1>1, TunnelFields, Zenon DEF TunnelInv, TunnelState, TunnelTypes, Running
  <2>1. req' # req
    BY <1>1, Zenon DEF Running
  <2>2. ASSUME NEW q \in Reqs, NEW state, Goes(q, state) PROVE q = p /\ state.pc # "tunnel"
    BY <1>1, <2>0, <2>2, Zenon DEF Goes, Running
  <2>3. ASSUME NEW q \in Reqs, HandlerPart(q) \/ Registers(q) PROVE FALSE
    <3>1. req[q].pc # "tunnel" /\ \E state : Goes(q, state)
      BY <2>3, Zenon DEF HandlerPart, Answers, Acquires, DialFails, Leaves, Registers
    <3> QED BY <2>0, <2>2, <3>1, Zenon
  <2>4. ASSUME NEW q \in Reqs, AuthorizePart(q), UNCHANGED queueVars PROVE FALSE
    <3>1. Arrives(q)
      BY <1>1, <2>4, AuthorizeMoves, Zenon DEF TunnelInv
    <3>2. req[q] = NoReq /\ \E state : Goes(q, state)
      BY <3>1, Zenon DEF Arrives
    <3> QED BY <2>0, <2>2, <3>2, SMTT(30) DEF NoReq
  <2>5. ASSUME NEW q \in Reqs, RunsOn(q) PROVE FALSE
    <3>1. Running(q)
      BY <2>5, RunsOnRunning, Zenon
    <3>2. req[q] \in Tunnel
      BY <2>0, <3>1, TunnelFields, Zenon DEF Running
    <3>3. PICK state : Goes(q, state) /\ state.pc = "tunnel"
      BY <2>5, <3>2, RunsOnMoves, Zenon
    <3> QED BY <2>2, <3>3, Zenon
  <2>6. CASE ConnectionPart \/ CloseBegins \/ StopPart \/ ProxyLocks \/ ProxyUnlocks
             \/ \E c \in Conns : Pops(c)
    BY <2>1, <2>6, Zenon DEF ConnectionPart, CloseBegins, StopPart, ServerCloses, TicketsClose, ConnStops,
       ProxyLocks, ProxyUnlocks, Pops, relayVars
  <2>7. ASSUME NEW q \in Reqs, MainEnds(q) PROVE MainEnds(p)
    BY <2>2, <2>7, Zenon DEF MainEnds
  <2> QED BY <1>1, <2>3, <2>4, <2>5, <2>6, <2>7, Zenon
          DEF TunnelsNext, RelayPart, MainRuns, OutsidePart, ProxyClosePart, RunsOn
<1>2. ASSUME TunnelInv, NEW q \in Reqs, MainEnds(q)
      PROVE  req[q].up = "done" /\ req[q].down = "done" /\ ~req[q].sock
  BY <1>2, Zenon DEF MainEnds, WaitReturns, TunnelInv, TunnelState, Settled
<1>3. TunnelInv /\ [TunnelsNext]_tunnelVars =>
        [\A q \in Reqs : Running(q) /\ ~Running(q)' =>
           req[q].up = "done" /\ req[q].down = "done" /\ ~req[q].sock]_tunnelVars
  BY <1>1, <1>2, Zenon
<1> QED BY <1>3, TunnelInvariant, PTL DEF TunnelsSafety, NothingLeftRunning

--------------------------------------------------------------------------------
(* The refinement of RelaySessions. *)

\* The requests as RelaySessions sees them.
absReq == [q \in Reqs |-> Abstract(q)]
AbsState(r) == IF r.pc = "tunnel" THEN [pc |-> "tunnel", conn |-> r.conn, key |-> r.key] ELSE r

\* A request that moves here moves there.
LEMMA AbsGoes ==
  ASSUME req \in [Reqs -> TunnelReqs], NEW q \in Reqs, NEW state, Goes(q, state)
  PROVE  absReq' = [absReq EXCEPT ![q] = AbsState(state)] /\ Relay!Goes(q, AbsState(state))
<1>1. req'[q] = state /\ \A p \in Reqs : p # q => req'[p] = req[p]
  BY Zenon DEF Goes
<1>2. absReq' = [absReq EXCEPT ![q] = AbsState(state)]
  BY <1>1, Zenon DEF absReq, Abstract, AbsState, Running
<1> QED BY <1>2, Zenon DEF Relay!Goes, absReq

\* The connections are the same here and there.
LEMMA ConnectionImplements ==
  ASSUME ConnectionPart
  PROVE  Relay!ConnectionPart
<1>0. UNCHANGED <<req, sessionVars>>
  BY Zenon  DEF ConnectionPart
<1>1. UNCHANGED <<absReq, activeSessions, activeByAddress, phase>>
  BY <1>0, Zenon DEF absReq, Abstract, Running, sessionVars
<1>2. UNCHANGED Relay!sessionVars
  BY <1>1, Zenon DEF Relay!sessionVars
<1>3. Accepting => Relay!Accepting
  BY Zenon DEF Accepting, Relay!Accepting
<1>4. ASSUME NEW c \in Conns, Accept(c) \/ Refuse(c) PROVE Relay!Accept(c) \/ Relay!Refuse(c)
  BY <1>4, Zenon DEF Accept, Refuse, Arm, Groups, Relay!Accept, Relay!Refuse, Relay!Arm, Relay!Groups,
     countVars, authVars, Relay!countVars, Relay!authVars
<1>5. ASSUME NEW c \in Conns, PeerCloses(c) PROVE Relay!PeerCloses(c)
  BY <1>5, Zenon DEF PeerCloses, Close, Relay!PeerCloses, Relay!Close,
     countVars, authVars, Relay!countVars, Relay!authVars
<1>6. ASSUME NEW c \in Conns, CallbackCounts(c) PROVE Relay!CallbackCounts(c)
  BY <1>6, Zenon DEF CallbackCounts, Uncount, Groups, Relay!CallbackCounts, Relay!Uncount, Relay!Groups,
     authVars, Relay!authVars
<1>7. ASSUME NEW c \in Conns, CallbackStops(c) PROVE Relay!CallbackStops(c)
  BY <1>7, Zenon DEF CallbackStops, NoTimer, Relay!CallbackStops, Relay!NoTimer, countVars, Relay!countVars
<1>8. ASSUME NEW c \in Conns, TimerFires(c) PROVE Relay!TimerFires(c)
  BY <1>8, Zenon DEF TimerFires, NoTimer, Relay!TimerFires, Relay!NoTimer, countVars, Relay!countVars
<1>9. ASSUME NEW x \in expiring, ExpireLoads(x) PROVE Relay!ExpireLoads(x)
  BY <1>9, Zenon DEF ExpireLoads, Loads, Relay!ExpireLoads, Relay!Loads,
     countVars, authVars, Relay!countVars, Relay!authVars
<1>10. ASSUME NEW x \in expiring, ExpireCloses(x) PROVE Relay!ExpireCloses(x)
  BY <1>10, Zenon DEF ExpireCloses, Close, Relay!ExpireCloses, Relay!Close,
     countVars, authVars, Relay!countVars, Relay!authVars
<1>11. Passes => Relay!Passes
  BY Zenon DEF Passes, Relay!Passes, countVars, authVars, Relay!countVars, Relay!authVars
<1>12. \/ Relay!Accepting /\ \E c \in Conns : Relay!Accept(c) \/ Relay!Refuse(c)
       \/ \E c \in Conns : \/ Relay!PeerCloses(c) \/ Relay!CallbackCounts(c)
                            \/ Relay!CallbackStops(c) \/ Relay!TimerFires(c)
       \/ \E x \in expiring : Relay!ExpireLoads(x) \/ Relay!ExpireCloses(x)
       \/ Relay!Passes
  BY <1>3, <1>4, <1>5, <1>6, <1>7, <1>8, <1>9, <1>10, <1>11, ZenonT(30) DEF ConnectionPart
<1> QED BY <1>1, <1>2, <1>12, Zenon DEF Relay!ConnectionPart, absReq

\* What the two specifications say alike.
LEMMA SameWords ==
  /\ UNCHANGED connVars => UNCHANGED Relay!connVars
  /\ Relay!NoReq = NoReq /\ Relay!Groups = Groups
  /\ Relay!closed <=> closed
  /\ phase # "cancelling" => (Relay!ProxyOpen <=> ProxyOpen) /\ (Relay!Accepting <=> Accepting)
  /\ UNCHANGED sessionVars => UNCHANGED Relay!sessionVars
  /\ \A k : Full(k) <=> Relay!Full(k)
  /\ \A q, k : Release(q, k) <=> Relay!Release(q, k)
<1>1. (UNCHANGED connVars => UNCHANGED Relay!connVars) /\ Relay!NoReq = NoReq /\ Relay!Groups = Groups
  BY Zenon DEF connVars, countVars, authVars, NoReq, Groups,
     Relay!connVars, Relay!countVars, Relay!authVars, Relay!NoReq, Relay!Groups
<1>2. Relay!closed <=> closed
  BY Zenon DEF closed, Relay!closed
<1>3. phase # "cancelling" => (Relay!ProxyOpen <=> ProxyOpen) /\ (Relay!Accepting <=> Accepting)
  BY Zenon DEF ProxyOpen, Accepting, Relay!ProxyOpen, Relay!Accepting
<1>4. UNCHANGED sessionVars => UNCHANGED Relay!sessionVars
  BY Zenon DEF sessionVars, Relay!sessionVars
<1>5. \A k : Full(k) <=> Relay!Full(k)
  BY <1>2, Zenon DEF Full, Relay!Full
<1>6. \A q, k : Release(q, k) <=> Relay!Release(q, k)
  BY Zenon DEF Release, Relay!Release
<1> QED BY <1>1, <1>2, <1>3, <1>4, <1>5, <1>6, Zenon

\* A request that is not in its tunnel is the same here and there.
LEMMA SameReq ==
  ASSUME NEW q \in Reqs, req[q].pc # "tunnel"
  PROVE  absReq[q] = req[q] /\ AbsState(req[q]) = req[q] /\ [p \in Reqs |-> Abstract(p)][q] = req[q]
BY Zenon DEF absReq, Abstract, Running, AbsState

\* A handler outside its tunnel does there what it does here.
LEMMA HandlerImplements ==
  ASSUME req \in [Reqs -> TunnelReqs], NEW q \in Reqs, HandlerPart(q)
  PROVE  Relay!HandlerPart(q)
<1>1. req[q].pc # "tunnel" /\ absReq[q] = req[q]
  BY SameReq, Zenon DEF HandlerPart, Answers, Acquires, DialFails, Leaves
<1>2. Goes(q, NoReq) => Relay!Goes(q, NoReq)
  <2>1. AbsState(NoReq) = NoReq
    BY Zenon DEF AbsState, NoReq
  <2> QED BY <2>1, AbsGoes, Zenon
<1>3. phase' = phase => UNCHANGED (IF phase = "cancelling" THEN "draining" ELSE phase)
  BY Zenon
<1>4. CASE Answers(q)
  <2>1. req[q].pc = "authorized" /\ Goes(q, NoReq) /\ UNCHANGED connVars /\ UNCHANGED sessionVars
    BY <1>4, Zenon DEF Answers
  <2>2. Relay!Goes(q, Relay!NoReq) /\ UNCHANGED <<Relay!connVars, Relay!sessionVars>>
    BY <1>2, <2>1, SameWords, Zenon
  <2> QED BY <1>1, <2>1, <2>2, Zenon DEF Relay!Answers, Relay!HandlerPart, absReq
<1>5. CASE DialFails(q) \/ Leaves(q)
  <2>1. /\ req[q].pc = "acquired" \/ req[q].pc = "leaving"
        /\ Release(q, req[q].key) /\ Goes(q, NoReq) /\ UNCHANGED connVars /\ phase' = phase
    BY <1>5, Zenon DEF DialFails, Leaves
  <2>2. Relay!Goes(q, Relay!NoReq) /\ UNCHANGED Relay!connVars /\ Relay!Release(q, absReq[q].key)
    BY <1>1, <1>2, <2>1, SameWords, Zenon
  <2> QED BY <1>1, <1>3, <2>1, <2>2, Zenon DEF Relay!DialFails, Relay!Leaves, Relay!HandlerPart, absReq
<1>6. CASE Acquires(q)
  <2>1. PICK k : k = IF req[q].account # 0 THEN req[q].account ELSE source[req[q].conn]
    BY Zenon
  <2> DEFINE state == [pc |-> "acquired", conn |-> req[q].conn, key |-> k]
  <2>2. AbsState(state) = state
    BY Zenon DEF AbsState
  <2>3. Goes(q, state) => Relay!Goes(q, state)
    BY <2>2, AbsGoes
  <2>4. IF Full(k)
        THEN Goes(q, NoReq) /\ UNCHANGED <<activeSessions, activeByAddress>>
        ELSE /\ activeSessions' = activeSessions + 1
             /\ activeByAddress' = [activeByAddress EXCEPT ![k] = @ + 1]
             /\ Goes(q, state)
    BY <1>6, <2>1, Zenon DEF Acquires
  <2>5. IF Relay!Full(k)
        THEN Relay!Goes(q, NoReq) /\ UNCHANGED <<activeSessions, activeByAddress>>
        ELSE /\ activeSessions' = activeSessions + 1
             /\ activeByAddress' = [activeByAddress EXCEPT ![k] = @ + 1]
             /\ Relay!Goes(q, state)
    BY <1>2, <2>3, <2>4, SameWords, ZenonT(30)
  <2>6. req[q].pc = "authorized" /\ UNCHANGED <<connVars, phase>>
    BY <1>6, Zenon DEF Acquires
  <2>7. Relay!Acquires(q)
    <3>1. Relay!Goes(q, NoReq) => Relay!Goes(q, Relay!NoReq)
      BY SameWords, Zenon
    <3>2. UNCHANGED Relay!connVars
      BY <2>6, SameWords, Zenon
    <3> QED BY <1>1, <1>3, <2>1, <2>5, <2>6, <3>1, <3>2, Zenon DEF Relay!Acquires, absReq
  <2> QED BY <2>7, Zenon DEF Relay!HandlerPart
<1> QED BY <1>4, <1>5, <1>6, Zenon DEF HandlerPart

\* A request arrives.
LEMMA ArriveImplements ==
  ASSUME TunnelState, NEW q \in Reqs, AuthorizePart(q), UNCHANGED queueVars
  PROVE  Relay!AuthorizePart(q)
<1>0. PICK state : state = IF Groups THEN [pc |-> "waiting", conn |-> StreamOf[q]]
                             ELSE [pc |-> "authorized", conn |-> StreamOf[q], account |-> 0]
  BY Zenon
<1>1. Arrives(q) /\ UNCHANGED connVars /\ UNCHANGED sessionVars /\ req \in [Reqs -> TunnelReqs]
  BY AuthorizeMoves, Zenon DEF TunnelState, TunnelTypes
<1>2. Accepting
  BY <1>1 DEF AuthorizePart, AuthorizeRuns, Decides, Renews, RedeemFails, Arrives, NoReq
<1>3. Relay!Accepting
  BY <1>2, Zenon DEF Accepting, Relay!Accepting
<1>4. req[q] = NoReq /\ conn[StreamOf[q]] = "open" /\ Goes(q, state) /\ AbsState(state) = state
  BY <1>0, <1>1, Zenon DEF Arrives, AbsState
<1>5. Relay!Goes(q, state) /\ absReq[q] = Relay!NoReq /\ UNCHANGED Relay!connVars /\ UNCHANGED Relay!sessionVars
  <2>1. Relay!Goes(q, state)
    BY <1>1, <1>4, AbsGoes, Zenon
  <2>2. req[q].pc # "tunnel"
    BY <1>4 DEF NoReq
  <2>3. absReq[q] = Relay!NoReq
    <3>1. absReq[q] = req[q] /\ Relay!NoReq = NoReq
      BY <2>2, SameReq, SameWords, Zenon
    <3> QED BY <1>4, <3>1, Zenon
  <2>4. UNCHANGED Relay!connVars /\ UNCHANGED Relay!sessionVars
    BY <1>1, SameWords, Zenon
  <2> QED BY <2>1, <2>3, <2>4, Zenon
<1>6. Relay!Arrives(q)
  BY <1>0, <1>4, <1>5, Zenon DEF Relay!Arrives, absReq, Groups, Relay!Groups
<1> QED BY <1>3, <1>5, <1>6, Zenon DEF Relay!AuthorizePart

\* A tunnel is registered, and ends.
LEMMA TunnelImplements ==
  ASSUME req \in [Reqs -> TunnelReqs], NEW q \in Reqs, Registers(q) \/ MainEnds(q)
  PROVE  Relay!TunnelStarts(q) \/ Relay!TunnelEnds(q)
<1>1. CASE Registers(q)
  <2> DEFINE state == [pc |-> "tunnel", conn |-> req[q].conn, key |-> req[q].key,
                       main |-> "capsules", up |-> "receive", down |-> "read",
                       rx |-> TRUE, tx |-> TRUE, sock |-> TRUE]
  <2>1. req[q].pc = "acquired" /\ phase # "cancelling" /\ UNCHANGED connVars /\ phase' = phase
    BY <1>1, Zenon DEF Registers, ProxyUnlocked
  <2>2. req[q] \in Holder /\ absReq[q] = req[q]
    BY <2>1, TunnelFields, SameReq, Zenon
  <2>3. AbsState(state) = [absReq[q] EXCEPT !.pc = "tunnel"] /\ AbsState(NoReq) = Relay!NoReq
    <3>1. [req[q] EXCEPT !.pc = "tunnel"] = [pc |-> "tunnel", conn |-> req[q].conn, key |-> req[q].key]
      BY <2>2 DEF Holder
    <3>2. AbsState(state) = [pc |-> "tunnel", conn |-> req[q].conn, key |-> req[q].key]
      BY Zenon DEF AbsState
    <3>3. AbsState(NoReq) = Relay!NoReq
      BY SameWords, Zenon DEF AbsState, NoReq
    <3> QED BY <2>2, <3>1, <3>2, <3>3, Zenon
  <2>4. (Goes(q, state) => Relay!Goes(q, AbsState(state))) /\ (Goes(q, NoReq) => Relay!Goes(q, AbsState(NoReq)))
    BY AbsGoes, Zenon
  <2>5. IF ProxyOpen THEN Goes(q, state) /\ UNCHANGED <<activeSessions, activeByAddress>>
        ELSE Release(q, req[q].key) /\ Goes(q, NoReq)
    BY <1>1, ZenonT(30) DEF Registers, MayRegister
  <2>6. /\ UNCHANGED Relay!connVars /\ (Relay!ProxyOpen <=> ProxyOpen)
        /\ Release(q, req[q].key) => Relay!Release(q, absReq[q].key)
    BY <2>1, <2>2, SameWords, Zenon
  <2>7. UNCHANGED (IF phase = "cancelling" THEN "draining" ELSE phase)
    BY <2>1, Zenon
  <2> HIDE DEF state
  <2> QED BY <2>1, <2>2, <2>3, <2>4, <2>5, <2>6, <2>7, ZenonT(30) DEF Relay!TunnelStarts, absReq
<1>2. CASE MainEnds(q)
  <2> DEFINE state == [pc |-> "leaving", conn |-> req[q].conn, key |-> req[q].key]
  <2>1. req[q].pc = "tunnel" /\ Goes(q, state) /\ UNCHANGED connVars /\ UNCHANGED sessionVars
    BY <1>2, Zenon DEF MainEnds, Running
  <2>2. absReq[q] = [pc |-> "tunnel", conn |-> req[q].conn, key |-> req[q].key]
    BY <2>1, Zenon DEF absReq, Abstract, Running
  <2>3. AbsState(state) = [absReq[q] EXCEPT !.pc = "leaving"] /\ absReq[q].pc = "tunnel"
    <3>1. AbsState(state) = state
      BY Zenon DEF AbsState
    <3>2. [absReq[q] EXCEPT !.pc = "leaving"] = state /\ absReq[q].pc = "tunnel"
      BY <2>2, SMTT(30)
    <3> QED BY <3>1, <3>2, Zenon
  <2>4. Relay!Goes(q, AbsState(state)) /\ UNCHANGED <<Relay!connVars, Relay!sessionVars>>
    BY <2>1, AbsGoes, SameWords, Zenon
  <2> QED BY <2>3, <2>4, Zenon DEF Relay!TunnelEnds, absReq
<1> QED BY <1>1, <1>2, Zenon

\* A tunnel that goes on is the same tunnel there.
LEMMA RunsOnImplements ==
  ASSUME req \in [Reqs -> TunnelReqs], NEW q \in Reqs, RunsOn(q)
  PROVE  UNCHANGED Relay!relayVars
<1>1. req[q].pc = "tunnel" /\ req[q] \in Tunnel
  BY RunsOnRunning, TunnelFields, Zenon DEF Running
<1>2. PICK r \in Tunnel : Goes(q, r) /\ r.pc = "tunnel" /\ r.conn = req[q].conn /\ r.key = req[q].key
  BY <1>1, RunsOnMoves, Zenon
<1>3. UNCHANGED connVars /\ UNCHANGED sessionVars
  BY <1>1, RunsOnMoves, Zenon
<1>4. AbsState(r) = absReq[q]
  BY <1>1, <1>2, Zenon DEF AbsState, absReq, Abstract, Running
<1>5. absReq' = absReq
  <2>1. absReq' = [absReq EXCEPT ![q] = absReq[q]]
    BY <1>2, <1>4, AbsGoes, Zenon
  <2> QED BY <2>1, Zenon DEF absReq
<1>6. UNCHANGED <<Relay!connVars, Relay!sessionVars>>
  BY <1>3, SameWords, Zenon
<1> QED BY <1>5, <1>6, Zenon DEF Relay!relayVars, absReq

\* Close, and Proxy.Close under its lock, whose last step is none there.
LEMMA CloseImplements ==
  ASSUME CloseBegins \/ StopPart \/ ProxyLocks \/ ProxyUnlocks
  PROVE  Relay!CloseBegins \/ Relay!ProxyCloses \/ Relay!StopPart \/ UNCHANGED Relay!relayVars
<1>1. ASSUME NEW c \in Conns, ConnStops(c) PROVE Relay!StopPart
  <2>1. phase = "stopping" /\ UNCHANGED <<absReq, activeSessions, activeByAddress, phase>>
    BY <1>1, Zenon DEF ConnStops, absReq, Abstract, Running, sessionVars
  <2>2. UNCHANGED Relay!sessionVars
    BY <2>1, Zenon DEF Relay!sessionVars
  <2>3. Relay!ConnStops(c)
    BY <1>1, <2>1, <2>2, Zenon DEF ConnStops, Close, Relay!ConnStops, Relay!Close, absReq,
       countVars, authVars, Relay!countVars, Relay!authVars
  <2> QED BY <2>3, Zenon DEF Relay!StopPart
<1>2. CASE CloseBegins \/ ServerCloses \/ TicketsClose \/ ProxyLocks \/ ProxyUnlocks
  <2>1. req' = req /\ UNCHANGED connVars /\ UNCHANGED <<activeSessions, activeByAddress>>
    BY <1>2, Zenon DEF CloseBegins, ServerCloses, TicketsClose, ProxyLocks, ProxyUnlocks
  <2>2. absReq' = absReq
    BY <2>1, Zenon DEF absReq, Abstract, Running
  <2>3. UNCHANGED Relay!connVars
    BY <2>1, SameWords, Zenon
  <2>4. CASE CloseBegins
    BY <2>1, <2>2, <2>3, <2>4, Zenon DEF CloseBegins, ClosePhase, Relay!CloseBegins, Relay!ClosePhase, absReq
  <2>5. CASE ProxyLocks
    BY <2>1, <2>2, <2>3, <2>5, Zenon DEF ProxyLocks, ClosePhase, Relay!ProxyCloses, Relay!ClosePhase, absReq
  <2>6. CASE ServerCloses
    <3>1. \A q \in Reqs : absReq[q].pc # "tunnel"
      BY <2>6, SameReq, Zenon DEF ServerCloses
    <3>2. Relay!ServerCloses
      BY <2>1, <2>2, <2>3, <2>6, <3>1, Zenon DEF ServerCloses, ClosePhase, Relay!ServerCloses, Relay!ClosePhase, absReq
    <3> QED BY <3>2, Zenon DEF Relay!StopPart
  <2>7. CASE TicketsClose
    <3>1. \A q \in Reqs : absReq[q] = Relay!NoReq
      <4>1. \A q \in Reqs : req[q] = NoReq
        BY <2>7, Zenon DEF TicketsClose
      <4>2. \A q \in Reqs : req[q].pc # "tunnel"
        BY <4>1, SMTT(30) DEF NoReq
      <4> QED BY <4>1, <4>2, SameReq, SameWords, Zenon
    <3>2. Relay!TicketsClose
      BY <2>1, <2>2, <2>3, <2>7, <3>1, Zenon DEF TicketsClose, ClosePhase, Relay!TicketsClose, Relay!ClosePhase, absReq
    <3> QED BY <3>2, Zenon DEF Relay!StopPart
  <2>8. CASE ProxyUnlocks
    <3>1. UNCHANGED Relay!sessionVars
      BY <2>1, <2>8, Zenon DEF ProxyUnlocks, ClosePhase, Relay!sessionVars
    <3> QED BY <2>2, <2>3, <3>1, Zenon DEF Relay!relayVars, absReq
  <2> QED BY <1>2, <2>4, <2>5, <2>6, <2>7, <2>8, Zenon
<1> QED BY <1>1, <1>2, Zenon DEF StopPart

\* Every step of the tunnels is a step of RelaySessions or none.
LEMMA TunnelStepImplements ==
  ASSUME TunnelInv, [TunnelsNext]_tunnelVars
  PROVE  [Relay!RelayNext]_Relay!relayVars
<1>0. TunnelState /\ req \in [Reqs -> TunnelReqs]
  BY Zenon DEF TunnelInv, TunnelState, TunnelTypes
<1>1. CASE RelayPart
  BY <1>0, <1>1, ConnectionImplements, ArriveImplements, HandlerImplements, CloseImplements, Zenon
     DEF RelayPart, Relay!RelayNext
<1>2. ASSUME NEW q \in Reqs, Registers(q) \/ MainEnds(q) PROVE Relay!RelayNext
  BY <1>0, <1>2, TunnelImplements, Zenon DEF Relay!RelayNext
<1>3. ASSUME NEW q \in Reqs, RunsOn(q) PROVE UNCHANGED Relay!relayVars
  BY <1>0, <1>3, RunsOnImplements, Zenon
<1>4. ASSUME UNCHANGED relayVars PROVE UNCHANGED Relay!relayVars
  <2>1. UNCHANGED connVars /\ req' = req /\ UNCHANGED sessionVars
    BY <1>4, Zenon DEF relayVars
  <2>2. absReq' = absReq
    BY <2>1, Zenon DEF absReq, Abstract, Running
  <2>3. UNCHANGED <<Relay!connVars, Relay!sessionVars>>
    BY <2>1, SameWords, Zenon
  <2> QED BY <2>2, <2>3, Zenon DEF Relay!relayVars, absReq
<1>5. CASE (\E c \in Conns : Pops(c)) \/ UNCHANGED tunnelVars
  BY <1>4, <1>5, Zenon DEF Pops, tunnelVars
<1>6. CASE ProxyLocks \/ ProxyUnlocks
  BY <1>6, CloseImplements, Zenon DEF Relay!RelayNext
<1> QED BY <1>1, <1>2, <1>3, <1>5, <1>6, Zenon DEF TunnelsNext, MainRuns, OutsidePart, ProxyClosePart, RunsOn

\* The goroutines, the stream, the socket, the send queue and Proxy.Close under its lock
\* implement the one-state tunnel and the one-step Close of RelaySessions
\* (ProxyConnectedSocket, Proxy.Close).
THEOREM TunnelsImplementRelay == TunnelsSafety => ImplementsRelay
<1>1. TunnelsInit => Relay!RelayInit
  <2> SUFFICES ASSUME TunnelsInit PROVE Relay!RelayInit
    BY Zenon
  <2>1. Relay!ConnInit
    BY Zenon DEF TunnelsInit, RelayInit, ConnInit, NoTimer, Relay!ConnInit, Relay!NoTimer
  <2>2. absReq = [q \in Reqs |-> Relay!NoReq]
    BY Zenon DEF TunnelsInit, RelayInit, absReq, Abstract, Running, NoReq, Relay!NoReq
  <2>3. activeSessions = 0 /\ activeByAddress = [k \in Relay!Keys |-> 0] /\ phase = "running"
    BY Zenon DEF TunnelsInit, RelayInit, Keys, Relay!Keys
  <2> QED BY <2>1, <2>2, <2>3, Zenon DEF Relay!RelayInit, absReq
<1>2. TunnelInv /\ [TunnelsNext]_tunnelVars => [Relay!RelayNext]_Relay!relayVars
  BY TunnelStepImplements, Zenon
<1> QED BY <1>1, <1>2, TunnelInvariant, PTL DEF TunnelsSafety, ImplementsRelay, Relay!RelaySafety

================================================================================
