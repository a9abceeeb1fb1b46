---------------------------- MODULE ConnectionAuth ----------------------------
(***************************************************************************)
(* The authorization of a QUIC connection (internal/relay/access.go,        *)
(* connectionContext, expire, authorize): admission under the connection    *)
(* caps, the timer that ends an authorization, its generations, and the     *)
(* requests that authorize or renew while the timer fires and the           *)
(* connection closes.                                                       *)
(*                                                                         *)
(* `now` is the monotonic clock, in units small enough to order events; a   *)
(* timer may fire any time after it is due.                                 *)
(***************************************************************************)
EXTENDS Integers, FiniteSets

CONSTANTS
  Conns,          \* QUIC connections
  Reqs,           \* HTTP requests (streams) on them
  StreamOf,       \* the connection a request is a stream of
  Sources,        \* remote hosts
  Mode,           \* "groups" or "public"
  ConnCap,        \* connections in all (512)
  SourceConnCap,  \* connections per source (32)
  Grace,          \* time to present a ticket (15 s)
  MaxLease,       \* bound: longest authorization redeem returns
  MaxAttempts,    \* redemptions tried in a row (8)
  MaxTime,        \* bound: the clock stops here
  MaxRedeemed     \* bound: tickets redeemed

ASSUME ConnectionAssumption ==
  /\ Mode \in {"groups", "public"}
  /\ IsFiniteSet(Conns) /\ IsFiniteSet(Reqs)
  /\ StreamOf \in [Reqs -> Conns]
  /\ ConnCap \in Nat /\ SourceConnCap \in Nat /\ Grace \in Nat /\ MaxLease \in Nat
  /\ MaxAttempts \in Nat /\ MaxTime \in Nat /\ MaxRedeemed \in Nat

VARIABLES
  now,
  conn,             \* "new", "open", "closed"; "refused" at the caps
  source,           \* sourceHost of the connection
  connectionCount, connections,   \* the policy's counters
  until,            \* a.authorizedUntil
  address,          \* a.address: 0 = none, else the number of the ticket
  attempts,         \* a.attempts
  timerGeneration,  \* a.timerGeneration
  timer,            \* a.timer while it is armed: its generation and due time
  expiring,         \* calls of expire that have started
  mu,               \* a.mu: the request that holds it, or "free"
  callback,         \* the function run when the connection's context ends
  req,              \* requests inside authorize, and what it returned
  redeemed,         \* tickets redeemed so far
  allowedUntil      \* history: when the connection's latest permission ends

countVars == <<connectionCount, connections>>
authVars == <<until, address, attempts, timerGeneration, timer>>
connVars == <<now, conn, source, countVars, authVars, expiring, mu, callback, redeemed, allowedUntil>>

NoTimer == [gen |-> 0, at |-> 0]
NoReq == [pc |-> "idle"]
Groups == Mode = "groups"
Times == 0 .. (MaxTime + Grace + MaxLease)

ConnTypeOK ==
  /\ now \in 0 .. MaxTime
  /\ conn \in [Conns -> {"new", "open", "closed", "refused"}]
  /\ source \in [Conns -> Sources]
  /\ connectionCount \in 0 .. ConnCap
  /\ connections \in [Sources -> 0 .. SourceConnCap]
  /\ until \in [Conns -> Times]
  /\ address \in [Conns -> 0 .. MaxRedeemed]
  /\ attempts \in [Conns -> 0 .. (MaxAttempts + 1)]
  /\ timerGeneration \in [Conns -> Nat]
  /\ timer \in [Conns -> [gen: Nat, at: Times]]
  /\ expiring \subseteq [conn: Conns, gen: Nat, step: {"load", "close"}]
  /\ mu \in [Conns -> Reqs \union {"free"}]
  /\ callback \in [Conns -> {"none", "count", "stop", "done"}]
  /\ redeemed \in 0 .. MaxRedeemed
  /\ allowedUntil \in [Conns -> Times]

ConnInit ==
  /\ now = 0
  /\ conn = [c \in Conns |-> "new"]
  /\ source \in [Conns -> Sources]
  /\ connectionCount = 0 /\ connections = [s \in Sources |-> 0]
  /\ until = [c \in Conns |-> 0]
  /\ address = [c \in Conns |-> 0]
  /\ attempts = [c \in Conns |-> 0]
  /\ timerGeneration = [c \in Conns |-> 0]
  /\ timer = [c \in Conns |-> NoTimer]
  /\ expiring = {}
  /\ mu = [c \in Conns |-> "free"]
  /\ callback = [c \in Conns |-> "none"]
  /\ redeemed = 0
  /\ allowedUntil = [c \in Conns |-> 0]

--------------------------------------------------------------------------------
(* The connection. *)

\* Mutant: an armed timer is left as it is.
ArmOnce(c, generation, due) ==
  timer' = IF timer[c] = NoTimer THEN [timer EXCEPT ![c] = [gen |-> generation, at |-> due]] ELSE timer

\* time.AfterFunc, in place of the timer that was there, which is stopped.
Arm(c, generation, due) == timer' = [timer EXCEPT ![c] = [gen |-> generation, at |-> due]]

\* connectionContext: counts the connection and arms its first timer.
Accept(c) ==
  /\ conn[c] = "new"
  /\ connectionCount < ConnCap /\ connections[source[c]] < SourceConnCap
  /\ conn' = [conn EXCEPT ![c] = "open"]
  /\ connectionCount' = connectionCount + 1
  /\ connections' = [connections EXCEPT ![source[c]] = @ + 1]
  /\ IF Groups
     THEN /\ timerGeneration' = [timerGeneration EXCEPT ![c] = 1]
          /\ Arm(c, 1, now + Grace)
     ELSE UNCHANGED <<timerGeneration, timer>>
  /\ allowedUntil' = [allowedUntil EXCEPT ![c] = now + Grace]
  /\ UNCHANGED <<now, source, until, address, attempts, expiring, mu, callback, redeemed>>

\* connectionContext at a cap: the connection is closed and never counted.
Refuse(c) ==
  /\ conn[c] = "new"
  /\ connectionCount >= ConnCap \/ connections[source[c]] >= SourceConnCap
  /\ conn' = [conn EXCEPT ![c] = "refused"]
  /\ UNCHANGED <<now, source, countVars, authVars, expiring, mu, callback, redeemed, allowedUntil>>

\* The connection's context ends, and its callback is started.
Close(c) ==
  /\ conn' = [conn EXCEPT ![c] = "closed"]
  /\ callback' = [callback EXCEPT ![c] = "count"]

\* The peer closes the connection, or it idles out.
PeerCloses(c) ==
  /\ conn[c] = "open"
  /\ Close(c)
  /\ UNCHANGED <<now, source, countVars, authVars, expiring, mu, redeemed, allowedUntil>>

\* Mutant: the source keeps its count.
UncountTotal(c) == connectionCount' = connectionCount - 1 /\ UNCHANGED connections

Uncount(c) ==
  /\ connectionCount' = connectionCount - 1
  /\ connections' = [connections EXCEPT ![source[c]] = @ - 1]

\* The callback's two critical sections: the counters, then the timer, which only groups
\* mode has.
CallbackCounts(c) ==
  /\ callback[c] = "count"
  /\ Uncount(c)
  /\ callback' = [callback EXCEPT ![c] = IF Groups THEN "stop" ELSE "done"]
  /\ UNCHANGED <<now, conn, source, authVars, expiring, mu, redeemed, allowedUntil>>

CallbackStops(c) ==
  /\ callback[c] = "stop" /\ mu[c] = "free"
  /\ timer' = [timer EXCEPT ![c] = NoTimer]
  /\ callback' = [callback EXCEPT ![c] = "done"]
  /\ UNCHANGED <<now, conn, source, countVars, until, address, attempts, timerGeneration,
                 expiring, mu, redeemed, allowedUntil>>

\* The armed timer is due: the runtime starts expire(gen) in a goroutine of its own.
TimerFires(c) ==
  /\ timer[c] # NoTimer /\ now >= timer[c].at
  /\ timer' = [timer EXCEPT ![c] = NoTimer]
  /\ expiring' = expiring \union {[conn |-> c, gen |-> timer[c].gen, step |-> "load"]}
  /\ UNCHANGED <<now, conn, source, countVars, until, address, attempts, timerGeneration,
                 mu, callback, redeemed, allowedUntil>>

\* Mutant: expire takes a.mu first.
LoadsLocked(x) == x.step = "load" /\ mu[x.conn] = "free"

Loads(x) == x.step = "load"

\* expire loads the generation, then closes the connection: two steps, no lock.
ExpireLoads(x) ==
  /\ Loads(x)
  /\ expiring' = (expiring \ {x}) \union
       (IF timerGeneration[x.conn] = x.gen THEN {[x EXCEPT !.step = "close"]} ELSE {})
  /\ UNCHANGED <<now, conn, source, countVars, authVars, mu, callback, redeemed, allowedUntil>>

ExpireCloses(x) ==
  /\ x.step = "close"
  /\ expiring' = expiring \ {x}
  /\ IF conn[x.conn] = "open" THEN Close(x.conn) ELSE UNCHANGED <<conn, callback>>
  /\ UNCHANGED <<now, source, countVars, authVars, mu, redeemed, allowedUntil>>

Passes ==
  /\ now < MaxTime
  /\ now' = now + 1
  /\ UNCHANGED <<conn, source, countVars, authVars, expiring, mu, callback, redeemed, allowedUntil>>

--------------------------------------------------------------------------------
(* authorize.  A request is "waiting" for a.mu, "redeeming" with a.mu held, or
   "authorized" as the account authorize returned (0 in public mode). *)

Waiting == [pc: {"waiting", "redeeming"}, conn: Conns]
Authorized == [pc: {"authorized"}, conn: Conns, account: 0 .. MaxRedeemed]

Goes(q, state) == req' = [req EXCEPT ![q] = state]

\* A request arrives; in public mode authorize lets it through at once.
Arrives(q) ==
  /\ req[q] = NoReq /\ conn[StreamOf[q]] = "open"
  /\ Goes(q, IF Groups THEN [pc |-> "waiting", conn |-> StreamOf[q]]
                       ELSE [pc |-> "authorized", conn |-> StreamOf[q], account |-> 0])
  /\ UNCHANGED connVars

\* authorize up to the redemption, with a.mu held: an unexpired authorization is enough
\* unless the request asks to renew it; otherwise a ticket is needed and attempts are
\* counted.  A request without one, or with an account proof, is refused before that.
Decides(q, renew) ==
  LET c == req[q].conn
      valid == now < until[c] /\ ~renew
      tries == IF attempts[c] > MaxAttempts THEN attempts[c] ELSE attempts[c] + 1
  IN /\ req[q].pc = "waiting" /\ mu[c] = "free"
     /\ \/ /\ Goes(q, NoReq)
           /\ UNCHANGED <<attempts, mu>>
        \/ /\ valid
           /\ Goes(q, [pc |-> "authorized", conn |-> c, account |-> address[c]])
           /\ UNCHANGED <<attempts, mu>>
        \/ /\ ~valid
           /\ attempts' = [attempts EXCEPT ![c] = tries]
           /\ IF tries > MaxAttempts
              THEN Goes(q, NoReq) /\ UNCHANGED mu
              ELSE /\ Goes(q, [req[q] EXCEPT !.pc = "redeeming"])
                   /\ mu' = [mu EXCEPT ![c] = q]
     /\ UNCHANGED <<now, conn, source, countVars, until, address, timerGeneration, timer,
                    expiring, callback, redeemed, allowedUntil>>

\* redeem returned an authorization that lasts `lease` more (0 if it was late): the new
\* generation disowns the old timer, which is stopped and replaced.
Renews(q, lease) ==
  LET c == req[q].conn
      generation == timerGeneration[c] + 1
  IN /\ req[q].pc = "redeeming"
     /\ redeemed < MaxRedeemed
     /\ redeemed' = redeemed + 1
     /\ address' = [address EXCEPT ![c] = redeemed + 1]
     /\ until' = [until EXCEPT ![c] = now + lease]
     /\ allowedUntil' = [allowedUntil EXCEPT ![c] = now + lease]
     /\ timerGeneration' = [timerGeneration EXCEPT ![c] = generation]
     /\ attempts' = [attempts EXCEPT ![c] = 0]
     /\ Arm(c, generation, now + lease)
     /\ mu' = [mu EXCEPT ![c] = "free"]
     /\ Goes(q, [pc |-> "authorized", conn |-> c, account |-> redeemed + 1])
     /\ UNCHANGED <<now, conn, source, countVars, expiring, callback>>

\* redeem returned an error.
RedeemFails(q) ==
  /\ req[q].pc = "redeeming"
  /\ mu' = [mu EXCEPT ![req[q].conn] = "free"]
  /\ Goes(q, NoReq)
  /\ UNCHANGED <<now, conn, source, countVars, authVars, expiring, callback, redeemed, allowedUntil>>

--------------------------------------------------------------------------------
(* Properties. *)

\* An open connection always has its end pending: a timer of the current generation due
\* when its latest permission ends, or a call of expire of that generation under way.
\* Renewals that race with timers, and requests that hold a.mu, never lose it
\* (connectionContext, authorize).
ExpiryPending ==
  \A c \in Conns :
    Groups /\ conn[c] = "open" =>
      \/ timer[c] = [gen |-> timerGeneration[c], at |-> allowedUntil[c]]
      \/ \E x \in expiring : x.conn = c /\ x.gen = timerGeneration[c]

\* The policy's counters are exactly the connections whose callback has not run, in all
\* and per source, so no admitted connection is lost or counted twice (connectionContext
\* and its AfterFunc).
ConnectionsCounted ==
  LET counted(s) == {c \in Conns : source[c] = s
                       /\ (conn[c] = "open" \/ callback[c] = "count")}
  IN /\ connectionCount = Cardinality(UNION {counted(s) : s \in Sources})
     /\ \A s \in Sources : connections[s] = Cardinality(counted(s))

\* An expired connection is closed, unless a renewal came first, although a request may
\* hold a.mu in a redemption that never returns (expire takes no lock; "Never wait for
\* an in-flight membership request to enforce expiration", access.go).
ExpiryEnforced ==
  \A c \in Conns :
    (Groups /\ conn[c] = "open" /\ allowedUntil[c] <= now)
      ~> (conn[c] = "closed" \/ allowedUntil[c] > now)

\* "an old timer must not cancel a renewal" (access.go, expire): a call of expire never
\* closes an open connection whose latest permission has not ended.
OldTimerNeverCancels ==
  [][\A x \in expiring :
       ExpireCloses(x) /\ conn[x.conn] = "open" => allowedUntil[x.conn] <= now]_connVars

================================================================================
