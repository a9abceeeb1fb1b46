---------------------------- MODULE RelaySessions -----------------------------
(***************************************************************************)
(* The CONNECT-UDP handler and the shutdown of the server                   *)
(* (internal/relay/server.go, Start's handler, acquire, release, Close;     *)
(* masque-go proxy.go, ProxyConnectedSocket, Close), over the connections   *)
(* and authorizations of ConnectionAuth.                                    *)
(*                                                                         *)
(* A tunnel is one state here, which ends once its stream or its connection *)
(* is closed; Tunnels models its goroutines.                                *)
(***************************************************************************)
EXTENDS ConnectionAuth

CONSTANTS
  MaxSessions,     \* config.MaxSessions
  SourceSessions   \* sessions per source or account (8)

ASSUME SessionAssumption == MaxSessions \in Nat /\ SourceSessions \in Nat

VARIABLES
  activeSessions, activeByAddress,   \* the server's counters; 0 = no map entry
  phase    \* Close: "running", "closing" (closed is set), "draining" (the proxy is
           \* closed and waits), "stopping" (http3's context is cancelled), "down"

sessionVars == <<activeSessions, activeByAddress, phase>>
relayVars == <<connVars, req, sessionVars>>

\* What sessions are counted by: "account:ticket:n", or the host when there is no account.
Keys == Sources \union (1 .. MaxRedeemed)
Acquired == [pc: {"acquired", "tunnel", "leaving"}, conn: Conns, key: Keys]

closed == phase # "running"
Holds(q) == req[q].pc \in {"acquired", "tunnel", "leaving"}

RelayTypeOK ==
  /\ ConnTypeOK
  /\ req \in [Reqs -> {NoReq} \union Waiting \union Authorized \union Acquired]
  /\ activeSessions \in 0 .. MaxSessions
  /\ activeByAddress \in [Keys -> 0 .. SourceSessions]
  /\ phase \in {"running", "closing", "draining", "stopping", "down"}

RelayInit ==
  /\ ConnInit
  /\ req = [q \in Reqs |-> NoReq]
  /\ activeSessions = 0
  /\ activeByAddress = [k \in Keys |-> 0]
  /\ phase = "running"

--------------------------------------------------------------------------------
(* The handler after authorize. *)

\* A control request is answered, or the request or its target is refused.
Answers(q) ==
  /\ req[q].pc = "authorized"
  /\ Goes(q, NoReq)
  /\ UNCHANGED <<connVars, sessionVars>>

\* Mutant: the caps are off by one.
FullPlusOne(key) ==
  closed \/ activeSessions > MaxSessions \/ activeByAddress[key] > SourceSessions

Full(key) ==
  closed \/ activeSessions >= MaxSessions \/ activeByAddress[key] >= SourceSessions

\* acquire, for the account authorize returned or the host.
Acquires(q) ==
  LET key == IF req[q].account # 0 THEN req[q].account ELSE source[req[q].conn]
  IN /\ req[q].pc = "authorized"
     /\ IF Full(key)
        THEN Goes(q, NoReq) /\ UNCHANGED <<activeSessions, activeByAddress>>
        ELSE /\ activeSessions' = activeSessions + 1
             /\ activeByAddress' = [activeByAddress EXCEPT ![key] = @ + 1]
             /\ Goes(q, [pc |-> "acquired", conn |-> req[q].conn, key |-> key])
     /\ UNCHANGED <<connVars, phase>>

\* Mutant: the connection's account is read again.
ReleaseCurrent(q, key) ==
  LET c == req[q].conn
      k == IF address[c] # 0 THEN address[c] ELSE source[c]
  IN /\ activeSessions' = IF activeSessions > 0 THEN activeSessions - 1 ELSE activeSessions
     /\ activeByAddress' = [activeByAddress EXCEPT ![k] = IF @ <= 1 THEN 0 ELSE @ - 1]

\* release, deferred with the key that acquire was called with.
Release(q, key) ==
  /\ activeSessions' = IF activeSessions > 0 THEN activeSessions - 1 ELSE activeSessions
  /\ activeByAddress' = [activeByAddress EXCEPT ![key] = IF @ <= 1 THEN 0 ELSE @ - 1]

\* The target cannot be dialled.
DialFails(q) ==
  /\ req[q].pc = "acquired"
  /\ Release(q, req[q].key)
  /\ Goes(q, NoReq)
  /\ UNCHANGED <<connVars, phase>>

\* Mutant: the proxy's closed flag is not read.
ProxyAlwaysOpen == TRUE

ProxyOpen == phase \in {"running", "closing"}

\* ProxyConnectedSocket registers the tunnel, unless the proxy is closed.
TunnelStarts(q) ==
  /\ req[q].pc = "acquired"
  /\ IF ProxyOpen
     THEN /\ Goes(q, [req[q] EXCEPT !.pc = "tunnel"])
          /\ UNCHANGED <<activeSessions, activeByAddress>>
     ELSE Release(q, req[q].key) /\ Goes(q, NoReq)
  /\ UNCHANGED <<connVars, phase>>

\* The tunnel's goroutines end: the peer closed the stream, or it was cancelled.
\* refCount.Done runs before ProxyConnectedSocket returns to the handler.
TunnelEnds(q) ==
  /\ req[q].pc = "tunnel"
  /\ Goes(q, [req[q] EXCEPT !.pc = "leaving"])
  /\ UNCHANGED <<connVars, sessionVars>>

\* The handler's deferred release.
Leaves(q) ==
  /\ req[q].pc = "leaving"
  /\ Release(q, req[q].key)
  /\ Goes(q, NoReq)
  /\ UNCHANGED <<connVars, phase>>

\* Mutant: Proxy.Close does not cancel the streams.
CancelledByConn(q) == req[q].pc = "tunnel" /\ conn[req[q].conn] = "closed"

\* Close of the connection or of the proxy cancels the tunnel's stream.
Cancelled(q) == req[q].pc = "tunnel" /\ (conn[req[q].conn] = "closed" \/ phase = "draining")

--------------------------------------------------------------------------------
(* Server.Close. *)

ClosePhase(from, to) == phase = from /\ phase' = to

CloseBegins ==
  /\ ClosePhase("running", "closing")
  /\ UNCHANGED <<connVars, req, activeSessions, activeByAddress>>

ProxyCloses ==
  /\ ClosePhase("closing", "draining")
  /\ UNCHANGED <<connVars, req, activeSessions, activeByAddress>>

\* refCount.Wait returned; http3's Close cancels its context.
ServerCloses ==
  /\ \A q \in Reqs : req[q].pc # "tunnel"
  /\ ClosePhase("draining", "stopping")
  /\ UNCHANGED <<connVars, req, activeSessions, activeByAddress>>

\* http3 closes each connection once its context is cancelled.
ConnStops(c) ==
  /\ phase = "stopping" /\ conn[c] = "open"
  /\ Close(c)
  /\ UNCHANGED <<now, source, countVars, authVars, expiring, mu, redeemed, allowedUntil,
                 req, sessionVars>>

\* http3's Close returned: every connection and every handler on it has ended.  Then
\* the ticket database and the socket are closed.
TicketsClose ==
  /\ \A c \in Conns : conn[c] # "open"
  /\ \A q \in Reqs : req[q] = NoReq
  /\ ClosePhase("stopping", "down")
  /\ UNCHANGED <<connVars, req, activeSessions, activeByAddress>>

--------------------------------------------------------------------------------
Accepting == phase \notin {"stopping", "down"}

\* Connections and requests are accepted until http3's context is cancelled.
ConnectionPart ==
  /\ \/ Accepting /\ \E c \in Conns : Accept(c) \/ Refuse(c)
     \/ \E c \in Conns : PeerCloses(c) \/ CallbackCounts(c) \/ CallbackStops(c) \/ TimerFires(c)
     \/ \E x \in expiring : ExpireLoads(x) \/ ExpireCloses(x)
     \/ Passes
  /\ UNCHANGED <<req, sessionVars>>

AuthorizeRuns(q) ==
  \/ \E renew \in BOOLEAN : Decides(q, renew)
  \/ \E lease \in 0 .. MaxLease : Renews(q, lease)
  \/ RedeemFails(q)

AuthorizePart(q) ==
  /\ \/ Accepting /\ Arrives(q)
     \/ AuthorizeRuns(q)
  /\ UNCHANGED sessionVars

\* What a handler does of itself outside its tunnel.
HandlerPart(q) == Answers(q) \/ Acquires(q) \/ DialFails(q) \/ Leaves(q)

StopPart == ServerCloses \/ TicketsClose \/ \E c \in Conns : ConnStops(c)

RelayNext ==
  \/ ConnectionPart
  \/ \E q \in Reqs : AuthorizePart(q) \/ HandlerPart(q) \/ TunnelStarts(q) \/ TunnelEnds(q)
  \/ CloseBegins \/ ProxyCloses \/ StopPart

RelaySafety == RelayInit /\ [][RelayNext]_relayVars

\* Timers fire and their goroutines run.  Nothing is said of requests: a redemption may
\* hold a.mu for ever.
ExpiryFairness ==
  /\ \A c \in Conns : WF_relayVars(TimerFires(c) /\ UNCHANGED <<req, sessionVars>>)
  /\ WF_relayVars((\E x \in expiring : ExpireLoads(x) \/ ExpireCloses(x))
                  /\ UNCHANGED <<req, sessionVars>>)

\* Handlers run, redemptions return, cancelled streams end their tunnels, and Close goes
\* on.  A tunnel that is not cancelled may last, and no peer is bound to do anything.
HandlerRuns(q) ==
  \/ AuthorizeRuns(q) /\ UNCHANGED sessionVars
  \/ HandlerPart(q) \/ TunnelStarts(q)
  \/ Cancelled(q) /\ TunnelEnds(q)

CloseFairness == WF_relayVars(ProxyCloses \/ StopPart) /\ \A q \in Reqs : WF_relayVars(HandlerRuns(q))

ExpirySpec == RelaySafety /\ ExpiryFairness

--------------------------------------------------------------------------------
(* Properties. *)

\* The session counters are exactly the sessions between acquire and their deferred
\* release, in all and per key, although a renewal may have given the connection another
\* account meanwhile: no slot leaks and none is freed twice (handler, acquire, release).
SessionsCounted ==
  /\ activeSessions = Cardinality({q \in Reqs : Holds(q)})
  /\ \A k \in Keys : activeByAddress[k] = Cardinality({q \in Reqs : Holds(q) /\ req[q].key = k})

\* Close stops the parts in an order the handlers survive: once http3 is being closed no
\* tunnel runs and none can start, and the ticket database is closed only when no
\* redemption is using it (Server.Close, Proxy.Close).
CloseOrder ==
  /\ phase \in {"stopping", "down"} => \A q \in Reqs : req[q].pc # "tunnel"
  /\ phase = "down" => \A q \in Reqs : req[q].pc # "redeeming"

\* Once closed is set no session is acquired (acquire reads closed under the lock).
NoSessionAfterClose ==
  [][closed => activeSessions' <= activeSessions]_relayVars

\* Close returns, whatever the peers do: tunnels are cancelled, connections closed and
\* handlers return (Server.Close).
CloseReturns == CloseFairness => (closed ~> phase = "down")

================================================================================
