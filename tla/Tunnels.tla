------------------------------- MODULE Tunnels --------------------------------
(***************************************************************************)
(* The goroutines of a tunnel (masque-go proxy.go, ProxyConnectedSocket,    *)
(* proxyConnSend, proxyConnReceive, Close; http3 state_tracking_stream.go;  *)
(* quic-go datagram_queue.go, Add and Pop) in the place of the one state    *)
(* "tunnel" of RelaySessions, in public mode.                               *)
(*                                                                         *)
(* A tunnel has the handler's goroutine `main`, which discards capsules,    *)
(* `up`, from the stream to the target, and `down`, from the target to the  *)
(* stream.  They share the stream's two error fields (`rx`, `tx`: the side  *)
(* is open), the egress socket (`sock`), and with the connection's other    *)
(* tunnels the connection's send queue and its channel `sent`.  Datagrams   *)
(* have no contents, and the receive queue is that of DatagramBuffer.       *)
(***************************************************************************)
EXTENDS RelaySessions

CONSTANTS SendCap   \* maxDatagramSendQueueLen (32)

ASSUME TunnelAssumption == SendCap \in Nat \ {0}

VARIABLES
  sendQueue,   \* the number of datagrams in h.sendQueue
  sent         \* whether the channel h.sent holds its one token

queueVars == <<sendQueue, sent>>
tunnelVars == <<relayVars, queueVars>>

Tunnel == [pc: {"tunnel"}, conn: Conns, key: Keys,
           main: {"capsules", "waiting"}, up: {"receive", "done"},
           down: {"read", "add", "full", "done"},
           rx: BOOLEAN, tx: BOOLEAN, sock: BOOLEAN]

Running(q) == req[q].pc = "tunnel"

\* A phase of its own while Proxy.Close holds s.mx and closes the registered streams.
Phases == {"running", "closing", "cancelling", "draining", "stopping", "down"}

TunnelsTypeOK ==
  /\ ConnTypeOK
  /\ req \in [Reqs -> {NoReq} \union Authorized \union Acquired \union Tunnel]
  /\ activeSessions \in 0 .. MaxSessions
  /\ activeByAddress \in [Keys -> 0 .. SourceSessions]
  /\ phase \in Phases
  /\ sendQueue \in [Conns -> 0 .. SendCap] /\ sent \in [Conns -> BOOLEAN]

TunnelsInit ==
  /\ RelayInit /\ Mode = "public"
  /\ sendQueue = [c \in Conns |-> 0]
  /\ sent = [c \in Conns |-> FALSE]

--------------------------------------------------------------------------------
(* ProxyConnectedSocket. *)

\* s.mx, which Proxy.Close holds while it closes the streams.
ProxyUnlocked == phase # "cancelling"

\* Mutant: s.closed is not read.
RegistersAlways == TRUE

MayRegister == ProxyOpen

\* The tunnel is registered and its two goroutines are started.
Registers(q) ==
  /\ req[q].pc = "acquired" /\ ProxyUnlocked
  /\ IF MayRegister
     THEN /\ Goes(q, [pc |-> "tunnel", conn |-> req[q].conn, key |-> req[q].key,
                      main |-> "capsules", up |-> "receive", down |-> "read",
                      rx |-> TRUE, tx |-> TRUE, sock |-> TRUE])
          /\ UNCHANGED <<activeSessions, activeByAddress>>
     ELSE Release(q, req[q].key) /\ Goes(q, NoReq)
  /\ UNCHANGED <<connVars, phase, queueVars>>

\* skipCapsules returned: the sending side of the stream and the socket are closed.
LeavesCapsules(q, receiving) ==
  /\ Running(q) /\ req[q].main = "capsules"
  /\ Goes(q, [req[q] EXCEPT !.main = "waiting", !.rx = receiving, !.tx = FALSE, !.sock = FALSE])
  /\ UNCHANGED <<connVars, sessionVars, queueVars>>

\* A Read of the stream failed: the peer ended it, CancelRead was called, or the
\* connection closed.  The failed Read closed the receiving side.
MainLeavesCapsules(q) == LeavesCapsules(q, FALSE)

\* http3's Stream.Read met a frame it does not take (and, for some, closed the connection
\* before).  No Read of the stream under it failed, so the receiving side stays open.
MainMeetsFrame(q) == LeavesCapsules(q, req[q].rx)

ReadFails(q) == Running(q) /\ (~req[q].rx \/ conn[req[q].conn] = "closed")

\* Mutant: the handler does not wait for its goroutines.
WaitsForNone(q) == req[q].main = "waiting"

WaitReturns(q) == req[q].main = "waiting" /\ req[q].up = "done" /\ req[q].down = "done"

\* wg.Wait returned: the entry is deleted under s.mx and refCount is released.
MainEnds(q) ==
  /\ Running(q) /\ WaitReturns(q) /\ ProxyUnlocked
  /\ Goes(q, [pc |-> "leaving", conn |-> req[q].conn, key |-> req[q].key])
  /\ UNCHANGED <<connVars, sessionVars, queueVars>>

\* The peer asks to stop sending: the stream's context ends and closeSend is called.
PeerStopsSending(q) ==
  /\ Running(q) /\ req[q].tx
  /\ Goes(q, [req[q] EXCEPT !.tx = FALSE])
  /\ UNCHANGED <<connVars, sessionVars, queueVars>>

--------------------------------------------------------------------------------
(* proxyConnSend: from the stream to the target. *)

UpEnds(q) == Goes(q, [req[q] EXCEPT !.up = "done", !.tx = FALSE])

\* A datagram that ReceiveDatagram returned is dropped or written to the socket, which
\* changes nothing here, or it is malformed or its write fails (the socket is closed, or
\* the target's host refused an earlier one).
UpFails(q) ==
  /\ Running(q) /\ req[q].up = "receive" /\ req[q].rx
  /\ UpEnds(q)
  /\ UNCHANGED <<connVars, sessionVars, queueVars>>

\* closeReceive emptied the queue and woke ReceiveDatagram, which returns recvErr.
UpStops(q) ==
  /\ Running(q) /\ req[q].up = "receive" /\ ~req[q].rx
  /\ UpEnds(q)
  /\ UNCHANGED <<connVars, sessionVars, queueVars>>

--------------------------------------------------------------------------------
(* proxyConnReceive: from the target to the stream. *)

DownEnds(q) == Goes(q, [req[q] EXCEPT !.down = "done", !.tx = FALSE])

\* A packet of the target, for which SendDatagram reads sendErr before it calls Add, or
\* an error of the open socket.
DownReads(q) ==
  /\ Running(q) /\ req[q].down = "read" /\ req[q].sock
  /\ \/ req[q].tx /\ Goes(q, [req[q] EXCEPT !.down = "add"])
     \/ DownEnds(q)
  /\ UNCHANGED <<connVars, sessionVars, queueVars>>

DownStops(q) ==
  /\ Running(q) /\ req[q].down = "read" /\ ~req[q].sock
  /\ DownEnds(q)
  /\ UNCHANGED <<connVars, sessionVars, queueVars>>

Room(c) == sendQueue[c] < SendCap

\* Add with sendMx held: there is room, or an old token is drained before it waits.
DownAdds(q) ==
  LET c == req[q].conn
  IN /\ Running(q) /\ req[q].down = "add"
     /\ IF Room(c)
        THEN /\ sendQueue' = [sendQueue EXCEPT ![c] = @ + 1]
             /\ Goes(q, [req[q] EXCEPT !.down = "read"])
             /\ UNCHANGED sent
        ELSE /\ sent' = [sent EXCEPT ![c] = FALSE]
             /\ Goes(q, [req[q] EXCEPT !.down = "full"])
             /\ UNCHANGED sendQueue
     /\ UNCHANGED <<connVars, sessionVars>>

\* Mutant: a woken Add gives up when the stream was closed meanwhile.
WokenGivesUp(q) ==
  IF req[q].tx THEN Goes(q, [req[q] EXCEPT !.down = "add"]) ELSE DownEnds(q)

Woken(q) == Goes(q, [req[q] EXCEPT !.down = "add"])

\* Add waits for the token or for the end of the connection.
DownWakes(q) ==
  LET c == req[q].conn
  IN /\ Running(q) /\ req[q].down = "full"
     /\ \/ /\ sent[c]
           /\ sent' = [sent EXCEPT ![c] = FALSE]
           /\ Woken(q)
        \/ /\ conn[c] = "closed"
           /\ DownEnds(q)
           /\ UNCHANGED sent
     /\ UNCHANGED <<connVars, sessionVars, sendQueue>>

\* The connection sends a datagram of its queue: Pop puts the token back.
Pops(c) ==
  /\ conn[c] = "open" /\ sendQueue[c] > 0
  /\ sendQueue' = [sendQueue EXCEPT ![c] = @ - 1]
  /\ sent' = [sent EXCEPT ![c] = TRUE]
  /\ UNCHANGED relayVars

--------------------------------------------------------------------------------
(* Proxy.Close. *)

\* s.mx is taken and s.closed set.
ProxyLocks ==
  /\ ClosePhase("closing", "cancelling")
  /\ UNCHANGED <<connVars, req, activeSessions, activeByAddress, queueVars>>

\* proxyEntry.Close: CancelRead, Close of the stream, Close of the socket.
ClosesEntry(q) == Goes(q, [req[q] EXCEPT !.rx = FALSE, !.tx = FALSE, !.sock = FALSE])

\* Mutant: an entry is deleted when skipCapsules returns, before wg.Wait.
OpenInCapsules(q) == Running(q) /\ req[q].main = "capsules" /\ req[q].sock

\* The entry is registered until MainEnds, and is not closed yet.
Open(q) == Running(q) /\ (req[q].rx \/ req[q].sock)

ProxyCancels(q) ==
  /\ phase = "cancelling" /\ Open(q)
  /\ ClosesEntry(q)
  /\ UNCHANGED <<connVars, sessionVars, queueVars>>

\* Every entry is closed: s.mx is released, and refCount.Wait begins.
ProxyUnlocks ==
  /\ \A q \in Reqs : ~Open(q)
  /\ ClosePhase("cancelling", "draining")
  /\ UNCHANGED <<connVars, req, activeSessions, activeByAddress, queueVars>>

--------------------------------------------------------------------------------
\* What RelaySessions has and this module does not detail; queues are left alone.
RelayPart ==
  /\ \/ ConnectionPart
     \/ \E q \in Reqs : AuthorizePart(q) \/ HandlerPart(q)
     \/ CloseBegins \/ StopPart
  /\ UNCHANGED queueVars

MainRuns(q) == (ReadFails(q) /\ MainLeavesCapsules(q)) \/ MainEnds(q)
DownRuns(q) == DownStops(q) \/ DownAdds(q) \/ DownWakes(q)

\* What the peer and the target do, and no goroutine is bound to.
OutsidePart(q) ==
  \/ MainLeavesCapsules(q) \/ MainMeetsFrame(q) \/ PeerStopsSending(q)
  \/ UpFails(q) \/ DownReads(q)

ProxyClosePart == ProxyLocks \/ (\E q \in Reqs : ProxyCancels(q)) \/ ProxyUnlocks

TunnelsNext ==
  \/ RelayPart
  \/ \E q \in Reqs : Registers(q) \/ OutsidePart(q) \/ MainRuns(q) \/ UpStops(q) \/ DownRuns(q)
  \/ \E c \in Conns : Pops(c)
  \/ ProxyClosePart

TunnelsSafety == TunnelsInit /\ [][TunnelsNext]_tunnelVars

\* The goroutines of every request run, Close goes on, and a connection with datagrams
\* to send sends them or ends (its idle timeout).
GoroutinesRun(q) ==
  \/ Registers(q) \/ MainRuns(q) \/ UpStops(q) \/ DownRuns(q)
  \/ HandlerPart(q) /\ UNCHANGED queueVars

SendsOrEnds(c) ==
  \/ Pops(c)
  \/ sendQueue[c] > 0 /\ PeerCloses(c) /\ UNCHANGED <<req, sessionVars, queueVars>>

TunnelsFairness ==
  /\ WF_tunnelVars(ProxyClosePart \/ (StopPart /\ UNCHANGED queueVars))
  /\ WF_tunnelVars(\E c \in Conns : SendsOrEnds(c))
  /\ \A q \in Reqs : WF_tunnelVars(GoroutinesRun(q))

TunnelsSpec == TunnelsSafety /\ TunnelsFairness

--------------------------------------------------------------------------------
(* Properties. *)

\* The tunnel as RelaySessions sees it, and Close while it holds s.mx.
Abstract(q) == IF Running(q) THEN [pc |-> "tunnel", conn |-> req[q].conn, key |-> req[q].key]
               ELSE req[q]
Relay == INSTANCE RelaySessions
           WITH req <- [q \in Reqs |-> Abstract(q)],
                phase <- IF phase = "cancelling" THEN "draining" ELSE phase

\* The goroutines, the stream, the socket and Proxy.Close under its lock do nothing that
\* the one-state tunnel and the one-step Close of RelaySessions do not allow: a tunnel
\* is registered, ends once, and releases its session once (ProxyConnectedSocket,
\* Proxy.Close).
ImplementsRelay == Relay!RelaySafety

\* The send queue keeps its bound, and a goroutine blocked in Add is woken: while it
\* waits on an open connection, the token is in the channel, or a datagram is queued whose Pop will put it there, or one that
\* took the token is about to queue its own (datagramQueue.Add, Pop).
NoLostWakeup ==
  /\ TunnelsTypeOK
  /\ \A q \in Reqs :
       LET c == req[q].conn
       IN Running(q) /\ req[q].down = "full" /\ conn[c] = "open" =>
            \/ sent[c] \/ sendQueue[c] > 0
            \/ \E p \in Reqs : Running(p) /\ req[p].conn = c /\ req[p].down = "add"

\* Nobody reads the stream any more, and `up` waits for a datagram with a context that
\* does not end.
Stranded(q) == Running(q) /\ req[q].main = "waiting" /\ req[q].up = "receive" /\ req[q].rx

\* A tunnel that Proxy.Close cancelled ends, although its goroutines may be blocked on the
\* stream, the socket or a full send queue ("immediately terminating all proxied flows").
\* One that lost its connection ends as well, unless its capsules ended with a frame that
\* http3 refuses: then it keeps its session until Proxy.Close, for the end of a connection
\* closes only the sending side of a stream (ProxyConnectedSocket, Proxy.Close,
\* newStateTrackingStream).
CancelledEnds ==
  \A q \in Reqs : (Running(q) /\ (conn[req[q].conn] = "closed" \/ phase = "draining"))
                    ~> (~Running(q) \/ (Stranded(q) /\ phase # "draining"))

\* No goroutine of a tunnel is left behind: when the tunnel's session is released its
\* goroutines have ended and its socket is closed, and Close goes on only then
\* (ProxyConnectedSocket, wg.Wait; Proxy.Close, refCount.Wait).
NothingLeftRunning ==
  [][\A q \in Reqs : Running(q) /\ ~Running(q)' =>
       req[q].up = "done" /\ req[q].down = "done" /\ ~req[q].sock]_tunnelVars

================================================================================
