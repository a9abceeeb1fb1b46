------------------------------- MODULE Lifecycle -------------------------------
(***************************************************************************)
(* The relay's process (cmd/qortal-masque-relay/main.go) and its UPnP port  *)
(* mapping (internal/upnp/mapping.go): the order in which main opens the    *)
(* mapping, the server and the announcer, the paths out when one of them    *)
(* fails, the goroutine that refreshes the mapping, and shutdown.           *)
(*                                                                         *)
(* The router is external.  It carries out a request some time after it was *)
(* sent, even if the caller no longer waits.  Time is in hours; only what    *)
(* takes hours is timed.                                                    *)
(***************************************************************************)
EXTENDS Integers, Sequences

CONSTANTS
  Clients,  \* the gateway clients that discovery found, in order
  Lease     \* defaultLeaseSeconds, in hours (2)

ASSUME LifecycleAssumption == Clients \in Seq(Nat \ {0}) /\ Lease \in Nat \ {0, 1}

VARIABLES
  conf,      \* the flags: is the address mapped by UPnP, is the relay announced?
  pc,        \* where main is
  try,       \* Open's loop over the clients
  owned,     \* portMapping: its client, or None
  server, announcer,
  told,      \* has the announcer been interrupted?
  signalled, \* a signal is in the channel signals
  maintain,  \* where Maintain is
  age,       \* hours since its ticker last fired
  stopped,   \* mappingContext is cancelled
  call,      \* the request to a router that main, or Maintain, waits for
  stray,     \* requests nobody waits for that a router may still carry out
  lease,     \* the hours for which each router still keeps the mapping
  rebooted,  \* routers that lost the mapping since it was last added
  removed,   \* closePortMapping: nothing tried yet, an error, or "UDP mapping removed"
  killed     \* the process was ended from outside

process == <<conf, pc, try, owned, server, announcer, told, signalled, removed, killed>>
upkeep == <<maintain, age, stopped>>
router == <<lease, rebooted>>
lifeVars == <<process, upkeep, call, stray, router>>

None == 0
Routers == {Clients[i] : i \in DOMAIN Clients}
Callers == {"main", "maintain"}
Requests == [kind: {"add", "delete"}, to: Routers]
NoCall == [reply |-> "no call"]

LifecycleTypeOK ==
  /\ conf \in [upnp: BOOLEAN, discovery: BOOLEAN]
  /\ pc \in {"flags", "opening", "starting", "announcing", "serving", "stopping", "closing", "deleting", "exited"}
  /\ try \in 1 .. Len(Clients) + 1
  /\ owned \in Routers \union {None} /\ (conf.upnp \/ owned = None)
  /\ server \in {"off", "up", "closing", "down"} /\ announcer \in {"off", "up", "down"}
  /\ told \in BOOLEAN /\ signalled \in BOOLEAN /\ stopped \in BOOLEAN /\ killed \in BOOLEAN
  /\ maintain \in {"off", "sleep", "refresh", "failed"} /\ age \in 0 .. Lease
  /\ owned = None => maintain = "off"
  /\ \A p \in Callers :
       call[p] = NoCall \/ call[p] \in [request: Requests, reply: {"none", "ok", "refused"}]
  /\ stray \subseteq Requests
  /\ lease \in [Routers -> 0 .. Lease] /\ rebooted \subseteq Routers
  /\ removed \in {"untried", "failed", "removed"}

\* A process begins.
LifecycleBegins ==
  /\ pc = "flags" /\ try = 1 /\ owned = None /\ server = "off" /\ announcer = "off"
  /\ told = FALSE /\ signalled = FALSE /\ removed = "untried" /\ killed = FALSE
  /\ maintain = "off" /\ age = 0 /\ stopped = FALSE
  /\ call = [p \in Callers |-> NoCall]

LifecycleInit ==
  /\ conf \in [upnp: BOOLEAN, discovery: BOOLEAN]
  /\ LifecycleBegins
  /\ stray = {} /\ lease = [r \in Routers |-> 0] /\ rebooted = {}

--------------------------------------------------------------------------------
(* Requests to a router. *)

Sends(p, kind, r) ==
  /\ call[p] = NoCall
  /\ call' = [call EXCEPT ![p] = [request |-> [kind |-> kind, to |-> r], reply |-> "none"]]
  /\ UNCHANGED stray

Unanswered(ps) == {call[p].request : p \in {p \in ps : call[p].reply = "none"}}

Returns(p) ==
  /\ call[p] # NoCall
  /\ call' = [call EXCEPT ![p] = NoCall]
  /\ stray' = stray \union Unanswered({p})

Succeeds(p) == call[p].reply = "ok" /\ Returns(p)
\* The router refuses, the answer is lost, or the context is over first.
Fails(p) == Returns(p)

CarriesOut(request) ==
  /\ lease' = [lease EXCEPT ![request.to] = IF request.kind = "add" THEN Lease ELSE 0]
  /\ rebooted' = rebooted \ {request.to}

RouterAnswers(p) ==
  /\ call[p].reply = "none"
  /\ \E reply \in {"ok", "refused"} :
       /\ call' = [call EXCEPT ![p].reply = reply]
       /\ IF reply = "ok" THEN CarriesOut(call[p].request) ELSE UNCHANGED router
  /\ UNCHANGED <<process, upkeep, stray>>

StrayArrives ==
  /\ \E request \in stray :
       /\ stray' = stray \ {request}
       /\ CarriesOut(request) \/ UNCHANGED router
  /\ UNCHANGED <<process, upkeep, call>>

RouterReboots ==
  /\ \E r \in Routers :
       /\ lease[r] > 0
       /\ lease' = [lease EXCEPT ![r] = 0]
       /\ rebooted' = rebooted \union {r}
  /\ UNCHANGED <<process, upkeep, call, stray>>

--------------------------------------------------------------------------------
(* The end of the process takes its goroutines with it; the announcer is a process of its
   own. *)

Exits ==
  /\ pc' = "exited"
  /\ maintain' = "off"
  /\ call' = [p \in Callers |-> NoCall]
  /\ stray' = stray \union Unanswered(Callers)
  /\ UNCHANGED <<conf, try, owned, server, announcer, told, signalled, age, stopped, router>>

\* A process begins, where another one has ended.
BeginsAgain ==
  /\ pc = "exited"
  /\ pc' = "flags" /\ try' = 1 /\ owned' = None /\ server' = "off" /\ announcer' = "off"
  /\ told' = FALSE /\ signalled' = FALSE /\ removed' = "untried" /\ killed' = FALSE
  /\ maintain' = "off" /\ age' = 0 /\ stopped' = FALSE
  /\ UNCHANGED <<call, stray, router>>

\* Ended from outside, or by a signal before signal.Notify.
Killed ==
  /\ pc # "exited"
  /\ Exits
  /\ killed' = TRUE
  /\ UNCHANGED removed

--------------------------------------------------------------------------------
(* The flags and the access file: refused, or what comes next. *)

FlagsRefused ==
  /\ pc = "flags"
  /\ Exits
  /\ UNCHANGED <<removed, killed>>

FlagsAccepted ==
  /\ pc = "flags"
  /\ pc' = IF conf.upnp THEN "opening" ELSE "starting"
  /\ UNCHANGED <<conf, try, owned, server, announcer, told, signalled, removed, killed,
                 upkeep, call, stray, router>>

--------------------------------------------------------------------------------
(* Open: each client in turn, until one has a public address and accepts the mapping. *)

OpenTries ==
  /\ pc = "opening" /\ call["main"] = NoCall /\ try <= Len(Clients)
  /\ \/ Sends("main", "add", Clients[try]) /\ UNCHANGED try
     \/ try' = try + 1 /\ UNCHANGED <<call, stray>>
  /\ UNCHANGED <<conf, pc, owned, server, announcer, told, signalled, removed, killed, upkeep, router>>

OpenSucceeds ==
  /\ pc = "opening" /\ Succeeds("main")
  /\ owned' = Clients[try] /\ pc' = "starting"
  /\ UNCHANGED <<conf, try, server, announcer, told, signalled, removed, killed, upkeep, router>>

OpenFails ==
  /\ pc = "opening" /\ Fails("main")
  /\ try' = try + 1
  /\ UNCHANGED <<conf, pc, owned, server, announcer, told, signalled, removed, killed, upkeep, router>>

NoMapping ==
  /\ pc = "opening" /\ try > Len(Clients)
  /\ Exits
  /\ UNCHANGED <<removed, killed>>

--------------------------------------------------------------------------------
(* The server, the announcer, and the goroutine that runs Maintain. *)

MaintainFirst == IF owned = None THEN "off" ELSE "sleep"

Serves ==
  /\ pc' = "serving"
  /\ maintain' = MaintainFirst
  /\ UNCHANGED <<age, stopped>>

ServerStarts ==
  /\ pc = "starting"
  /\ server' = "up"
  /\ IF conf.discovery THEN pc' = "announcing" /\ UNCHANGED upkeep ELSE Serves
  /\ UNCHANGED <<conf, try, owned, announcer, told, signalled, removed, killed, call, stray, router>>

\* Mutant: a start that fails leaves the mapping on the router.
StartFailsAtOnce == "exited"

AfterFailedStart == "deleting"

ServerFails ==
  /\ pc = "starting"
  /\ pc' = AfterFailedStart
  /\ UNCHANGED <<conf, try, owned, server, announcer, told, signalled, removed, killed,
                 upkeep, call, stray, router>>

AnnouncerStarts ==
  /\ pc = "announcing"
  /\ announcer' = "up"
  /\ Serves
  /\ UNCHANGED <<conf, try, owned, server, told, signalled, removed, killed, call, stray, router>>

AnnouncerFails ==
  /\ pc = "announcing"
  /\ server' = "closing" /\ pc' = "closing"
  /\ UNCHANGED <<conf, try, owned, announcer, told, signalled, removed, killed,
                 upkeep, call, stray, router>>

AnnouncerEnds ==
  /\ announcer = "up"
  /\ announcer' = "down"
  /\ UNCHANGED <<conf, pc, try, owned, server, told, signalled, removed, killed,
                 upkeep, call, stray, router>>

SignalArrives ==
  /\ pc = "serving" /\ ~signalled
  /\ signalled' = TRUE
  /\ UNCHANGED <<conf, pc, try, owned, server, announcer, told, removed, killed,
                 upkeep, call, stray, router>>

--------------------------------------------------------------------------------
(* main's select, and shutdown. *)

\* Mutant: with an announcer, the failure of the mapping is not waited for.
MappingLostUnannounced == maintain = "failed" /\ ~conf.discovery

MappingLost == maintain = "failed"

\* A signal or the loss of the mapping: stop Maintain, interrupt the announcer, and give
\* Shutdown five seconds.
SelectStop ==
  /\ pc = "serving" /\ (signalled \/ MappingLost)
  /\ pc' = "stopping" /\ server' = "closing"
  /\ stopped' = TRUE
  /\ told' = (announcer # "off")
  /\ UNCHANGED <<conf, try, owned, announcer, signalled, removed, killed, maintain, age,
                 call, stray, router>>

\* The announcer ended: Close, for as long as it takes, with Maintain still running.
SelectAnnouncer ==
  /\ pc = "serving" /\ announcer = "down"
  /\ pc' = "closing" /\ server' = "closing"
  /\ UNCHANGED <<conf, try, owned, announcer, told, signalled, removed, killed,
                 upkeep, call, stray, router>>

\* Server.Close returns (RelaySessions, CloseReturns).
ServerCloses ==
  /\ pc # "exited" /\ server = "closing"
  /\ server' = "down"
  /\ UNCHANGED <<conf, pc, try, owned, announcer, told, signalled, removed, killed,
                 upkeep, call, stray, router>>

\* Shutdown may return before Close does; Close itself may not.
Closed ==
  /\ pc = "stopping" \/ (pc = "closing" /\ server = "down")
  /\ pc' = "deleting"
  /\ UNCHANGED <<conf, try, owned, server, announcer, told, signalled, removed, killed,
                 upkeep, call, stray, router>>

\* closePortMapping, and the end of main.
DeleteMapping ==
  /\ pc = "deleting" /\ owned # None
  /\ Sends("main", "delete", owned)
  /\ UNCHANGED <<process, upkeep, router>>

Leaves ==
  /\ pc = "deleting"
  /\ \/ owned = None /\ UNCHANGED removed
     \/ call["main"].reply = "ok" /\ removed' = "removed"
     \/ call["main"] # NoCall /\ removed' = "failed"
  /\ Exits
  /\ UNCHANGED killed

--------------------------------------------------------------------------------
(* Maintain: a refresh after half of the lease. *)

\* Mutant: a refresh when the lease is over.
IntervalWhole == Lease

Interval == Lease \div 2

Refreshes ==
  /\ maintain = "sleep" /\ age = Interval /\ ~stopped
  /\ Sends("maintain", "add", owned)
  /\ maintain' = "refresh" /\ age' = 0
  /\ UNCHANGED <<process, stopped, router>>

Refreshed ==
  /\ maintain = "refresh" /\ Succeeds("maintain")
  /\ maintain' = "sleep"
  /\ UNCHANGED <<process, age, stopped, router>>

\* Mutant: a refresh that fails is tried again an hour later, and nobody is told.
RetryLater == "sleep"

AfterFailedRefresh == "failed"

RefreshFails ==
  /\ maintain = "refresh" /\ Fails("maintain")
  /\ maintain' = AfterFailedRefresh
  /\ UNCHANGED <<process, age, stopped, router>>

MaintainStops ==
  /\ maintain = "sleep" /\ stopped
  /\ maintain' = "off"
  /\ UNCHANGED <<process, age, stopped, call, stray, router>>

--------------------------------------------------------------------------------
\* An hour passes.  Requests, and everything main does but wait and Close, take seconds.
Quiet ==
  /\ \A p \in Callers : call[p] = NoCall
  /\ stray = {}
  /\ maintain = "sleep" => age < Interval
  /\ \/ pc \in {"closing", "exited"}
     \/ pc = "serving" /\ ~signalled /\ announcer # "down" /\ maintain # "failed"

HourPasses ==
  /\ Quiet
  /\ lease' = [r \in Routers |-> IF lease[r] = 0 THEN 0 ELSE lease[r] - 1]
  /\ age' = IF maintain = "sleep" THEN age + 1 ELSE age
  /\ UNCHANGED <<process, maintain, stopped, call, stray, rebooted>>

MainStep ==
  \/ FlagsRefused \/ FlagsAccepted \/ OpenTries \/ OpenSucceeds \/ OpenFails \/ NoMapping
  \/ ServerStarts \/ ServerFails \/ AnnouncerStarts \/ AnnouncerFails
  \/ SelectStop \/ SelectAnnouncer \/ Closed \/ DeleteMapping \/ Leaves

MaintainStep == Refreshes \/ Refreshed \/ RefreshFails \/ MaintainStops

RouterStep == StrayArrives \/ RouterReboots \/ \E p \in Callers : RouterAnswers(p)

LifecycleNext ==
  \/ MainStep \/ MaintainStep \/ RouterStep \/ ServerCloses
  \/ AnnouncerEnds \/ SignalArrives \/ Killed \/ HourPasses

\* main and Maintain run, Close returns, time passes.  A router need not answer,
\* since contexts bound the wait; what nobody waits for is at last carried out or lost.
LifecycleFairness ==
  /\ WF_lifeVars(MainStep) /\ WF_lifeVars(MaintainStep) /\ WF_lifeVars(ServerCloses)
  /\ WF_lifeVars(StrayArrives) /\ WF_lifeVars(HourPasses)

LifecycleSafety == LifecycleInit /\ [][LifecycleNext]_lifeVars
LifecycleSpec == LifecycleSafety /\ LifecycleFairness

--------------------------------------------------------------------------------
(* Properties. *)

Mapped == owned # None /\ lease[owned] > 0

\* While the relay serves, the router it announces keeps its mapping unless it forgot it:
\* the lease never lapses between two refreshes, whichever of them fail (Maintain, and
\* main's reaction to mappingFailure).
MappedWhileServing ==
  pc = "serving" /\ owned # None => Mapped \/ owned \in rebooted

\* However main ends, on every path out of a failed start and of the select: it has tried
\* to remove the mapping it opened, closed the server it started, and interrupted the
\* announcer, unless that had ended or never started.
NothingLeftBehind ==
  pc = "exited" /\ ~killed =>
    /\ owned # None => removed # "untried"
    /\ server # "up"
    /\ announcer = "up" => told

\* A signal, the end of the announcer or a refresh that failed ends the process.
StopsWhenAsked ==
  pc = "serving" /\ (signalled \/ announcer = "down" \/ maintain = "failed") ~> pc = "exited"

\* "A refresh failure is returned so the relay can stop advertising an endpoint that may no
\* longer be reachable" (mapping.go, Maintain): a mapping the router forgot is added again,
\* or the relay stops.
LostMappingNoticed ==
  pc = "serving" /\ owned # None /\ ~Mapped ~> pc # "serving" \/ Mapped

\* "Close removes it from the router" (mapping.go, Mapping): once main has said that the
\* mapping is removed and has ended, the router does not have it.
RemovedMeansGone == pc = "exited" /\ removed = "removed" => ~Mapped
================================================================================
