--------------------------- MODULE DeploymentProofs ----------------------------
(***************************************************************************)
(* MappedWhileServing and NothingLeftBehind in one life of the process, for  *)
(* every list of gateway clients and every lease of at least two hours; then *)
(* the TLS identity over every number of lives, crashes and changes of       *)
(* configuration, and Lifecycle's properties in each of them; and what the   *)
(* relay of a life was started with.                                         *)
(***************************************************************************)
EXTENDS Deployment, TLAPS

CallStates == {NoCall} \union [request: Requests, reply: {"none", "ok", "refused"}]
Early == {"flags", "opening", "starting", "announcing"}
Ending == {"stopping", "closing", "deleting"}

LifeTypes ==
  /\ conf \in [upnp: BOOLEAN, discovery: BOOLEAN]
  /\ pc \in Early \union Ending \union {"serving", "exited"}
  /\ try \in 1 .. Len(Clients) + 1
  /\ owned \in Routers \union {None}
  /\ server \in {"off", "up", "closing", "down"} /\ announcer \in {"off", "up", "down"}
  /\ told \in BOOLEAN /\ signalled \in BOOLEAN /\ stopped \in BOOLEAN /\ killed \in BOOLEAN
  /\ maintain \in {"off", "sleep", "refresh", "failed"} /\ age \in 0 .. Lease
  /\ call \in [Callers -> CallStates]
  /\ stray \subseteq Requests
  /\ lease \in [Routers -> 0 .. Lease] /\ rebooted \subseteq Routers
  /\ removed \in {"untried", "failed", "removed"}

\* Who waits for which request: main while it opens or deletes, Maintain while it
\* refreshes; and nothing but additions are under way before main deletes.
Asking ==
  /\ call["main"] # NoCall => pc \in {"opening", "deleting"}
  /\ call["main"] # NoCall /\ pc = "opening" =>
       try <= Len(Clients) /\ call["main"].request = [kind |-> "add", to |-> Clients[try]]
  /\ maintain = "refresh" => call["maintain"] # NoCall
  /\ call["maintain"] # NoCall =>
       maintain = "refresh" /\ call["maintain"].request = [kind |-> "add", to |-> owned]
  /\ pc \notin {"deleting", "exited"} => \A request \in stray : request.kind = "add"

\* How far main has come, and what it has left to undo.
Progress ==
  /\ pc \in {"flags", "opening"} => owned = None
  /\ pc \in Early => maintain = "off" /\ age = 0 /\ stopped = FALSE /\ announcer = "off"
  /\ pc \in Early \ {"announcing"} => server = "off"
  /\ pc = "serving" => stopped = FALSE
  /\ pc = "serving" /\ owned # None => maintain # "off"
  /\ maintain # "off" => owned # None /\ pc # "exited"
  /\ pc \in Ending => server # "up"
  /\ pc \in Ending /\ announcer = "up" => told = TRUE
  /\ pc = "exited" /\ killed = FALSE => server # "up" /\ (announcer = "up" => told = TRUE)
                                         /\ (owned # None => removed # "untried")

\* The router keeps the mapping for h more hours, unless it has forgotten it.
Kept(r, h) == lease[r] >= h \/ r \in rebooted

\* The lease at each point: whole when the router has said yes, less by the hours since
\* the last refresh while Maintain sleeps, and still at least half while it refreshes.
Leased ==
  /\ pc = "opening" /\ call["main"] # NoCall /\ call["main"].reply = "ok" => Kept(Clients[try], Lease)
  /\ pc \in {"starting", "announcing"} /\ owned # None => Kept(owned, Lease)
  /\ pc = "serving" /\ owned # None =>
       /\ maintain = "sleep" => age <= Interval /\ Kept(owned, Lease - age)
       /\ maintain \in {"refresh", "failed"} => Kept(owned, Lease - Interval)
       /\ maintain = "refresh" => age = 0
       /\ call["maintain"] # NoCall /\ call["maintain"].reply = "ok" => Kept(owned, Lease)

LifeInv == LifeTypes /\ Asking /\ Progress /\ Leased

\* Half of a lease is less than the whole, and more than nothing.
LEMMA HalfALease == Interval \in 1 .. Lease - 1 /\ Lease \in Nat /\ Lease - Interval \in 1 .. Lease
BY LifecycleAssumption DEF Interval

\* A gateway client is a router, and None is not one.
LEMMA ClientsAreRouters == None \notin Routers /\ \A i \in 1 .. Len(Clients) : Clients[i] \in Routers
<1>1. Clients \in Seq(Nat \ {0}) /\ DOMAIN Clients = 1 .. Len(Clients)
  BY LifecycleAssumption
<1> QED BY <1>1 DEF Routers, None

\* A request that was not sent has no reply, and one that was has its fields.
LEMMA CallFields ==
  ASSUME NEW s \in CallStates
  PROVE  /\ s # NoCall => /\ s.request \in Requests /\ s.reply \in {"none", "ok", "refused"}
                          /\ s \in [request: Requests, reply: {"none", "ok", "refused"}]
         /\ s.reply \in {"none", "ok", "refused"} => s # NoCall
<1>1. NoCall.reply = "no call"
  BY Zenon DEF NoCall
<1>2. s # NoCall => s \in [request: Requests, reply: {"none", "ok", "refused"}]
  BY Zenon DEF CallStates
<1> QED BY <1>1, <1>2, Zenon

--------------------------------------------------------------------------------
(* Requests. *)

\* A request is sent, for a caller that waits for none.
LEMMA SendsTypes ==
  ASSUME LifeTypes, NEW p \in Callers, NEW kind \in {"add", "delete"}, NEW r \in Routers, Sends(p, kind, r)
  PROVE  /\ call' \in [Callers -> CallStates] /\ stray' = stray
         /\ call'[p] = [request |-> [kind |-> kind, to |-> r], reply |-> "none"]
         /\ \A o \in Callers : o # p => call'[o] = call[o]
         /\ call[p] = NoCall
<1> DEFINE new == [request |-> [kind |-> kind, to |-> r], reply |-> "none"]
<1>1. new \in CallStates
  BY Zenon DEF CallStates, Requests
<1>2. call' = [call EXCEPT ![p] = new] /\ call \in [Callers -> CallStates] /\ stray' = stray /\ call[p] = NoCall
  BY Zenon DEF Sends, LifeTypes
<1> QED BY <1>1, <1>2, Zenon

\* A caller no longer waits; what was not answered may still arrive.
LEMMA ReturnsTypes ==
  ASSUME LifeTypes, NEW p \in Callers, Returns(p)
  PROVE  /\ call' \in [Callers -> CallStates] /\ call'[p] = NoCall
         /\ \A o \in Callers : o # p => call'[o] = call[o]
         /\ call[p] # NoCall
         /\ stray' \subseteq Requests
         /\ \A request \in stray' : request \in stray \/ request = call[p].request
<1>1. call \in [Callers -> CallStates] /\ NoCall \in CallStates /\ call[p] # NoCall
      /\ call' = [call EXCEPT ![p] = NoCall] /\ stray' = stray \union Unanswered({p})
  BY Zenon DEF Returns, LifeTypes, CallStates
<1>2. call[p].request \in Requests
  BY <1>1, CallFields, Zenon
<1>3. Unanswered({p}) \subseteq {call[p].request}
  BY Zenon DEF Unanswered
<1>4. stray' \subseteq Requests /\ \A request \in stray' : request \in stray \/ request = call[p].request
  BY <1>1, <1>2, <1>3, Zenon DEF LifeTypes
<1> QED BY <1>1, <1>4, Zenon

\* An addition that is carried out renews one lease and harms none.
LEMMA AddCarriedOut ==
  ASSUME LifeTypes, NEW r \in Requests, CarriesOut(r)
  PROVE  /\ lease' \in [Routers -> 0 .. Lease] /\ rebooted' \subseteq Routers
         /\ r.kind = "add" => lease'[r.to] = Lease
         /\ r.kind = "add" => \A s \in Routers, h \in 0 .. Lease : Kept(s, h) => Kept(s, h)'
<1>1. r.to \in Routers /\ lease \in [Routers -> 0 .. Lease] /\ rebooted \subseteq Routers /\ Lease \in Nat
  BY LifecycleAssumption, Zenon DEF Requests, LifeTypes
<1>2. lease' = [lease EXCEPT ![r.to] = IF r.kind = "add" THEN Lease ELSE 0] /\ rebooted' = rebooted \ {r.to}
  BY Zenon DEF CarriesOut
<1>3. lease' \in [Routers -> 0 .. Lease] /\ rebooted' \subseteq Routers
  BY <1>1, <1>2
<1>4. ASSUME r.kind = "add", NEW s \in Routers, NEW h \in 0 .. Lease, Kept(s, h) PROVE Kept(s, h)'
  BY <1>1, <1>2, <1>4 DEF Kept
<1> QED BY <1>1, <1>2, <1>3, <1>4, Zenon

\* The flags are accepted.
LEMMA FlagsAcceptedKeeps == ASSUME LifeInv, FlagsAccepted PROVE LifeInv'
<1> USE DEF LifeInv, FlagsAccepted, upkeep, router, process
<1>1. LifeTypes'
  BY DEF LifeTypes, Early, Ending
<1>2. Asking'
  BY Zenon DEF LifeTypes, Asking, Early, Progress
<1>3. Progress'
  BY Zenon DEF LifeTypes, Progress, Early, Ending
<1>4. Leased'
  BY HalfALease, Zenon DEF LifeTypes, Asking, Progress, Leased, Kept, Early
<1> QED BY <1>1, <1>2, <1>3, <1>4, Zenon

\* The server runs; without an announcer main goes on to serve, with the whole lease ahead.
LEMMA ServerStartsKeeps == ASSUME LifeInv, ServerStarts PROVE LifeInv'
<1> USE DEF LifeInv, ServerStarts, Serves, MaintainFirst, upkeep, router, process
<1>1. LifeTypes'
  BY DEF LifeTypes, Early, Ending
<1>2. Asking'
  BY Zenon DEF LifeTypes, Asking, Early, Progress
<1>3. Progress'
  BY Zenon DEF LifeTypes, Progress, Early, Ending
<1>4. Leased'
  <2>1. age = 0 /\ age' = 0 /\ (owned # None => Kept(owned, Lease)) /\ call["maintain"] = NoCall
        /\ call["main"] = NoCall /\ maintain = "off"
    BY Zenon DEF LifeTypes, Asking, Progress, Leased, Early
  <2>2. owned # None => Kept(owned, Lease)'
    BY <2>1, Zenon DEF Kept
  <2>3. Lease - age' = Lease /\ age' <= Interval
    BY <2>1, HalfALease
  <2>4. maintain' \in {"off", "sleep"}
    BY <2>1, Zenon
  <2>5. call' = call
    BY Zenon
  <2>6. owned' = owned
    BY Zenon
  <2> QED BY <2>1, <2>2, <2>3, <2>4, <2>5, <2>6, Zenon DEF Leased
<1> QED BY <1>1, <1>2, <1>3, <1>4, Zenon

\* The server fails to start.
LEMMA ServerFailsKeeps == ASSUME LifeInv, ServerFails PROVE LifeInv'
<1> USE DEF LifeInv, ServerFails, AfterFailedStart, upkeep, router, process
<1>1. LifeTypes'
  BY DEF LifeTypes, Early, Ending
<1>2. Asking'
  BY Zenon DEF LifeTypes, Asking, Early, Progress
<1>3. Progress'
  BY Zenon DEF LifeTypes, Progress, Early, Ending
<1>4. Leased'
  BY HalfALease, Zenon DEF LifeTypes, Progress, Leased, Kept, Early
<1> QED BY <1>1, <1>2, <1>3, <1>4, Zenon

\* The announcer runs, and main serves.
LEMMA AnnouncerStartsKeeps == ASSUME LifeInv, AnnouncerStarts PROVE LifeInv'
<1> USE DEF LifeInv, AnnouncerStarts, Serves, MaintainFirst, upkeep, router, process
<1>1. LifeTypes'
  BY DEF LifeTypes, Early, Ending
<1>2. Asking'
  BY Zenon DEF LifeTypes, Asking, Early, Progress
<1>3. Progress'
  BY Zenon DEF LifeTypes, Progress, Early, Ending
<1>4. Leased'
  <2>1. age = 0 /\ age' = 0 /\ (owned # None => Kept(owned, Lease)) /\ call["maintain"] = NoCall
        /\ call["main"] = NoCall /\ maintain = "off"
    BY Zenon DEF LifeTypes, Asking, Progress, Leased, Early
  <2>2. owned # None => Kept(owned, Lease)'
    BY <2>1, Zenon DEF Kept
  <2>3. Lease - age' = Lease /\ age' <= Interval
    BY <2>1, HalfALease
  <2>4. maintain' \in {"off", "sleep"}
    BY <2>1, Zenon
  <2>5. call' = call
    BY Zenon
  <2>6. owned' = owned
    BY Zenon
  <2> QED BY <2>1, <2>2, <2>3, <2>4, <2>5, <2>6, Zenon DEF Leased
<1> QED BY <1>1, <1>2, <1>3, <1>4, Zenon

\* The announcer cannot be started.
LEMMA AnnouncerFailsKeeps == ASSUME LifeInv, AnnouncerFails PROVE LifeInv'
<1> USE DEF LifeInv, AnnouncerFails, upkeep, router, process
<1>1. LifeTypes'
  BY DEF LifeTypes, Early, Ending
<1>2. Asking'
  BY Zenon DEF LifeTypes, Asking, Early, Progress
<1>3. Progress'
  BY Zenon DEF LifeTypes, Progress, Early, Ending
<1>4. Leased'
  BY HalfALease, Zenon DEF LifeTypes, Progress, Leased, Kept, Early
<1> QED BY <1>1, <1>2, <1>3, <1>4, Zenon

\* main stops for a signal or the loss of the mapping.
LEMMA SelectStopKeeps == ASSUME LifeInv, SelectStop PROVE LifeInv'
<1> USE DEF LifeInv, SelectStop, MappingLost, upkeep, router, process
<1>1. LifeTypes'
  BY ZenonT(30) DEF LifeTypes, Early, Ending
<1>2. Asking'
  BY Zenon DEF LifeTypes, Asking, Early, Progress
<1>3. Progress'
  BY Zenon  DEF LifeTypes, Progress, Early, Ending
<1>4. Leased'
  BY HalfALease, Zenon DEF LifeTypes, Progress, Leased, Kept, Early
<1> QED BY <1>1, <1>2, <1>3, <1>4, Zenon

\* main stops because the announcer ended.
LEMMA SelectAnnouncerKeeps == ASSUME LifeInv, SelectAnnouncer PROVE LifeInv'
<1> USE DEF LifeInv, SelectAnnouncer, upkeep, router, process
<1>1. LifeTypes'
  BY DEF LifeTypes, Early, Ending
<1>2. Asking'
  BY Zenon DEF LifeTypes, Asking, Early, Progress
<1>3. Progress'
  BY Zenon DEF LifeTypes, Progress, Early, Ending
<1>4. Leased'
  BY HalfALease, Zenon DEF LifeTypes, Progress, Leased, Kept, Early
<1> QED BY <1>1, <1>2, <1>3, <1>4, Zenon

\* The server is closed, or is no longer waited for.
LEMMA ClosedKeeps == ASSUME LifeInv, Closed PROVE LifeInv'
<1> USE DEF LifeInv, Closed, upkeep, router, process
<1>1. LifeTypes'
  BY DEF LifeTypes, Early, Ending
<1>2. Asking'
  BY Zenon DEF LifeTypes, Asking, Early, Progress
<1>3. Progress'
  BY Zenon DEF LifeTypes, Progress, Early, Ending
<1>4. Leased'
  BY HalfALease, Zenon DEF LifeTypes, Progress, Leased, Kept, Early
<1> QED BY <1>1, <1>2, <1>3, <1>4, Zenon

\* Maintain returns when its context is over.
LEMMA MaintainStopsKeeps == ASSUME LifeInv, MaintainStops PROVE LifeInv'
<1> USE DEF LifeInv, MaintainStops, upkeep, router, process
<1>1. LifeTypes'
  BY DEF LifeTypes, Early, Ending
<1>2. Asking'
  BY Zenon DEF LifeTypes, Asking, Early, Progress
<1>3. Progress'
  BY Zenon DEF LifeTypes, Progress, Early, Ending
<1>4. Leased'
  BY HalfALease, Zenon DEF LifeTypes, Progress, Leased, Kept, Early
<1> QED BY <1>1, <1>2, <1>3, <1>4, Zenon

\* Server.Close returns.
LEMMA ServerClosesKeeps == ASSUME LifeInv, ServerCloses PROVE LifeInv'
<1> USE DEF LifeInv, ServerCloses, upkeep, router, process
<1>1. LifeTypes'
  BY DEF LifeTypes, Early, Ending
<1>2. Asking'
  BY Zenon DEF LifeTypes, Asking, Early, Progress
<1>3. Progress'
  BY Zenon DEF LifeTypes, Progress, Early, Ending
<1>4. Leased'
  BY HalfALease, Zenon DEF LifeTypes, Progress, Leased, Kept, Early
<1> QED BY <1>1, <1>2, <1>3, <1>4, Zenon

\* The announcer ends.
LEMMA AnnouncerEndsKeeps == ASSUME LifeInv, AnnouncerEnds PROVE LifeInv'
<1> USE DEF LifeInv, AnnouncerEnds, upkeep, router, process
<1>1. LifeTypes'
  BY DEF LifeTypes, Early, Ending
<1>2. Asking'
  BY Zenon DEF LifeTypes, Asking, Early, Progress
<1>3. Progress'
  BY Zenon DEF LifeTypes, Progress, Early, Ending
<1>4. Leased'
  BY HalfALease, Zenon DEF LifeTypes, Progress, Leased, Kept, Early
<1> QED BY <1>1, <1>2, <1>3, <1>4, Zenon

\* A signal arrives.
LEMMA SignalArrivesKeeps == ASSUME LifeInv, SignalArrives PROVE LifeInv'
<1> USE DEF LifeInv, SignalArrives, upkeep, router, process
<1>1. LifeTypes'
  BY DEF LifeTypes, Early, Ending
<1>2. Asking'
  BY Zenon DEF LifeTypes, Asking, Early, Progress
<1>3. Progress'
  BY Zenon DEF LifeTypes, Progress, Early, Ending
<1>4. Leased'
  BY HalfALease, Zenon DEF LifeTypes, Progress, Leased, Kept, Early
<1> QED BY <1>1, <1>2, <1>3, <1>4, Zenon

--------------------------------------------------------------------------------
(* The end of the process. *)

\* Exits, from a state with nothing left to undo or by a kill.
LEMMA ExitsKeeps ==
  ASSUME LifeInv, Exits, removed' \in {"untried", "failed", "removed"}, killed' \in BOOLEAN,
         killed' = FALSE => server # "up" /\ (announcer = "up" => told = TRUE)
                             /\ (owned # None => removed' # "untried")
  PROVE  LifeInv'
<1> USE DEF LifeInv
<1>1. call' = [p \in Callers |-> NoCall] /\ pc' = "exited" /\ maintain' = "off"
      /\ UNCHANGED <<conf, try, owned, server, announcer, told, signalled, age, stopped, lease, rebooted>>
  BY Zenon DEF Exits, router
<1>2. stray' \subseteq Requests
  <2>1. ASSUME NEW p \in Callers, call[p].reply = "none" PROVE call[p].request \in Requests
    <3>1. call[p] \in CallStates
      BY Zenon DEF LifeTypes
    <3> QED BY <2>1, <3>1, CallFields, Zenon
  <2>2. Unanswered(Callers) \subseteq Requests
    BY <2>1, Zenon DEF Unanswered
  <2> QED BY <2>2, Zenon DEF Exits, LifeTypes
<1>3. LifeTypes'
  BY <1>1, <1>2, ZenonT(30) DEF LifeTypes, CallStates
<1>4. Asking'
  BY <1>1, Zenon DEF Asking, Callers
<1>5. Progress'
  BY <1>1, Zenon DEF Progress, Early, Ending
<1>6. Leased'
  BY <1>1, Zenon DEF Leased
<1> QED BY <1>3, <1>4, <1>5, <1>6, Zenon

\* main refuses the flags or finds no mapping: nothing was opened.
LEMMA GivesUpKeeps == ASSUME LifeInv, FlagsRefused \/ NoMapping PROVE LifeInv'
<1>1. owned = None /\ server = "off" /\ announcer = "off"
  BY Zenon DEF LifeInv, Progress, Early, FlagsRefused, NoMapping
<1>2. removed' = removed /\ killed' = killed /\ Exits
  BY Zenon DEF FlagsRefused, NoMapping
<1>3. removed \in {"untried", "failed", "removed"} /\ killed \in BOOLEAN
  BY Zenon DEF LifeInv, LifeTypes
<1> QED BY <1>1, <1>2, <1>3, ExitsKeeps, Zenon

\* main ends after closePortMapping.
LEMMA LeavesKeeps == ASSUME LifeInv, Leaves PROVE LifeInv'
<1>1. pc = "deleting" /\ Exits /\ killed' = killed
  BY Zenon DEF Leaves
<1>2. removed' \in {"untried", "failed", "removed"} /\ (owned # None => removed' # "untried")
  BY Zenon DEF Leaves, LifeInv, LifeTypes
<1>3. server # "up" /\ (announcer = "up" => told = TRUE) /\ killed \in BOOLEAN
  BY <1>1, Zenon DEF LifeInv, LifeTypes, Progress, Ending
<1> QED BY <1>1, <1>2, <1>3, ExitsKeeps, Zenon

\* The process is killed.
LEMMA KilledKeeps == ASSUME LifeInv, Killed PROVE LifeInv'
<1>1. Exits /\ killed' = TRUE /\ removed' = removed
  BY Zenon DEF Killed
<1>2. removed \in {"untried", "failed", "removed"}
  BY Zenon DEF LifeInv, LifeTypes
<1> QED BY <1>1, <1>2, ExitsKeeps, Zenon

--------------------------------------------------------------------------------
(* Open and closePortMapping. *)

\* A client is asked for the mapping, or passed over.
LEMMA OpenTriesKeeps == ASSUME LifeInv, OpenTries PROVE LifeInv'
<1> USE DEF LifeInv
<1>1. pc = "opening" /\ call["main"] = NoCall /\ try \in 1 .. Len(Clients) /\ Clients[try] \in Routers
      /\ Len(Clients) \in Nat
  BY ClientsAreRouters, LifecycleAssumption DEF OpenTries, LifeTypes
<1>2. UNCHANGED <<conf, pc, owned, server, announcer, told, signalled, removed, killed, maintain, age, stopped,
                  lease, rebooted>>
  BY Zenon DEF OpenTries, upkeep, router
<1>3. stray' = stray /\ call' \in [Callers -> CallStates] /\ call'["maintain"] = call["maintain"]
      /\ try' \in 1 .. Len(Clients) + 1
      /\ (call'["main"] # NoCall => call'["main"] = [request |-> [kind |-> "add", to |-> Clients[try]], reply |-> "none"]
                                    /\ try' = try)
  <2>1. CASE Sends("main", "add", Clients[try]) /\ UNCHANGED try
    BY <1>1, <2>1, SendsTypes DEF Callers
  <2>2. CASE try' = try + 1 /\ UNCHANGED <<call, stray>>
    BY <1>1, <2>2 DEF LifeTypes
  <2> QED BY <2>1, <2>2, Zenon DEF OpenTries
<1>4. LifeTypes'
  BY <1>2, <1>3 DEF LifeTypes
<1>5. Asking'
  BY <1>1, <1>2, <1>3 DEF Asking
<1>6. Progress'
  BY <1>2, Zenon DEF Progress
<1>7. Leased'
  BY <1>1, <1>2, <1>3 DEF Leased
<1> QED BY <1>4, <1>5, <1>6, <1>7, Zenon

\* The client's router said yes: the mapping is owned, with its lease whole.
LEMMA OpenSucceedsKeeps == ASSUME LifeInv, OpenSucceeds PROVE LifeInv'
<1> USE DEF LifeInv
<1>1. pc = "opening" /\ call["main"] # NoCall /\ call["main"].reply = "ok" /\ Returns("main")
  BY Zenon DEF OpenSucceeds, Succeeds, Returns
<1>2. owned' = Clients[try] /\ pc' = "starting"
      /\ UNCHANGED <<conf, try, server, announcer, told, signalled, removed, killed, maintain, age, stopped,
                     lease, rebooted>>
  BY Zenon DEF OpenSucceeds, upkeep, router
<1>3. try \in 1 .. Len(Clients) /\ Clients[try] \in Routers /\ call["main"].request = [kind |-> "add", to |-> Clients[try]]
  BY <1>1, ClientsAreRouters, LifecycleAssumption DEF LifeTypes, Asking
<1>4. /\ call' \in [Callers -> CallStates] /\ call'["main"] = NoCall /\ call'["maintain"] = call["maintain"]
      /\ stray' \subseteq Requests
      /\ \A request \in stray' : request \in stray \/ request = call["main"].request
  BY <1>1, ReturnsTypes, Zenon DEF Callers
<1>5. maintain = "off" /\ call["maintain"] = NoCall /\ age = 0
  BY <1>1, Zenon DEF Progress, Early, Asking
<1>6. LifeTypes'
  BY <1>2, <1>3, <1>4 DEF LifeTypes, Early
<1>7. Asking'
  BY <1>1, <1>2, <1>3, <1>4, <1>5 DEF Asking
<1>8. Progress'
  BY <1>1, <1>2, <1>5, Zenon DEF Progress, Early, Ending
<1>9. Leased'
  <2>1. Kept(Clients[try], Lease)
    BY <1>1, Zenon DEF Leased
  <2>2. Kept(owned, Lease)'
    BY <1>2, <2>1, Zenon DEF Kept
  <2> QED BY <1>2, <1>4, <2>2, Zenon DEF Leased
<1> QED BY <1>6, <1>7, <1>8, <1>9, Zenon

\* The client's router said no, or not in time: the next one is tried, and the request
\* may still be carried out.
LEMMA OpenFailsKeeps == ASSUME LifeInv, OpenFails PROVE LifeInv'
<1> USE DEF LifeInv
<1>1. pc = "opening" /\ call["main"] # NoCall /\ Returns("main")
  BY Zenon DEF OpenFails, Fails, Returns
<1>2. try' = try + 1
      /\ UNCHANGED <<conf, pc, owned, server, announcer, told, signalled, removed, killed, maintain, age, stopped,
                     lease, rebooted>>
  BY Zenon DEF OpenFails, upkeep, router
<1>3. try \in 1 .. Len(Clients) /\ Len(Clients) \in Nat /\ call["main"].request = [kind |-> "add", to |-> Clients[try]]
  BY <1>1, LifecycleAssumption DEF LifeTypes, Asking
<1>4. /\ call' \in [Callers -> CallStates] /\ call'["main"] = NoCall /\ call'["maintain"] = call["maintain"]
      /\ stray' \subseteq Requests
      /\ \A request \in stray' : request \in stray \/ request = call["main"].request
  BY <1>1, ReturnsTypes, Zenon DEF Callers
<1>5. LifeTypes'
  BY <1>2, <1>3, <1>4 DEF LifeTypes
<1>6. Asking'
  BY <1>1, <1>2, <1>3, <1>4 DEF Asking
<1>7. Progress'
  BY <1>2, Zenon DEF Progress
<1>8. Leased'
  BY <1>1, <1>2, <1>4, Zenon DEF Leased
<1> QED BY <1>5, <1>6, <1>7, <1>8, Zenon

\* closePortMapping sends its request.
LEMMA DeleteMappingKeeps == ASSUME LifeInv, DeleteMapping PROVE LifeInv'
<1> USE DEF LifeInv
<1>1. pc = "deleting" /\ owned \in Routers /\ Sends("main", "delete", owned)
  BY Zenon DEF DeleteMapping, LifeTypes
<1>2. UNCHANGED <<conf, pc, try, owned, server, announcer, told, signalled, removed, killed, maintain, age, stopped,
                  lease, rebooted>>
  BY Zenon DEF DeleteMapping, process, upkeep, router
<1>3. call' \in [Callers -> CallStates] /\ stray' = stray /\ call'["maintain"] = call["maintain"]
  BY <1>1, SendsTypes, Zenon DEF Callers
<1>4. LifeTypes'
  BY <1>2, <1>3 DEF LifeTypes
<1>5. Asking'
  BY <1>1, <1>2, <1>3, Zenon DEF Asking
<1>6. Progress'
  BY <1>2, Zenon DEF Progress
<1>7. Leased'
  BY <1>1, <1>2, Zenon DEF Leased
<1> QED BY <1>4, <1>5, <1>6, <1>7, Zenon

--------------------------------------------------------------------------------
(* Maintain. *)

\* Half of the lease is over: Maintain asks for the mapping again.
LEMMA RefreshesKeeps == ASSUME LifeInv, Refreshes PROVE LifeInv'
<1> USE DEF LifeInv
<1>1. maintain = "sleep" /\ age = Interval /\ Sends("maintain", "add", owned) /\ maintain' = "refresh" /\ age' = 0
      /\ UNCHANGED <<conf, pc, try, owned, server, announcer, told, signalled, removed, killed, stopped, lease, rebooted>>
  BY Zenon DEF Refreshes, process, router
<1>2. owned \in Routers
  BY <1>1, Zenon DEF Progress, LifeTypes
<1>3. /\ call' \in [Callers -> CallStates] /\ stray' = stray /\ call'["main"] = call["main"]
      /\ call'["maintain"] = [request |-> [kind |-> "add", to |-> owned], reply |-> "none"]
  BY <1>1, <1>2, SendsTypes, Zenon DEF Callers
<1>4. call'["maintain"].request = [kind |-> "add", to |-> owned] /\ call'["maintain"].reply = "none"
      /\ call'["maintain"] # NoCall
  <2>1. NoCall.reply # "none"
    BY Zenon DEF NoCall
  <2>2. call'["maintain"].request = [kind |-> "add", to |-> owned] /\ call'["maintain"].reply = "none"
    BY <1>3
  <2> QED BY <2>1, <2>2, Zenon
<1>5. pc \notin Early /\ pc # "exited"
  BY <1>1, Zenon DEF Progress
<1>6. LifeTypes'
  BY <1>1, <1>3, HalfALease, SMTT(30) DEF LifeTypes
<1>7. Asking'
  BY <1>1, <1>3, <1>4, Zenon DEF Asking
<1>8. Progress'
  BY <1>1, <1>2, <1>5, ClientsAreRouters, Zenon DEF Progress
<1>9. Leased'
  <2>1. pc = "serving" => Kept(owned, Lease - Interval)
    BY <1>1, <1>2, ClientsAreRouters, Zenon DEF Leased
  <2>2. pc = "serving" => Kept(owned, Lease - Interval)'
    BY <1>1, <2>1, Zenon DEF Kept, Interval
  <2> QED BY <1>1, <1>4, <1>5, <2>2, Zenon DEF Leased, Early
<1> QED BY <1>6, <1>7, <1>8, <1>9, Zenon

\* The router said yes: the lease is whole again.
LEMMA RefreshedKeeps == ASSUME LifeInv, Refreshed PROVE LifeInv'
<1> USE DEF LifeInv
<1>1. maintain = "refresh" /\ call["maintain"].reply = "ok" /\ Returns("maintain") /\ maintain' = "sleep"
      /\ UNCHANGED <<conf, pc, try, owned, server, announcer, told, signalled, removed, killed, age, stopped, lease, rebooted>>
  BY Zenon DEF Refreshed, Succeeds, process, router
<1>2. /\ call' \in [Callers -> CallStates] /\ call'["maintain"] = NoCall /\ call'["main"] = call["main"]
      /\ call["maintain"] # NoCall /\ stray' \subseteq Requests
      /\ \A request \in stray' : request \in stray \/ request = call["maintain"].request
  BY <1>1, ReturnsTypes, Zenon DEF Callers
<1>3. owned \in Routers /\ owned # None /\ call["maintain"].request = [kind |-> "add", to |-> owned]
  BY <1>1, <1>2, Zenon DEF Progress, Asking, LifeTypes
<1>4. pc \notin Early /\ pc # "exited"
  BY <1>1, Zenon DEF Progress
<1>5. LifeTypes'
  BY <1>1, <1>2 DEF LifeTypes
<1>6. Asking'
  BY <1>1, <1>2, <1>3 DEF Asking
<1>7. Progress'
  BY <1>1, <1>3, <1>4, Zenon DEF Progress
<1>8. Leased'
  <2>1. pc = "serving" => Kept(owned, Lease) /\ age = 0
    BY <1>1, <1>2, <1>3, Zenon DEF Leased
  <2>2. pc = "serving" => Kept(owned, Lease)'
    BY <1>1, <2>1, Zenon DEF Kept
  <2>3. pc = "serving" => age' <= Interval /\ Lease - age' = Lease
    BY <1>1, <2>1, HalfALease
  <2> QED BY <1>1, <1>2, <1>4, <2>2, <2>3, Zenon DEF Leased, Early
<1> QED BY <1>5, <1>6, <1>7, <1>8, Zenon

\* The router said no, or not in time: Maintain returns the error, and the request may
\* still be carried out.
LEMMA RefreshFailsKeeps == ASSUME LifeInv, RefreshFails PROVE LifeInv'
<1> USE DEF LifeInv
<1>1. maintain = "refresh" /\ Returns("maintain") /\ maintain' = "failed"
      /\ UNCHANGED <<conf, pc, try, owned, server, announcer, told, signalled, removed, killed, age, stopped, lease, rebooted>>
  BY Zenon DEF RefreshFails, Fails, AfterFailedRefresh, process, router
<1>2. /\ call' \in [Callers -> CallStates] /\ call'["maintain"] = NoCall /\ call'["main"] = call["main"]
      /\ call["maintain"] # NoCall /\ stray' \subseteq Requests
      /\ \A request \in stray' : request \in stray \/ request = call["maintain"].request
  BY <1>1, ReturnsTypes, Zenon DEF Callers
<1>3. owned \in Routers /\ owned # None /\ call["maintain"].request = [kind |-> "add", to |-> owned]
  BY <1>1, <1>2, Zenon DEF Progress, Asking, LifeTypes
<1>4. pc \notin Early /\ pc # "exited"
  BY <1>1, Zenon DEF Progress
<1>5. LifeTypes'
  BY <1>1, <1>2 DEF LifeTypes
<1>6. Asking'
  BY <1>1, <1>2, <1>3 DEF Asking
<1>7. Progress'
  BY <1>1, <1>3, <1>4, Zenon DEF Progress
<1>8. Leased'
  <2>1. pc = "serving" => Kept(owned, Lease - Interval)
    BY <1>1, <1>3, Zenon DEF Leased
  <2>2. pc = "serving" => Kept(owned, Lease - Interval)'
    BY <1>1, <2>1, Zenon DEF Kept, Interval
  <2> QED BY <1>1, <1>2, <1>4, <2>2, Zenon DEF Leased, Early
<1> QED BY <1>5, <1>6, <1>7, <1>8, Zenon

--------------------------------------------------------------------------------
(* The routers, and time. *)

\* What is kept at every hour stays kept, and the rest of Leased is about unchanged state.
LEMMA LeasedWhileKept ==
  ASSUME LifeInv, \A s \in Routers, h \in 0 .. Lease : Kept(s, h) => Kept(s, h)',
         UNCHANGED <<pc, try, owned, maintain, age>>,
         \A p \in Callers : call'[p] # NoCall /\ call'[p].reply = "ok" =>
             (call[p] # NoCall /\ call[p].reply = "ok")
               \/ (call[p] # NoCall /\ \E r \in Routers : r = call[p].request.to /\ lease'[r] = Lease)
  PROVE  Leased'
<1> USE DEF LifeInv
<1>1. Lease \in 0 .. Lease /\ Lease - Interval \in 0 .. Lease /\ Interval \in 0 .. Lease
      /\ (age <= Interval => Lease - age \in 0 .. Lease)
  BY HalfALease DEF LifeTypes
<1>2. owned # None => owned \in Routers
  BY Zenon DEF LifeTypes
<1>3. "main" \in Callers /\ "maintain" \in Callers
  BY Zenon DEF Callers
<1>4. (pc = "opening" /\ call["main"] # NoCall /\ call["main"].reply = "ok" => Kept(Clients[try], Lease))'
  <2>1. SUFFICES ASSUME pc = "opening", call'["main"] # NoCall, call'["main"].reply = "ok"
                 PROVE  Kept(Clients[try], Lease)'
    BY Zenon
  <2>2. CASE call["main"] # NoCall /\ call["main"].reply = "ok"
    <3>1. Kept(Clients[try], Lease) /\ Clients[try] \in Routers
      BY <2>1, <2>2, ClientsAreRouters, LifecycleAssumption, SMTT(30) DEF Leased, Asking, LifeTypes
    <3>2. \A s \in Routers : Kept(s, Lease) => Kept(s, Lease)'
      BY <1>1, Zenon
    <3> QED BY <3>1, <3>2, Zenon DEF Kept
  <2>3. CASE call["main"] # NoCall /\ \E r \in Routers : r = call["main"].request.to /\ lease'[r] = Lease
    <3>1. call["main"].request.to = Clients[try]
      BY <2>1, <2>3 DEF Asking
    <3> QED BY <1>1, <2>3, <3>1 DEF Kept
  <2> QED BY <1>3, <2>1, <2>2, <2>3, Zenon
<1>5. (pc \in {"starting", "announcing"} /\ owned # None => Kept(owned, Lease))'
  BY <1>1, <1>2, Zenon DEF Leased, Kept
<1>6. (pc = "serving" /\ owned # None /\ maintain = "sleep" => age <= Interval /\ Kept(owned, Lease - age))'
  BY <1>1, <1>2, Zenon DEF Leased, Kept
<1>7. (pc = "serving" /\ owned # None /\ maintain \in {"refresh", "failed"} => Kept(owned, Lease - Interval))'
  BY <1>1, <1>2, Zenon DEF Leased, Kept, Interval
<1>8. (pc = "serving" /\ owned # None /\ maintain = "refresh" => age = 0)'
  BY Zenon DEF Leased
<1>9. (pc = "serving" /\ owned # None /\ call["maintain"] # NoCall /\ call["maintain"].reply = "ok" => Kept(owned, Lease))'
  <2>1. SUFFICES ASSUME pc = "serving", owned # None, call'["maintain"] # NoCall, call'["maintain"].reply = "ok"
                 PROVE  Kept(owned, Lease)'
    BY Zenon
  <2>2. CASE call["maintain"] # NoCall /\ call["maintain"].reply = "ok"
    BY <1>1, <1>2, <2>1, <2>2, Zenon DEF Leased, Kept
  <2>3. CASE call["maintain"] # NoCall /\ \E r \in Routers : r = call["maintain"].request.to /\ lease'[r] = Lease
    <3>1. call["maintain"].request.to = owned
      BY <2>3 DEF Asking
    <3> QED BY <1>1, <2>3, <3>1 DEF Kept
  <2> QED BY <1>3, <2>1, <2>2, <2>3, Zenon
<1> QED BY <1>4, <1>5, <1>6, <1>7, <1>8, <1>9, Zenon DEF Leased

\* A router answers a request that is waited for.
LEMMA RouterAnswersKeeps == ASSUME LifeInv, NEW p \in Callers, RouterAnswers(p) PROVE LifeInv'
<1> USE DEF LifeInv
<1>1. UNCHANGED <<conf, pc, try, owned, server, announcer, told, signalled, removed, killed, maintain, age, stopped, stray>>
  BY Zenon DEF RouterAnswers, process, upkeep
<1>2. call[p] \in CallStates /\ call[p].reply = "none" /\ call \in [Callers -> CallStates]
  BY Zenon DEF RouterAnswers, LifeTypes
<1>3. /\ call[p] # NoCall /\ call[p].request \in Requests
      /\ call[p] \in [request: Requests, reply: {"none", "ok", "refused"}]
  BY <1>2, CallFields, Zenon
<1>4. PICK reply \in {"ok", "refused"} :
         /\ call' = [call EXCEPT ![p].reply = reply]
         /\ IF reply = "ok" THEN CarriesOut(call[p].request) ELSE UNCHANGED router
  BY Zenon  DEF RouterAnswers
<1> DEFINE answered == [call[p] EXCEPT !.reply = reply]
<1>5. answered \in [request: Requests, reply: {"none", "ok", "refused"}] /\ answered.request = call[p].request
      /\ answered.reply = reply /\ call' = [call EXCEPT ![p] = answered]
  BY <1>2, <1>3, <1>4, Zenon
<1> HIDE DEF answered
<1>6. answered \in CallStates /\ answered # NoCall
  <2>1. NoCall.reply \notin {"ok", "refused"}
    BY Zenon DEF NoCall
  <2> QED BY <1>5, <2>1, Zenon DEF CallStates
<1>7. /\ call' \in [Callers -> CallStates] /\ call'[p] = answered
      /\ \A o \in Callers : o # p => call'[o] = call[o]
      /\ \A o \in Callers : (call'[o] = NoCall) = (call[o] = NoCall)
      /\ \A o \in Callers : call'[o] # NoCall => call'[o].request = call[o].request
  BY <1>2, <1>3, <1>5, <1>6, Zenon
<1>8. pc \notin {"deleting", "exited"} => call[p].request.kind = "add"
  BY <1>3 DEF Asking, Callers
<1>9. /\ lease' \in [Routers -> 0 .. Lease] /\ rebooted' \subseteq Routers
      /\ call[p].request.kind = "add" /\ reply = "ok" =>
           call[p].request.to \in Routers /\ lease'[call[p].request.to] = Lease
      /\ call[p].request.kind = "add" => \A s \in Routers, h \in 0 .. Lease : Kept(s, h) => Kept(s, h)'
  <2>1. CASE reply = "ok"
    BY <1>3, <1>4, <2>1, AddCarriedOut, Zenon DEF Requests
  <2>2. CASE reply = "refused"
    BY <1>4, <2>2, Zenon DEF LifeTypes, Kept, router
  <2> QED BY <2>1, <2>2, Zenon
<1>10. LifeTypes'
  <2>1. call' \in [Callers -> CallStates]
    BY <1>7, Zenon
  <2>2. lease' \in [Routers -> 0 .. Lease] /\ rebooted' \subseteq Routers
    BY <1>9, Zenon
  <2> QED BY <1>1, <2>1, <2>2 DEF LifeTypes
<1>11. Asking'
  BY <1>1, <1>7, Zenon DEF Asking, Callers
<1>12. Progress'
  BY <1>1, Zenon DEF Progress
<1>13. Leased'
  <2>1. CASE pc \in {"deleting", "exited"}
    BY <1>1, <2>1, Zenon DEF Leased
  <2>2. CASE pc \notin {"deleting", "exited"}
    <3>1. ASSUME NEW o \in Callers, call'[o] # NoCall, call'[o].reply = "ok"
          PROVE  \/ call[o] # NoCall /\ call[o].reply = "ok"
                 \/ call[o] # NoCall /\ \E r \in Routers : r = call[o].request.to /\ lease'[r] = Lease
      <4>1. CASE o = p
        BY <1>3, <1>5, <1>7, <1>8, <1>9, <2>2, <3>1, <4>1, Zenon
      <4>2. CASE o # p
        BY <1>7, <3>1, <4>2, Zenon
      <4> QED BY <4>1, <4>2, Zenon
    <3>2. \A s \in Routers, h \in 0 .. Lease : Kept(s, h) => Kept(s, h)'
      BY <1>8, <1>9, <2>2, Zenon
    <3> QED BY <1>1, <3>1, <3>2, LeasedWhileKept, Zenon
  <2> QED BY <2>1, <2>2, Zenon
<1> QED BY <1>10, <1>11, <1>12, <1>13, Zenon

\* A request nobody waits for is carried out, or lost.
LEMMA StrayArrivesKeeps == ASSUME LifeInv, StrayArrives PROVE LifeInv'
<1> USE DEF LifeInv
<1>1. UNCHANGED <<conf, pc, try, owned, server, announcer, told, signalled, removed, killed, maintain, age, stopped, call>>
  BY Zenon DEF StrayArrives, process, upkeep
<1>2. PICK request \in stray : stray' = stray \ {request} /\ (CarriesOut(request) \/ UNCHANGED router)
  BY Zenon DEF StrayArrives
<1>3. request \in Requests
  BY <1>2, Zenon DEF LifeTypes
<1>4. /\ lease' \in [Routers -> 0 .. Lease] /\ rebooted' \subseteq Routers
      /\ request.kind = "add" => \A s \in Routers, h \in 0 .. Lease : Kept(s, h) => Kept(s, h)'
  <2>1. CASE CarriesOut(request)
    BY <1>3, <2>1, AddCarriedOut, Zenon
  <2>2. CASE UNCHANGED router
    BY <2>2, Zenon DEF LifeTypes, Kept, router
  <2> QED BY <1>2, <2>1, <2>2, Zenon
<1>5. LifeTypes'
  BY <1>1, <1>2, <1>4, SMTT(30) DEF LifeTypes
<1>6. Asking'
  BY <1>1, <1>2, Zenon DEF Asking
<1>7. Progress'
  BY <1>1, Zenon DEF Progress
<1>8. Leased'
  <2>1. CASE pc \in {"deleting", "exited"}
    BY <1>1, <2>1, Zenon DEF Leased
  <2>2. CASE pc \notin {"deleting", "exited"}
    <3>1. request.kind = "add"
      BY <1>2, <2>2, Zenon DEF Asking
    <3> QED BY <1>1, <1>4, <3>1, LeasedWhileKept, Zenon
  <2> QED BY <2>1, <2>2, Zenon
<1> QED BY <1>5, <1>6, <1>7, <1>8, Zenon

\* A router forgets its mappings.
LEMMA RouterRebootsKeeps == ASSUME LifeInv, RouterReboots PROVE LifeInv'
<1> USE DEF LifeInv
<1>1. UNCHANGED <<conf, pc, try, owned, server, announcer, told, signalled, removed, killed, maintain, age, stopped, call, stray>>
  BY Zenon DEF RouterReboots, process, upkeep
<1>2. PICK r \in Routers : lease' = [lease EXCEPT ![r] = 0] /\ rebooted' = rebooted \union {r}
  BY Zenon  DEF RouterReboots
<1>3. lease' \in [Routers -> 0 .. Lease] /\ rebooted' \subseteq Routers
  BY <1>2, HalfALease DEF LifeTypes
<1>4. ASSUME NEW s \in Routers, NEW h \in 0 .. Lease, Kept(s, h) PROVE Kept(s, h)'
  BY <1>2, <1>4, Zenon DEF Kept, LifeTypes
<1>5. LifeTypes'
  BY <1>1, <1>3 DEF LifeTypes
<1>6. Asking'
  BY <1>1, Zenon DEF Asking
<1>7. Progress'
  BY <1>1, Zenon DEF Progress
<1>8. Leased'
  BY <1>1, <1>4, LeasedWhileKept, Zenon
<1> QED BY <1>5, <1>6, <1>7, <1>8, Zenon

\* An hour passes: while main serves, it is one of the hours Maintain sleeps.
LEMMA HourPassesKeeps == ASSUME LifeInv, HourPasses PROVE LifeInv'
<1> USE DEF LifeInv
<1>1. UNCHANGED <<conf, pc, try, owned, server, announcer, told, signalled, removed, killed, maintain, stopped, call, stray, rebooted>>
  BY Zenon DEF HourPasses, process
<1>2. /\ lease' = [r \in Routers |-> IF lease[r] = 0 THEN 0 ELSE lease[r] - 1]
      /\ age' = (IF maintain = "sleep" THEN age + 1 ELSE age)
      /\ call["main"] = NoCall /\ call["maintain"] = NoCall
      /\ maintain = "sleep" => age < Interval
      /\ pc \in {"closing", "exited", "serving"} /\ (pc = "serving" => maintain # "failed")
  BY Zenon DEF HourPasses, Quiet, Callers
<1>3. lease' \in [Routers -> 0 .. Lease] /\ \A r \in Routers : lease'[r] >= lease[r] - 1
  BY <1>2, HalfALease DEF LifeTypes
<1>4. age' \in 0 .. Lease
  BY <1>2, HalfALease DEF LifeTypes
<1>5. LifeTypes'
  BY <1>1, <1>3, <1>4 DEF LifeTypes
<1>6. Asking'
  BY <1>1, Zenon DEF Asking
<1>7. Progress'
  BY <1>1, <1>2, Zenon DEF Progress, Early
<1>8. Leased'
  <2>1. CASE pc = "serving" /\ owned # None
    <3>1. maintain = "sleep" /\ owned \in Routers
      BY <1>2, <2>1, Zenon DEF Progress, Asking, LifeTypes
    <3>2. age' = age + 1 /\ age < Interval /\ age \in Nat
      BY <1>2, <3>1 DEF LifeTypes
    <3>3. Kept(owned, Lease - age)
      BY <2>1, <3>1, Zenon DEF Leased
    <3>4. Kept(owned, Lease - age)'
      BY <1>1, <1>3, <3>1, <3>2, <3>3, HalfALease DEF Kept, LifeTypes
    <3>5. age' <= Interval
      BY <3>2, HalfALease
    <3>6. pc' = "serving" /\ maintain' = "sleep" /\ owned' = owned /\ call'["maintain"] = NoCall
      BY <1>1, <1>2, <2>1, <3>1, Zenon
    <3> QED BY <3>4, <3>5, <3>6, Zenon DEF Leased
  <2>2. CASE ~(pc = "serving" /\ owned # None)
    BY <1>1, <1>2, <2>2, Zenon DEF Leased
  <2> QED BY <2>1, <2>2, Zenon
<1> QED BY <1>5, <1>6, <1>7, <1>8, Zenon

--------------------------------------------------------------------------------
(* The invariant, and what follows from it. *)

\* The first process begins with nothing owned, asked or running.
LEMMA LifeInvInit == ASSUME LifecycleInit PROVE LifeInv
<1> USE DEF LifecycleInit, LifecycleBegins
<1>1. Len(Clients) \in Nat /\ Lease \in Nat
  BY LifecycleAssumption
<1>2. call \in [Callers -> CallStates] /\ call["main"] = NoCall /\ call["maintain"] = NoCall
  BY Zenon DEF Callers, CallStates
<1>3. LifeTypes
  <2>1. lease \in [Routers -> 0 .. Lease] /\ try \in 1 .. Len(Clients) + 1 /\ age \in 0 .. Lease
    BY <1>1
  <2>2. pc \in Early /\ owned \in Routers \union {None} /\ stray \subseteq Requests /\ rebooted \subseteq Routers
    BY Zenon DEF Early
  <2> QED BY <1>2, <2>1, <2>2, Zenon DEF LifeTypes
<1>4. Asking /\ Progress /\ Leased
  BY <1>2, Zenon DEF Asking, Progress, Leased, Early, Ending
<1> QED BY <1>3, <1>4, Zenon DEF LifeInv

\* A process begins where another has ended and no request of it is under way.
LEMMA BeginsAgainKeeps ==
  ASSUME LifeInv, BeginsAgain, stray = {}, conf' \in [upnp: BOOLEAN, discovery: BOOLEAN]
  PROVE  LifeInv'
<1> USE DEF LifeInv, BeginsAgain, router
<1>1. Len(Clients) \in Nat /\ Lease \in Nat
  BY LifecycleAssumption
<1>2. call["main"] = NoCall /\ call["maintain"] = NoCall
  BY Zenon DEF Asking, Progress, LifeTypes
<1>3. LifeTypes'
  <2>1. try' \in 1 .. Len(Clients) + 1 /\ age' \in 0 .. Lease /\ pc' \in Early /\ owned' \in Routers \union {None}
    BY <1>1 DEF Early
  <2> QED BY <1>2, <2>1, Zenon DEF LifeTypes
<1>4. Asking' /\ Progress' /\ Leased'
  BY <1>2, Zenon DEF Asking, Progress, Leased, Early, Ending
<1> QED BY <1>3, <1>4, Zenon

\* Every step keeps the invariant.
LEMMA LifeInvStep == ASSUME LifeInv, [LifecycleNext]_lifeVars PROVE LifeInv'
<1>1. CASE MainStep
  BY <1>1, GivesUpKeeps, FlagsAcceptedKeeps, OpenTriesKeeps, OpenSucceedsKeeps, OpenFailsKeeps, ServerStartsKeeps,
     ServerFailsKeeps, AnnouncerStartsKeeps, AnnouncerFailsKeeps, SelectStopKeeps, SelectAnnouncerKeeps,
     ClosedKeeps, DeleteMappingKeeps, LeavesKeeps, Zenon DEF MainStep
<1>2. CASE MaintainStep
  BY <1>2, RefreshesKeeps, RefreshedKeeps, RefreshFailsKeeps, MaintainStopsKeeps, Zenon DEF MaintainStep
<1>3. CASE RouterStep
  BY <1>3, StrayArrivesKeeps, RouterRebootsKeeps, RouterAnswersKeeps, Zenon DEF RouterStep
<1>4. CASE ServerCloses \/ AnnouncerEnds \/ SignalArrives \/ Killed \/ HourPasses
  BY <1>4, ServerClosesKeeps, AnnouncerEndsKeeps, SignalArrivesKeeps, KilledKeeps, HourPassesKeeps, Zenon
<1>5. CASE UNCHANGED lifeVars
  <2>1. UNCHANGED <<conf, pc, try, owned, server, announcer, told, signalled, removed, killed>>
        /\ UNCHANGED <<maintain, age, stopped, call, stray, lease, rebooted>>
    BY <1>5, Zenon DEF lifeVars, process, upkeep, router
  <2>2. LifeTypes'
    BY <2>1 DEF LifeInv, LifeTypes
  <2>3. Asking'
    BY <2>1, Zenon DEF LifeInv, Asking
  <2>4. Progress'
    BY <2>1, Zenon DEF LifeInv, Progress
  <2>5. Leased'
    BY <2>1, Zenon DEF LifeInv, Leased, Kept
  <2> QED BY <2>2, <2>3, <2>4, <2>5, Zenon DEF LifeInv
<1> QED BY <1>1, <1>2, <1>3, <1>4, <1>5, Zenon DEF LifecycleNext

\* The invariant gives both properties: a sleep is no longer than half of the lease, and
\* half of the lease is at least an hour.
LEMMA LifeInvImplies == ASSUME LifeInv PROVE MappedWhileServing /\ NothingLeftBehind
<1> USE DEF LifeInv
<1>1. MappedWhileServing
  <2>1. SUFFICES ASSUME pc = "serving", owned # None PROVE lease[owned] > 0 \/ owned \in rebooted
    BY Zenon DEF MappedWhileServing, Mapped
  <2>2. owned \in Routers /\ lease[owned] \in 0 .. Lease /\ maintain \in {"sleep", "refresh", "failed"}
    BY <2>1, Zenon DEF LifeTypes, Progress
  <2>3. CASE maintain = "sleep"
    BY <2>1, <2>2, <2>3, HalfALease DEF Leased, Kept, LifeTypes
  <2>4. CASE maintain \in {"refresh", "failed"}
    BY <2>1, <2>2, <2>4, HalfALease DEF Leased, Kept, LifeTypes
  <2> QED BY <2>2, <2>3, <2>4, Zenon
<1>2. NothingLeftBehind
  BY Zenon DEF NothingLeftBehind, Progress, LifeTypes
<1> QED BY <1>1, <1>2, Zenon

\* LifeInv holds in every state of every run of the process.
THEOREM LifecycleInvariant == LifecycleSafety => []LifeInv
<1>1. LifecycleInit => LifeInv
  BY LifeInvInit, Zenon
<1>2. LifeInv /\ [LifecycleNext]_lifeVars => LifeInv'
  BY LifeInvStep, Zenon
<1> QED BY <1>1, <1>2, PTL DEF LifecycleSafety

\* While the relay serves, the router keeps its mapping unless it forgot it, for every
\* list of gateway clients and every lease (Maintain; main's select).
THEOREM AlwaysMappedWhileServing == LifecycleSafety => []MappedWhileServing
<1>1. LifeInv => MappedWhileServing
  BY LifeInvImplies, Zenon
<1> QED BY <1>1, LifecycleInvariant, PTL

\* Every path out of main has tried to remove the mapping, closed the server and
\* interrupted the announcer (main; closePortMapping).
THEOREM NothingEverLeftBehind == LifecycleSafety => []NothingLeftBehind
<1>1. LifeInv => NothingLeftBehind
  BY LifeInvImplies, Zenon
<1> QED BY <1>1, LifecycleInvariant, PTL

Later == {"policy", "database", "buckets", "socket", "chmod", "capacity", "listening", "started"}

\* The files of the state directory hold pairs that were generated.
FilesKnown ==
  /\ disk = [cert |-> disk.cert, key |-> disk.key] /\ pairs \in Nat
  /\ disk.cert \in {Missing, Torn} \/ disk.cert = Whole(disk.cert.pair)
  /\ disk.key \in {Missing, Torn} \/ disk.key.pair.number \in 1 .. pairs

\* The pair that is being written is for the relay's name, and its key is not yet there.
New == pair.name = start.name.text /\ disk.key # Whole(pair) /\ pair.number \in 1 .. pairs

\* What the directory holds at each step of Start.
Written ==
  /\ step = "creating" => Absent \/ ~Usable(disk.cert.pair)
  /\ step = "cert" => disk.cert = Torn /\ New
  /\ step = "key" => disk.cert = Whole(pair) /\ due = FALSE /\ New
  /\ step \in Later => /\ disk.cert = Whole(pair) /\ disk.key = Whole(pair)
                       /\ pair.name = start.name.text /\ due = FALSE

\* Where Start is, by where main is.
Linked ==
  /\ pc \in {"flags", "opening"} => step = "checks"
  /\ server = "up" => step = "started"

StartInv == FilesKnown /\ Written /\ Linked
DeploymentInv == LifeInv /\ StartInv

\* The three states of a file differ.
LEMMA FileStates ==
  ASSUME NEW p
  PROVE  /\ Missing # Torn /\ Whole(p) \notin {Missing, Torn} /\ Whole(p).pair = p
<1>1. Missing.state = "missing" /\ Torn.state = "torn" /\ Whole(p).state = "whole" /\ Whole(p).pair = p
  BY Zenon DEF Missing, Torn, Whole
<1> QED BY <1>1, Zenon

--------------------------------------------------------------------------------
(* Start. *)

\* A step of Start that fails keeps the files.
LEMMA FailedKeeps ==
  ASSUME StartInv, pc = "starting", server = "off", UNCHANGED <<pc, server>>,
         step' = "failed", UNCHANGED <<start, disk, due, pairs, pair>>
  PROVE  StartInv'
<1> USE DEF StartInv
<1>1. FilesKnown'
  BY Zenon DEF FilesKnown
<1>2. Written' /\ Linked'
  BY Zenon DEF Written, Linked, Later
<1> QED BY <1>1, <1>2, Zenon

\* So does one that fails with `kept` left to the deferred function.
LEMMA StartFailsKeeps ==
  ASSUME StartInv, pc = "starting", server = "off", UNCHANGED <<pc, server>>, NEW kept, FailsKeeping(kept)
  PROVE  StartInv'
BY FailedKeeps, Zenon DEF FailsKeeping, files

\* A step of Start that leaves the files alone and comes to a later step.
LEMMA ProceedsKeeps ==
  ASSUME StartInv, pc = "starting", server = "off", UNCHANGED <<pc, server, start, disk, due, pairs, pair>>,
         (step \in Later /\ step' \in Later) \/ step' = "loading"
  PROVE  StartInv'
<1> USE DEF StartInv
<1>1. FilesKnown'
  BY Zenon DEF FilesKnown
<1>2. Written' /\ Linked'
  BY Zenon DEF Written, Linked, Later
<1> QED BY <1>1, <1>2, Zenon

\* A pair that can be used is loaded; without one, or with one that cannot, another is made.
LEMMA LoadsCertificateKeeps ==
  ASSUME StartInv, pc = "starting", server = "off", UNCHANGED <<pc, server>>, LoadsCertificate
  PROVE  StartInv'
<1> USE DEF StartInv
<1>1. CASE Loadable /\ Usable(disk.cert.pair)
  <2>1. pair' = disk.cert.pair /\ step' = "policy" /\ UNCHANGED <<start, disk, due, pairs>>
    BY <1>1, Zenon DEF LoadsCertificate, Proceeds, files
  <2>2. disk.cert = Whole(disk.cert.pair) /\ disk.key = disk.cert
    BY <1>1, Zenon DEF Loadable, Absent, FilesKnown
  <2>3. disk.cert.pair.name = start.name.text /\ due = FALSE
    BY <1>1 DEF Usable
  <2>4. FilesKnown'
    BY <2>1, Zenon DEF FilesKnown
  <2>5. Written'
    BY <2>1, <2>2, <2>3, Zenon DEF Written, Later
  <2>6. Linked'
    BY <2>1, Zenon DEF Linked
  <2> QED BY <2>4, <2>5, <2>6, Zenon
<1>2. CASE ~(Loadable /\ Usable(disk.cert.pair)) /\ (Absent \/ Loadable)
  <2>1. step' = "creating" /\ UNCHANGED <<start, disk, due, pairs, pair>>
    BY <1>2, Zenon DEF LoadsCertificate, Proceeds, files
  <2>2. Absent \/ ~Usable(disk.cert.pair)
    BY <1>2, Zenon
  <2>3. FilesKnown'
    BY <2>1, Zenon DEF FilesKnown
  <2>4. Written'
    BY <2>1, <2>2, Zenon DEF Written, Later, Absent, Usable
  <2>5. Linked'
    BY <2>1, Zenon DEF Linked
  <2> QED BY <2>3, <2>4, <2>5, Zenon
<1>3. CASE ~(Loadable /\ Usable(disk.cert.pair)) /\ ~(Absent \/ Loadable)
  BY <1>3, StartFailsKeeps, Zenon DEF LoadsCertificate, StartFails
<1> QED BY <1>1, <1>2, <1>3, Zenon

\* A pair is generated, and the certificate's file truncated.
LEMMA GeneratesKeeps ==
  ASSUME StartInv, pc = "starting", server = "off", UNCHANGED <<pc, server>>, Generates
  PROVE  StartInv'
<1> USE DEF StartInv
<1>1. CASE StartFails
  BY <1>1, StartFailsKeeps, Zenon DEF StartFails
<1>2. CASE ~StartFails
  <2>1. /\ pairs' = pairs + 1 /\ pair' = [number |-> pairs + 1, name |-> start.name.text]
        /\ disk' = [disk EXCEPT !.cert = Torn] /\ step' = "cert" /\ start' = start /\ due' = due
    BY <1>2, Zenon DEF Generates, Proceeds
  <2>2. disk' = [cert |-> Torn, key |-> disk.key] /\ pairs \in Nat
    BY <2>1, Zenon DEF FilesKnown
  <2>3. disk'.cert = Torn /\ disk'.key = disk.key
    BY <2>2, Zenon
  <2>4. pair'.name = start.name.text /\ pair'.number = pairs + 1 /\ pair'.number \in 1 .. pairs'
    BY <2>1, <2>2
  <2>5. disk.key # Whole(pair')
    <3>1. Whole(pair') \notin {Missing, Torn} /\ Whole(pair').pair = pair'
      BY FileStates, Zenon
    <3>2. disk.key \notin {Missing, Torn} => disk.key.pair.number # pairs + 1
      BY <2>2 DEF FilesKnown
    <3> QED BY <2>4, <3>1, <3>2, Zenon
  <2>6. FilesKnown'
    BY <2>1, <2>2, <2>3 DEF FilesKnown
  <2>7. Written'
    BY <2>1, <2>3, <2>4, <2>5, Zenon DEF Written, New, Later
  <2>8. Linked'
    BY <2>1, Zenon DEF Linked
  <2> QED BY <2>6, <2>7, <2>8, Zenon
<1> QED BY <1>1, <1>2, Zenon

\* The certificate is written.
LEMMA WritesCertKeeps ==
  ASSUME StartInv, pc = "starting", server = "off", UNCHANGED <<pc, server>>, WritesCert
  PROVE  StartInv'
<1> USE DEF StartInv
<1>1. CASE StartFails
  BY <1>1, StartFailsKeeps, Zenon DEF StartFails
<1>2. CASE ~StartFails
  <2>1. /\ step = "cert" /\ disk' = [cert |-> Whole(pair), key |-> disk.key] /\ due' = FALSE
        /\ step' = "key" /\ UNCHANGED <<start, pairs, pair>>
    BY <1>2, Zenon DEF WritesCert, Proceeds
  <2>2. disk'.cert = Whole(pair) /\ disk'.key = disk.key /\ Whole(pair).pair = pair
    BY <2>1, FileStates, Zenon
  <2>3. New
    BY <2>1, Zenon DEF Written
  <2>4. FilesKnown'
    BY <2>1, <2>2, Zenon DEF FilesKnown
  <2>5. Written'
    BY <2>1, <2>2, <2>3, Zenon DEF Written, New, Later
  <2>6. Linked'
    BY <2>1, Zenon DEF Linked
  <2> QED BY <2>4, <2>5, <2>6, Zenon
<1> QED BY <1>1, <1>2, Zenon

\* The key's file is truncated.
LEMMA TruncatesKeyKeeps ==
  ASSUME StartInv, pc = "starting", server = "off", UNCHANGED <<pc, server>>, TruncatesKey
  PROVE  StartInv'
<1> USE DEF StartInv
<1>1. CASE StartFails
  BY <1>1, StartFailsKeeps, Zenon DEF StartFails
<1>2. CASE ~StartFails
  <2>1. /\ step = "key" /\ disk' = [disk EXCEPT !.key = Torn] /\ UNCHANGED <<start, step, due, pairs, pair>>
    BY <1>2, Zenon DEF TruncatesKey
  <2>2. disk' = [cert |-> disk.cert, key |-> Torn]
    BY <2>1, Zenon DEF FilesKnown
  <2>3. disk'.cert = disk.cert /\ disk'.key = Torn /\ Torn # Whole(pair)
    BY <2>2, FileStates, Zenon
  <2>4. FilesKnown'
    BY <2>1, <2>2, <2>3, Zenon DEF FilesKnown
  <2>5. Written'
    BY <2>1, <2>3, Zenon DEF Written, New, Later
  <2>6. Linked'
    BY <2>1, Zenon DEF Linked
  <2> QED BY <2>4, <2>5, <2>6, Zenon
<1> QED BY <1>1, <1>2, Zenon

\* The key is written: the pair on disk is the new one.
LEMMA WritesKeyKeeps ==
  ASSUME StartInv, pc = "starting", server = "off", UNCHANGED <<pc, server>>, WritesKey
  PROVE  StartInv'
<1> USE DEF StartInv
<1>1. CASE StartFails
  BY <1>1, StartFailsKeeps, Zenon DEF StartFails
<1>2. CASE ~StartFails
  <2>1. /\ step = "key" /\ disk' = [disk EXCEPT !.key = Whole(pair)] /\ step' = "policy"
        /\ UNCHANGED <<start, due, pairs, pair>>
    BY <1>2, Zenon DEF WritesKey, Proceeds
  <2>2. disk' = [cert |-> disk.cert, key |-> Whole(pair)]
    BY <2>1, Zenon DEF FilesKnown
  <2>3. disk'.cert = disk.cert /\ disk'.key = Whole(pair) /\ Whole(pair).pair = pair
    BY <2>2, FileStates, Zenon
  <2>4. disk.cert = Whole(pair) /\ due = FALSE /\ pair.name = start.name.text /\ pair.number \in 1 .. pairs
    BY <2>1, Zenon DEF Written, New
  <2>5. FilesKnown'
    BY <2>1, <2>2, <2>3, <2>4, Zenon DEF FilesKnown
  <2>6. Written'
    BY <2>1, <2>3, <2>4, Zenon DEF Written, Later
  <2>7. Linked'
    BY <2>1, Zenon DEF Linked
  <2> QED BY <2>5, <2>6, <2>7, Zenon
<1> QED BY <1>1, <1>2, Zenon

\* Every step of Start.
LEMMA StartStepKeeps ==
  ASSUME StartInv, pc = "starting", server = "off", UNCHANGED <<pc, server>>, StartStep
  PROVE  StartInv'
<1>1. CASE ChecksAddresses
  BY <1>1, ProceedsKeeps, StartFailsKeeps, Zenon DEF ChecksAddresses, Proceeds, StartFails, files
<1>2. CASE ChecksPolicy
  BY <1>2, ProceedsKeeps, StartFailsKeeps, Zenon DEF ChecksPolicy, Proceeds, StartFails, files, Later
<1>3. CASE OpensDatabase
  BY <1>3, ProceedsKeeps, StartFailsKeeps, Zenon DEF OpensDatabase, StartFails, files, Later
<1>4. CASE ServesTickets
  BY <1>4, ProceedsKeeps, FailedKeeps, StartFailsKeeps, Zenon DEF ServesTickets, StartFails, files, Later
<1>5. CASE ChecksCapacity
  BY <1>5, ProceedsKeeps, StartFailsKeeps, Zenon DEF ChecksCapacity, Proceeds, StartFails, files, Later
<1>6. CASE Listens
  BY <1>6, ProceedsKeeps, StartFailsKeeps, Zenon DEF Listens, StartFails, files, Later
<1>7. CASE PreparesDatabase
  BY <1>7, ProceedsKeeps, StartFailsKeeps, Zenon DEF PreparesDatabase, Proceeds, files, Later
<1>8. CASE RestrictsSocket
  BY <1>8, ProceedsKeeps, StartFailsKeeps, Zenon DEF RestrictsSocket, Proceeds, files, Later
<1> QED BY <1>1, <1>2, <1>3, <1>4, <1>5, <1>6, <1>7, <1>8, LoadsCertificateKeeps, GeneratesKeeps, WritesCertKeeps,
           TruncatesKeyKeeps, WritesKeyKeeps, Zenon DEF StartStep

--------------------------------------------------------------------------------
(* The rest of the process. *)

\* What leaves Start's progress and the files alone.
LEMMA ElsewhereKeeps ==
  ASSUME StartInv, UNCHANGED <<start, step, disk, due, pairs, pair>>,
         pc' \in {"flags", "opening"} => step = "checks", server' = "up" => step = "started"
  PROVE  StartInv'
<1> USE DEF StartInv
<1>1. FilesKnown'
  BY Zenon DEF FilesKnown
<1>2. Written'
  BY Zenon DEF Written, New, Later, Absent, Usable
<1>3. Linked'
  BY Zenon DEF Linked
<1> QED BY <1>1, <1>2, <1>3, Zenon

\* Before Start is called nothing is asked of the files.
LEMMA ConfiguresKeeps ==
  ASSUME StartInv, step = "checks", UNCHANGED <<step, disk, due, pairs, pair, server>>
  PROVE  StartInv'
<1> USE DEF StartInv
<1>1. FilesKnown'
  BY Zenon DEF FilesKnown
<1>2. Written'
  BY Zenon DEF Written, Later
<1>3. Linked'
  BY Zenon DEF Linked
<1> QED BY <1>1, <1>2, <1>3, Zenon

\* Another process.
LEMMA RestartKeeps == ASSUME DeploymentInv, Restart PROVE DeploymentInv'
<1> USE DEF DeploymentInv, StartInv
<1>1. step' = "checks" /\ pc' = "flags" /\ server' = "off" /\ UNCHANGED <<disk, pairs>>
  BY Zenon DEF Restart, BeginsAgain
<1>2. PICK d \in Deployments : conf' = Conf(d)
  BY Zenon DEF Restart
<1>3. conf' \in [upnp: BOOLEAN, discovery: BOOLEAN]
  BY <1>2, DeploymentAssumption, Zenon DEF Conf
<1>4. LifeInv'
  BY <1>3, BeginsAgainKeeps, Zenon DEF Restart
<1>5. FilesKnown'
  BY <1>1, Zenon DEF FilesKnown
<1>6. Written' /\ Linked'
  BY <1>1, Zenon DEF Written, Linked, Later
<1> QED BY <1>4, <1>5, <1>6, Zenon

\* Nothing in the process goes back to the flags or to Open, and only ServerStarts makes
\* the server run.
LEMMA NoWayBack ==
  ASSUME LifecycleNext
  PROVE  /\ pc' \in {"flags", "opening"} => pc \in {"flags", "opening"}
         /\ server' = "up" => server = "up" \/ ServerStarts
<1>1. CASE MainStep
  <2>1. CASE FlagsRefused \/ NoMapping \/ Leaves
    BY <2>1, Zenon DEF FlagsRefused, NoMapping, Leaves, Exits
  <2>2. CASE FlagsAccepted \/ OpenTries \/ OpenSucceeds \/ OpenFails
    BY <2>2, Zenon DEF FlagsAccepted, OpenTries, OpenSucceeds, OpenFails
  <2>3. CASE ServerStarts \/ ServerFails \/ AnnouncerStarts \/ AnnouncerFails
    BY <2>3, Zenon DEF ServerStarts, ServerFails, AfterFailedStart, AnnouncerStarts, AnnouncerFails, Serves
  <2>4. CASE SelectStop \/ SelectAnnouncer \/ Closed \/ DeleteMapping
    BY <2>4, Zenon DEF SelectStop, SelectAnnouncer, Closed, DeleteMapping, process
  <2> QED BY <1>1, <2>1, <2>2, <2>3, <2>4, Zenon DEF MainStep
<1>2. CASE MaintainStep
  BY <1>2, Zenon DEF MaintainStep, Refreshes, Refreshed, RefreshFails, MaintainStops, process
<1>3. CASE RouterStep
  BY <1>3, Zenon DEF RouterStep, StrayArrives, RouterReboots, RouterAnswers, process
<1>4. CASE ServerCloses \/ AnnouncerEnds \/ SignalArrives \/ Killed \/ HourPasses
  BY <1>4, Zenon DEF ServerCloses, AnnouncerEnds, SignalArrives, Killed, Exits, HourPasses, process
<1> QED BY <1>1, <1>2, <1>3, <1>4, Zenon DEF LifecycleNext

\* A step of main that is none of Start's.
LEMMA AroundKeeps ==
  ASSUME DeploymentInv, LifecycleNext, UNCHANGED startVars \/ Dies \/ ClosesAll, ServerStarts => step = "started"
  PROVE  DeploymentInv'
<1>1. LifeInv'
  BY LifeInvStep, Zenon DEF DeploymentInv
<1>2. UNCHANGED <<start, step, disk, due, pairs, pair>>
  BY Zenon DEF startVars, Dies, ClosesAll, files
<1>3. pc' \in {"flags", "opening"} => step = "checks"
  BY NoWayBack, Zenon DEF DeploymentInv, StartInv, Linked
<1>4. server' = "up" => step = "started"
  BY NoWayBack, Zenon DEF DeploymentInv, StartInv, Linked
<1> QED BY <1>1, <1>2, <1>3, <1>4, ElsewhereKeeps, Zenon DEF DeploymentInv

\* A step of main before Start: the flags, the access file and the address.
LEMMA BeforeStartKeeps ==
  ASSUME DeploymentInv, FlagsAccepted \/ OpenSucceeds, UNCHANGED <<step, files, pair, held, path>>
  PROVE  DeploymentInv'
<1>1. LifeInv'
  BY LifeInvStep, Zenon DEF DeploymentInv, LifecycleNext, MainStep
<1>2. step = "checks" /\ server' = server
  BY Zenon DEF FlagsAccepted, OpenSucceeds, DeploymentInv, StartInv, Linked
<1> QED BY <1>1, <1>2, ConfiguresKeeps, Zenon DEF DeploymentInv, files

\* Every step of the deployment keeps the invariant.
LEMMA DeploymentInvStep ==
  ASSUME DeploymentInv, [DeploymentNext]_deploymentVars PROVE DeploymentInv'
<1>1. CASE MainRuns
  <2>1. CASE ReadsFlags
    <3>1. CASE FlagsAccepted /\ UNCHANGED <<step, files, pair, held, path>>
      BY <3>1, BeforeStartKeeps, Zenon
    <3>2. CASE FlagsRefused /\ Dies
      <4>1. LifecycleNext /\ ~ServerStarts
        BY <3>2, Zenon DEF LifecycleNext, MainStep, FlagsRefused, ServerStarts
      <4> QED BY <3>2, <4>1, AroundKeeps, Zenon
    <3> QED BY <2>1, <3>1, <3>2, Zenon DEF ReadsFlags
  <2>2. CASE Opens
    <3>1. LifecycleNext /\ ~ServerStarts /\ UNCHANGED startVars
      BY <2>2, Zenon DEF Opens, LifecycleNext, MainStep, OpenTries, ServerStarts
    <3> QED BY <3>1, AroundKeeps, Zenon
  <2>3. CASE Opened
    BY <2>3, BeforeStartKeeps, Zenon DEF Opened
  <2>4. CASE Starts
    <3>1. CASE pc = "starting" /\ StartStep /\ UNCHANGED lifeVars
      <4>1. LifeInv'
        BY <3>1, LifeInvStep, Zenon DEF DeploymentInv
      <4>2. server = "off" /\ UNCHANGED <<pc, server>>
        BY <3>1, Zenon DEF DeploymentInv, LifeInv, Progress, Early, lifeVars, process
      <4> QED BY <3>1, <4>1, <4>2, StartStepKeeps, Zenon DEF DeploymentInv
    <3>2. CASE step = "started" /\ ServerStarts /\ UNCHANGED startVars
      BY <3>2, AroundKeeps, Zenon DEF LifecycleNext, MainStep
    <3>3. CASE step = "failed" /\ ServerFails /\ UNCHANGED startVars
      <4>1. ~ServerStarts
        BY <3>3, Zenon DEF ServerFails, ServerStarts, AfterFailedStart, Serves
      <4> QED BY <3>3, <4>1, AroundKeeps, Zenon DEF LifecycleNext, MainStep
    <3> QED BY <2>4, <3>1, <3>2, <3>3, Zenon DEF Starts
  <2>5. CASE (NoMapping \/ Leaves) /\ Dies
    <3>1. LifecycleNext /\ ~ServerStarts
      BY <2>5, Zenon DEF LifecycleNext, MainStep, NoMapping, Leaves, ServerStarts
    <3> QED BY <2>5, <3>1, AroundKeeps, Zenon
  <2>6. CASE /\ OpenFails \/ AnnouncerStarts \/ AnnouncerFails \/ SelectStop \/ SelectAnnouncer \/ Closed \/ DeleteMapping
             /\ UNCHANGED startVars
    <3>1. LifecycleNext
      BY <2>6, Zenon DEF LifecycleNext, MainStep
    <3>2. ~ServerStarts
      BY <2>6, Zenon DEF OpenFails, AnnouncerStarts, AnnouncerFails, SelectStop, SelectAnnouncer, Closed, DeleteMapping, ServerStarts
    <3> QED BY <2>6, <3>1, <3>2, AroundKeeps, Zenon
  <2> QED BY <1>1, <2>1, <2>2, <2>3, <2>4, <2>5, <2>6, Zenon DEF MainRuns
<1>2. CASE CloseRuns
  <2>1. LifecycleNext /\ ClosesAll /\ ~ServerStarts
    BY <1>2, Zenon DEF CloseRuns, LifecycleNext, ServerCloses, ServerStarts
  <2> QED BY <2>1, AroundKeeps, Zenon
<1>3. CASE ProcessKilled
  <2>1. LifecycleNext /\ Dies
    BY <1>3, Zenon DEF ProcessKilled, LifecycleNext
  <2>2. ~ServerStarts
    BY <1>3, Zenon DEF ProcessKilled, Killed, Exits, ServerStarts, Serves
  <2> QED BY <2>1, <2>2, AroundKeeps, Zenon
<1>4. CASE Around(MaintainStep) \/ Around(RouterStep) \/ Around(AnnouncerEnds) \/ Around(SignalArrives) \/ Around(HourPasses)
  <2>1. LifecycleNext /\ UNCHANGED startVars
    BY <1>4, Zenon DEF Around, LifecycleNext
  <2>2. pc' = pc
    BY <1>4, Zenon DEF Around, MaintainStep, Refreshes, Refreshed, RefreshFails, MaintainStops, RouterStep, StrayArrives,
       RouterReboots, RouterAnswers, AnnouncerEnds, SignalArrives, HourPasses, process
  <2>3. ~ServerStarts
    BY <2>2, Zenon DEF ServerStarts, Serves
  <2> QED BY <2>1, <2>3, AroundKeeps, Zenon
<1>5. CASE UNCHANGED deploymentVars
  <2>1. LifeInv'
    BY <1>5, LifeInvStep, Zenon DEF DeploymentInv, deploymentVars
  <2>2. StartInv'
    BY <1>5, ElsewhereKeeps, Zenon DEF DeploymentInv, StartInv, Linked, deploymentVars, lifeVars, process, startVars
  <2> QED BY <2>1, <2>2, Zenon DEF DeploymentInv
<1> QED BY <1>1, <1>2, <1>3, <1>4, <1>5, RestartKeeps, Zenon DEF DeploymentNext

\* A new installation, or one with an identity.
LEMMA DeploymentInvInit == ASSUME DeploymentInit PROVE DeploymentInv
<1> USE DEF DeploymentInit
<1>1. PICK d \in Deployments : conf = Conf(d)
  BY Zenon
<1>2. conf \in [upnp: BOOLEAN, discovery: BOOLEAN]
  BY <1>1, DeploymentAssumption DEF Conf
<1>3. LifeInv
  BY <1>2, LifeInvInit, Zenon DEF LifecycleInit
<1>4. FilesKnown
  <2>1. CASE pairs = 0 /\ disk = [cert |-> Missing, key |-> Missing]
    BY <2>1, Zenon DEF FilesKnown
  <2>2. CASE pairs = 1 /\ disk = [cert |-> Whole([number |-> 1, name |-> "relay"]), key |-> Whole([number |-> 1, name |-> "relay"])]
    BY <2>2, FileStates DEF FilesKnown
  <2> QED BY <2>1, <2>2, Zenon DEF DiskInit
<1>5. Written /\ Linked
  BY Zenon DEF Written, Linked, Later, ProcessInit, LifecycleBegins
<1> QED BY <1>3, <1>4, <1>5, Zenon DEF DeploymentInv, StartInv

--------------------------------------------------------------------------------
(* The theorems. *)

\* DeploymentInv holds in every state, over every number of lives.
THEOREM DeploymentInvariant == DeploymentSafety => []DeploymentInv
<1>1. DeploymentInit => DeploymentInv
  BY DeploymentInvInit, Zenon
<1>2. DeploymentInv /\ [DeploymentNext]_deploymentVars => DeploymentInv'
  BY DeploymentInvStep, Zenon
<1> QED BY <1>1, <1>2, PTL DEF DeploymentSafety

\* The identity that is served is the one the state directory holds, whatever crashes and
\* configurations came before (loadOrCreateCertificate, createCertificate).
THEOREM IdentityAlwaysOnDisk == DeploymentSafety => []IdentityOnDisk
<1>1. DeploymentInv => IdentityOnDisk
  BY Zenon DEF DeploymentInv, StartInv, Written, Later, IdentityOnDisk
<1> QED BY <1>1, DeploymentInvariant, PTL

\* A complete pair is given up only where its certificate is due or for another name, or the
\* name is an IP address (loadOrCreateCertificate).
THEOREM IdentityAlwaysKept == DeploymentSafety => IdentityKept
<1> DEFINE Reason == due \/ disk.cert.pair.name # start.name.text \/ start.name.literal
<1>1. ASSUME DeploymentInv, [DeploymentNext]_deploymentVars, Loadable, disk' # disk PROVE Reason
  <2>1. StartStep
    <3>1. ~Restart /\ ~CloseRuns /\ ~ProcessKilled
      BY <1>1, Zenon DEF Restart, CloseRuns, ProcessKilled, ClosesAll, Dies, files
    <3>2. ~(Around(MaintainStep) \/ Around(RouterStep) \/ Around(AnnouncerEnds) \/ Around(SignalArrives) \/ Around(HourPasses))
      BY <1>1, Zenon DEF Around, startVars
    <3>3. ~(UNCHANGED deploymentVars)
      BY <1>1, Zenon DEF deploymentVars, startVars
    <3>4. MainRuns
      BY <1>1, <3>1, <3>2, <3>3, Zenon DEF DeploymentNext
    <3>5. ~ReadsFlags /\ ~Opens /\ ~Opened /\ ~Dies /\ ~(UNCHANGED startVars)
      BY <1>1, Zenon DEF ReadsFlags, Opens, Opened, Dies, startVars, files
    <3> QED BY <3>4, <3>5, Zenon DEF MainRuns, Starts
  <2>2. ASSUME NEW kept PROVE ~FailsKeeping(kept) /\ ~StartFails
    BY <1>1, Zenon DEF FailsKeeping, StartFails, files
  <2>3. step \in {"creating", "cert", "key"}
    BY <1>1, <2>1, <2>2, Zenon DEF StartStep, ChecksAddresses, LoadsCertificate, Generates, WritesCert, TruncatesKey, WritesKey,
       ChecksPolicy, OpensDatabase, PreparesDatabase, ServesTickets, RestrictsSocket, ChecksCapacity, Listens, Proceeds, files
  <2>4. step \notin {"cert", "key"}
    BY <1>1, Zenon DEF DeploymentInv, StartInv, Written, New, Loadable
  <2>5. ~Usable(disk.cert.pair)
    BY <1>1, <2>3, <2>4, Zenon DEF DeploymentInv, StartInv, Written, Loadable
  <2> QED BY <2>5, Zenon DEF Usable
<1>2. DeploymentInv /\ [DeploymentNext]_deploymentVars => [Loadable /\ disk' # disk => Reason]_startVars
  BY <1>1, Zenon
<1> QED BY <1>2, DeploymentInvariant, PTL DEF DeploymentSafety, IdentityKept

\* In every life of the process, a relay that serves is mapped and a main that ends has
\* undone what it did (main, Maintain).
THEOREM EveryLifeIsMapped == DeploymentSafety => [](MappedWhileServing /\ NothingLeftBehind)
<1>1. DeploymentInv => MappedWhileServing /\ NothingLeftBehind
  BY LifeInvImplies, Zenon DEF DeploymentInv
<1> QED BY <1>1, DeploymentInvariant, PTL

--------------------------------------------------------------------------------
(* What a relay that runs was started with. *)

\* What main has chosen and read by the time it opens a mapping or starts the relay.
Configured ==
  /\ chosen \in Deployments /\ lives \in 1 .. MaxLives /\ conf = Conf(chosen)
  /\ pc = "opening" \/ owned # None => conf.upnp = TRUE
  /\ pc \in {"opening", "starting"} \/ step # "checks" =>
       /\ Loads(chosen.file) /\ start.address \in Addresses
       /\ start = [name |-> chosen.name, listen |-> chosen.listen, address |-> start.address,
                   local |-> chosen.local, access |-> LoadAccessConfig(chosen.file)]

\* The tests that lie behind a step of Start, and behind the announcer.
Acceptable ==
  /\ start.name.length \in 1 .. 128
  /\ publiclyRoutable(start.address) \/ (start.local /\ Is(start.address, "loopback"))

Passed ==
  /\ step \notin {"checks", "failed"} => Acceptable
  /\ step \in {"listening", "started"} => FitsAnnouncement(Advertised)
  /\ pc = "announcing" => server = "up"
  /\ announcer # "off" => step = "started"

\* What may be open at each step of Start.
Unopened == {"checks", "loading", "creating", "cert", "key", "policy", "database", "failed"}
HeldAt(s, h) ==
  /\ h \subseteq Resources
  /\ s \in Unopened => h = {}
  /\ s \in {"buckets", "socket"} => h \subseteq {"database"}
  /\ s \in {"chmod", "capacity", "listening"} => h \subseteq Tickets

Paths == {"nothing", "file", "stale", "live"}

\* The pairs that were generated, and what the process holds.
Holding ==
  /\ step \in Steps /\ due \in BOOLEAN /\ pairs \in 0 .. MaxPairs
  /\ disk.cert \in {Missing, Torn} \/ disk.cert.pair.number \in 1 .. pairs
  /\ pair.number \in 0 .. pairs
  /\ HeldAt(step, held) /\ (pc = "exited" => held = {})
  /\ path \in Paths /\ ("socket" \in held <=> path = "live")
  /\ "socket" \in held => "database" \in held
  /\ pc = "starting" /\ step \in {"buckets", "socket"} => "database" \in held
  /\ pc = "starting" /\ step = "started" => "udp" \in held
  /\ server = "up" /\ pc # "exited" => "udp" \in held

StartedInv == Configured /\ Passed /\ Holding

--------------------------------------------------------------------------------
(* The steps around Start. *)

\* Which steps of main change what StartedInv speaks of.
LEMMA LifeChanges ==
  ASSUME LifecycleNext
  PROVE  /\ conf' = conf
         /\ pc' = "opening" => pc = "opening" \/ FlagsAccepted
         /\ pc' = "starting" => pc = "starting" \/ FlagsAccepted \/ OpenSucceeds
         /\ pc' = "announcing" => server' = "up" \/ (pc = "announcing" /\ server' = server)
                                    \/ (pc = "announcing" /\ server = "closing")
         /\ owned' = owned \/ OpenSucceeds
         /\ announcer' # "off" => announcer # "off" \/ pc = "announcing"
         /\ server' = "up" /\ pc' # "exited" => (server = "up" /\ pc # "exited") \/ ServerStarts
<1>1. CASE MainStep
  <2>1. CASE FlagsRefused \/ NoMapping \/ Leaves
    BY <2>1, Zenon DEF FlagsRefused, NoMapping, Leaves, Exits
  <2>2. CASE FlagsAccepted \/ OpenTries \/ OpenSucceeds \/ OpenFails
    BY <2>2, Zenon DEF FlagsAccepted, OpenTries, OpenSucceeds, OpenFails
  <2>3. CASE ServerStarts \/ ServerFails \/ AnnouncerStarts \/ AnnouncerFails
    BY <2>3, Zenon DEF ServerStarts, ServerFails, AfterFailedStart, AnnouncerStarts, AnnouncerFails, Serves
  <2>4. CASE SelectStop \/ SelectAnnouncer \/ Closed \/ DeleteMapping
    BY <2>4, Zenon DEF SelectStop, SelectAnnouncer, Closed, DeleteMapping, process
  <2> QED BY <1>1, <2>1, <2>2, <2>3, <2>4, Zenon DEF MainStep
<1>2. CASE MaintainStep
  BY <1>2, Zenon DEF MaintainStep, Refreshes, Refreshed, RefreshFails, MaintainStops, process
<1>3. CASE RouterStep
  BY <1>3, Zenon DEF RouterStep, StrayArrives, RouterReboots, RouterAnswers, process
<1>4. CASE ServerCloses \/ AnnouncerEnds \/ SignalArrives \/ Killed \/ HourPasses
  BY <1>4, Zenon DEF ServerCloses, AnnouncerEnds, SignalArrives, Killed, Exits, HourPasses, process
<1> QED BY <1>1, <1>2, <1>3, <1>4, Zenon DEF LifecycleNext

\* A step around Start leaves what it did alone, or closes what it opened.
LEMMA AroundStarted ==
  ASSUME DeploymentInv, StartedInv, LifecycleNext, ~FlagsAccepted, ~OpenSucceeds,
         \/ UNCHANGED startVars /\ (pc' = "exited" => pc = "exited")
         \/ Dies /\ pc' = "exited"
         \/ ClosesAll /\ server' = "down" /\ pc' = pc /\ pc # "starting",
         ServerStarts => step = "started", UNCHANGED <<chosen, lives>>
  PROVE  StartedInv'
<1> USE DEF StartedInv
<1>1. /\ UNCHANGED <<start, step, disk, due, pairs, pair, chosen, lives>>
      /\ \/ UNCHANGED <<held, path>> /\ (pc' = "exited" => pc = "exited")
         \/ /\ held' = {} /\ path' \in Paths \ {"live"}
            /\ pc' # "starting" /\ (server' # "up" \/ pc' = "exited")
  BY Zenon DEF startVars, Dies, ClosesAll, Keeps, files, Holding, Paths
<1>2. /\ conf' = conf /\ owned' = owned
      /\ pc' = "opening" => pc = "opening"
      /\ pc' = "starting" => pc = "starting"
  BY LifeChanges, Zenon
<1>3. Configured'
  BY <1>1, <1>2, Zenon DEF Configured
<1>4. Passed'
  <2>1. pc' = "announcing" => server' = "up"
    BY LifeChanges, Zenon DEF Passed
  <2>2. announcer' # "off" => step = "started"
    BY LifeChanges, Zenon DEF Passed, DeploymentInv, StartInv, Linked
  <2>3. Advertised' = Advertised
    BY <1>1, Zenon DEF Advertised
  <2> QED BY <1>1, <2>1, <2>2, <2>3, Zenon DEF Passed, Acceptable, FitsAnnouncement
<1>5. Holding'
  <2>1. CASE UNCHANGED <<held, path>> /\ (pc' = "exited" => pc = "exited")
    <3>1. server' = "up" /\ pc' # "exited" => "udp" \in held
      BY LifeChanges, Zenon DEF Holding, ServerStarts
    <3> QED BY <1>1, <1>2, <2>1, <3>1, Zenon DEF Holding
  <2>2. CASE /\ held' = {} /\ path' \in Paths \ {"live"}
             /\ pc' # "starting" /\ (server' # "up" \/ pc' = "exited")
    BY <1>1, <2>2, Zenon DEF Holding, HeldAt
  <2> QED BY <1>1, <2>1, <2>2, Zenon
<1> QED BY <1>3, <1>4, <1>5, Zenon

--------------------------------------------------------------------------------
(* Start. *)

\* What a step of Start leaves alone.
Behind == UNCHANGED <<lifeVars, start, chosen, lives>>

\* A step of Start leaves main's own state, and what was chosen for this life, alone.
LEMMA BehindKeeps ==
  ASSUME StartedInv, pc = "starting", Behind
  PROVE  /\ Configured' /\ UNCHANGED <<pc, server, announcer, start>>
         /\ Advertised' = Advertised
<1>1. UNCHANGED <<conf, pc, owned, server, announcer, start, chosen, lives>>
  BY Zenon DEF Behind, lifeVars, process
<1>2. Configured'
  BY <1>1, Zenon DEF StartedInv, Configured
<1> QED BY <1>1, <1>2, Zenon DEF Advertised

\* Start has given up with nothing open.
LEMMA FailedStarted ==
  ASSUME LifeInv, StartedInv, pc = "starting", Behind, step' = "failed", held' = {},
         path' \in Paths \ {"live"}, UNCHANGED <<disk, due, pairs, pair>>
  PROVE  StartedInv'
<1>1. Configured' /\ UNCHANGED <<pc, server, announcer, start>>
  BY BehindKeeps, Zenon
<1>2. announcer = "off" /\ server = "off"
  BY Zenon DEF LifeInv, Progress, Early
<1>3. Passed'
  BY <1>1, <1>2, Zenon DEF Passed
<1>4. Holding'
  BY <1>1, <1>2, Zenon DEF StartedInv, Holding, HeldAt, Steps
<1> QED BY <1>1, <1>3, <1>4, Zenon DEF StartedInv

\* Nothing stays open once the deferred function has run, whatever was left to it; before it
\* is deferred, newTicketAuthority has closed the database.
LEMMA DeferredCloses ==
  ASSUME Holding, step # "started", NEW kept \in SUBSET held, step = "buckets" => "database" \notin kept
  PROVE  Deferred(kept) = {}
<1>1. CASE step \in Unopened
  BY <1>1, Zenon DEF Holding, HeldAt, Deferred, Unopened
<1>2. CASE step = "buckets"
  BY <1>2, Zenon DEF Holding, HeldAt, Deferred
<1>3. CASE step \in {"socket", "chmod", "capacity", "listening"}
  BY <1>3, Zenon DEF Holding, HeldAt, Deferred, Tickets
<1> QED BY <1>1, <1>2, <1>3, Zenon DEF Holding, Steps, Unopened

\* Start gives up with `kept` left to the deferred function.
LEMMA FailingStarted ==
  ASSUME LifeInv, StartedInv, pc = "starting", Behind, step # "started",
         NEW kept \in SUBSET held, step = "buckets" => "database" \notin kept, FailsKeeping(kept)
  PROVE  StartedInv'
<1>1. Deferred(kept) = {}
  BY DeferredCloses, Zenon DEF StartedInv
<1>2. step' = "failed" /\ held' = {} /\ UNCHANGED <<disk, due, pairs, pair>>
  BY <1>1, Zenon DEF FailsKeeping, Keeps, files
<1>3. path' \in Paths \ {"live"}
  <2>1. path' = IF "socket" \in held THEN "nothing" ELSE path
    BY <1>1, Zenon DEF FailsKeeping, Keeps
  <2> QED BY <2>1, Zenon DEF StartedInv, Holding, Paths
<1> QED BY <1>2, <1>3, FailedStarted, Zenon

\* Start gives up where nothing it called has closed anything.
LEMMA StartFailsStarted ==
  ASSUME LifeInv, StartedInv, pc = "starting", Behind, step \notin {"buckets", "started"}, StartFails
  PROVE  StartedInv'
BY FailingStarted, Zenon DEF StartFails

\* A step that comes to another one, and the tests of that one.
LEMMA ProceedingStarted ==
  ASSUME LifeInv, StartedInv, pc = "starting", Behind, step' \in Steps, HeldAt(step', held'),
         path' \in Paths, "socket" \in held' <=> path' = "live", "socket" \in held' => "database" \in held',
         step' \in {"buckets", "socket"} => "database" \in held', step' = "started" => "udp" \in held',
         due' \in BOOLEAN, pairs' \in 0 .. MaxPairs, pair'.number \in 0 .. pairs',
         disk'.cert \in {Missing, Torn} \/ disk'.cert.pair.number \in 1 .. pairs',
         step' \notin {"checks", "failed"} =>
           step \notin {"checks", "failed"} \/ Acceptable,
         step' \in {"listening", "started"} => step \in {"listening", "started"} \/ FitsAnnouncement(Advertised)
  PROVE  StartedInv'
<1>2. Configured' /\ UNCHANGED <<pc, server, announcer, start>> /\ Advertised' = Advertised
  BY BehindKeeps, Zenon
<1>3. announcer = "off" /\ server = "off"
  BY Zenon DEF LifeInv, Progress, Early
<1>4. Passed'
  BY <1>2, <1>3, Zenon DEF Passed, Acceptable, StartedInv, FitsAnnouncement
<1>5. Holding'
  BY <1>2, <1>3, Zenon DEF StartedInv, Holding
<1> QED BY <1>2, <1>4, <1>5, Zenon DEF StartedInv

\* Every step of Start, whether it comes to the next one or fails.
LEMMA StartStepStarted ==
  ASSUME DeploymentInv, StartedInv, pc = "starting", Behind, StartStep
  PROVE  StartedInv'
<1>0. LifeInv
  BY Zenon DEF DeploymentInv
<1> DEFINE Same == UNCHANGED <<held, path, disk, due, pairs, pair>>
           Next(s) == step' = s /\ s \in Steps \ {"buckets", "socket", "started", "checks", "failed"}
<1>0a. /\ step \in Unopened => held = {}
       /\ step \in {"chmod", "capacity", "listening"} => held \subseteq Tickets
  BY Zenon DEF StartedInv, Holding, HeldAt
<1>0b. ASSUME NEW s PROVE HeldAt(s, {}) /\ (s \in {"capacity", "listening"} => \A h \in SUBSET Tickets : HeldAt(s, h))
  BY Zenon DEF HeldAt, Unopened, Resources
<1>1. ASSUME NEW s, Same, Next(s), StartedInv,
             held = {} \/ (held \subseteq Tickets /\ s \in {"capacity", "listening"}),
             step \notin {"checks", "failed"} \/ Acceptable,
             s = "listening" => FitsAnnouncement(Advertised)
      PROVE  StartedInv'
  <2>1. HeldAt(s, held)
    BY <1>0b, <1>1, Zenon
  <2> QED BY <1>0, <1>1, <2>1, ProceedingStarted, Zenon DEF StartedInv, Holding
<1>2. CASE ChecksAddresses
  BY <1>0, <1>0a, <1>1, <1>2, StartFailsStarted, Zenon DEF ChecksAddresses, Acceptable, Proceeds, Steps, Unopened, files
<1>3. CASE LoadsCertificate
  <2>1. CASE Loadable /\ Usable(disk.cert.pair)
    <3>1. pair' = disk.cert.pair /\ step' = "policy" /\ UNCHANGED <<held, path, disk, due, pairs>>
      BY <1>3, <2>1, Zenon DEF LoadsCertificate, Proceeds, files
    <3>2. disk.cert.pair.number \in 1 .. pairs
      BY <2>1, Zenon DEF Loadable, Absent, StartedInv, Holding
    <3>3. disk.cert.pair.number \in 0 .. pairs
      BY <3>2
    <3>4. HeldAt(step', held')
      BY <1>0a, <1>0b, <1>3, <3>1, Zenon DEF LoadsCertificate, Unopened
    <3> QED BY <1>0, <1>3, <3>1, <3>3, <3>4, ProceedingStarted, Zenon DEF StartedInv, Holding, Steps, LoadsCertificate
  <2>2. CASE ~(Loadable /\ Usable(disk.cert.pair))
    BY <1>0, <1>0a, <1>1, <1>3, <2>2, StartFailsStarted, Zenon DEF LoadsCertificate, Proceeds, Steps, Unopened, files
  <2> QED BY <2>1, <2>2, Zenon
<1>4. CASE Generates
  <2>1. CASE /\ pairs' = pairs + 1 /\ pair' = [number |-> pairs + 1, name |-> start.name.text]
             /\ disk' = [disk EXCEPT !.cert = Torn] /\ Proceeds("cert") /\ UNCHANGED due
    <3>1. pairs \in 0 .. MaxPairs /\ pairs < MaxPairs
      BY <1>4, Zenon DEF Generates, StartedInv, Holding
    <3>2. pairs' \in 0 .. MaxPairs /\ pairs + 1 \in 0 .. pairs + 1
      BY <2>1, <3>1, StartAssumption
    <3>3. pair'.number \in 0 .. pairs'
      BY <2>1, <3>2, Zenon
    <3>4. disk'.cert = Torn
      BY <2>1, Zenon DEF DeploymentInv, StartInv, FilesKnown
    <3>5. HeldAt(step', held')
      BY <1>0a, <1>0b, <1>4, <2>1, Zenon DEF Generates, Proceeds, Unopened
    <3> QED BY <1>0, <1>4, <2>1, <3>2, <3>3, <3>4, <3>5, ProceedingStarted, Zenon DEF StartedInv, Holding, Steps, Generates, Proceeds
  <2> QED BY <1>0, <1>4, <2>1, StartFailsStarted, Zenon DEF Generates
<1>5. CASE WritesCert
  <2>1. CASE disk' = [cert |-> Whole(pair), key |-> disk.key] /\ due' = FALSE /\ Proceeds("key") /\ UNCHANGED <<pairs, pair>>
    <3>1. pair.number \in 1 .. pairs
      BY <1>5, Zenon DEF WritesCert, DeploymentInv, StartInv, Written, New
    <3>2. disk'.cert.pair.number \in 1 .. pairs
      BY <2>1, <3>1, FileStates, Zenon
    <3>5. HeldAt(step', held')
      BY <1>0a, <1>0b, <1>5, <2>1, Zenon DEF WritesCert, Proceeds, Unopened
    <3> QED BY <1>0, <1>5, <2>1, <3>2, <3>5, ProceedingStarted, Zenon DEF StartedInv, Holding, Steps, WritesCert, Proceeds
  <2> QED BY <1>0, <1>5, <2>1, StartFailsStarted, Zenon DEF WritesCert
<1>6. CASE TruncatesKey
  <2>1. CASE disk' = [disk EXCEPT !.key = Torn] /\ UNCHANGED <<start, step, due, pairs, pair, held, path>>
    <3>1. disk'.cert = disk.cert
      BY <2>1, Zenon DEF DeploymentInv, StartInv, FilesKnown
    <3>5. HeldAt(step', held')
      BY <1>0a, <1>0b, <1>6, <2>1, Zenon DEF TruncatesKey, Proceeds, Unopened
    <3> QED BY <1>0, <1>6, <2>1, <3>1, <3>5, ProceedingStarted, Zenon DEF StartedInv, Holding, Steps, TruncatesKey, Proceeds
  <2> QED BY <1>0, <1>6, <2>1, StartFailsStarted, Zenon DEF TruncatesKey
<1>7. CASE WritesKey
  <2>1. CASE disk' = [disk EXCEPT !.key = Whole(pair)] /\ Proceeds("policy") /\ UNCHANGED <<due, pairs, pair>>
    <3>1. disk'.cert = disk.cert
      BY <2>1, Zenon DEF DeploymentInv, StartInv, FilesKnown
    <3>5. HeldAt(step', held')
      BY <1>0a, <1>0b, <1>7, <2>1, Zenon DEF WritesKey, Proceeds, Unopened
    <3> QED BY <1>0, <1>7, <2>1, <3>1, <3>5, ProceedingStarted, Zenon DEF StartedInv, Holding, Steps, WritesKey, Proceeds
  <2> QED BY <1>0, <1>7, <2>1, StartFailsStarted, Zenon DEF WritesKey
<1>8. CASE ChecksPolicy
  <2>1. CASE step' \in {"database", "capacity"} /\ Same
    BY <1>0a, <1>1, <1>8, <2>1, Zenon DEF ChecksPolicy, Steps, Unopened
  <2>2. CASE StartFails
    BY <1>0, <1>8, <2>2, StartFailsStarted, Zenon DEF ChecksPolicy
  <2> QED BY <1>8, <2>1, <2>2, Zenon DEF ChecksPolicy, Proceeds, files
<1>9. CASE OpensDatabase
  <2>1. CASE step' = "buckets" /\ held' = held \union {"database"} /\ UNCHANGED <<start, files, pair, path>>
    <3>1. held' = {"database"}
      BY <1>0a, <1>9, <2>1, Zenon DEF OpensDatabase, Unopened
    <3>2. HeldAt(step', held')
      BY <2>1, <3>1, Zenon DEF HeldAt, Resources, Tickets, Unopened
    <3>3. path # "live"
      BY <1>0a, <1>9, Zenon DEF OpensDatabase, Unopened, StartedInv, Holding
    <3> QED BY <1>0, <1>9, <2>1, <3>1, <3>2, <3>3, ProceedingStarted, Zenon DEF StartedInv, Holding, Steps, OpensDatabase, files
  <2> QED BY <1>0, <1>9, <2>1, StartFailsStarted, Zenon DEF OpensDatabase
<1>10. CASE ServesTickets
  <2>0. step = "socket" /\ held = {"database"}
    BY <1>10, Zenon DEF ServesTickets, StartedInv, Holding, HeldAt
  <2>1. CASE step' = "chmod" /\ held' = held \union {"socket"} /\ path' = "live" /\ UNCHANGED <<start, files, pair>>
    <3>1. HeldAt(step', held')
      BY <2>0, <2>1, Zenon DEF HeldAt, Resources, Tickets, Unopened
    <3> QED BY <1>0, <2>0, <2>1, <3>1, ProceedingStarted, Zenon DEF StartedInv, Holding, Steps, Paths, files
  <2>2. CASE step' = "failed" /\ held' = Deferred(held) /\ path' = "nothing" /\ UNCHANGED <<start, files, pair>>
    <3>1. held' = {}
      BY <2>0, <2>2, DeferredCloses, Zenon DEF StartedInv
    <3> QED BY <1>0, <2>2, <3>1, FailedStarted, Zenon DEF Paths, files
  <2> QED BY <1>0, <1>10, <2>0, <2>1, <2>2, StartFailsStarted, Zenon DEF ServesTickets
<1>13. CASE PreparesDatabase
  <2>0. step = "buckets" /\ held = {"database"}
    BY <1>13, Zenon DEF PreparesDatabase, StartedInv, Holding, HeldAt
  <2>1. CASE Proceeds("socket") /\ UNCHANGED <<files, pair>>
    <3>1. step' = "socket" /\ Same
      BY <2>1, Zenon DEF Proceeds, files
    <3>2. HeldAt(step', held')
      BY <2>0, <3>1, Zenon DEF HeldAt, Resources, Tickets, Unopened
    <3> QED BY <1>0, <2>0, <3>1, <3>2, ProceedingStarted, Zenon DEF StartedInv, Holding, Steps
  <2>2. CASE FailsKeeping(held \ {"database"})
    BY <1>0, <2>0, <2>2, FailingStarted, Zenon
  <2> QED BY <1>13, <2>1, <2>2, Zenon DEF PreparesDatabase
<1>14. CASE RestrictsSocket
  <2>1. CASE Proceeds("capacity") /\ UNCHANGED <<files, pair>>
    <3>1. step = "chmod" /\ step' = "capacity" /\ Same
      BY <1>14, <2>1, Zenon DEF RestrictsSocket, Proceeds, files
    <3>2. HeldAt(step', held')
      BY <1>0a, <1>0b, <3>1, Zenon
    <3> QED BY <1>0, <3>1, <3>2, ProceedingStarted, Zenon DEF StartedInv, Holding, Steps
  <2>2. CASE FailsKeeping(held \ {"socket"})
    <3>1. step # "started" /\ step # "buckets" /\ held \ {"socket"} \in SUBSET held
      BY <1>14, Zenon DEF RestrictsSocket
    <3> QED BY <1>0, <2>2, <3>1, FailingStarted, Zenon
  <2> QED BY <1>14, <2>1, <2>2, Zenon DEF RestrictsSocket
<1>11. CASE ChecksCapacity
  BY <1>0, <1>0a, <1>1, <1>11, StartFailsStarted, Zenon DEF ChecksCapacity, Proceeds, Steps, files
<1>12. CASE Listens
  <2>1. CASE step' = "started" /\ held' = held \union {"udp"} /\ UNCHANGED <<start, files, pair, path>>
    <3>1. HeldAt(step', held') /\ ("socket" \in held' <=> "socket" \in held) /\ held \subseteq held' /\ "udp" \in held'
      BY <1>0a, <1>12, <2>1, Zenon DEF Listens, HeldAt, Resources, Tickets, Unopened
    <3> QED BY <1>0, <1>12, <2>1, <3>1, ProceedingStarted, Zenon DEF StartedInv, Holding, Steps, Listens, files
  <2> QED BY <1>0, <1>12, <2>1, StartFailsStarted, Zenon DEF Listens
<1> QED BY <1>2, <1>3, <1>4, <1>5, <1>6, <1>7, <1>8, <1>9, <1>10, <1>11, <1>12, <1>13, <1>14, Zenon DEF StartStep

--------------------------------------------------------------------------------
(* The rest of the process. *)

\* An address, written either way, is an address.
LEMMA UnmapType == ASSUME NEW a \in Addresses PROVE Unmap(a) \in Addresses
<1>1. CASE a \in [family: {4}, octets: Octets, mapped: BOOLEAN]
  BY <1>1, Zenon DEF Unmap, Addresses
<1>2. CASE a \in [family: {6}, kind: V6Kinds, zone: BOOLEAN]
  BY <1>2 DEF Unmap, Addresses
<1> QED BY <1>1, <1>2 DEF Addresses

\* Before Start, main reads the flags and takes the router's address.
LEMMA ReadStarted ==
  ASSUME DeploymentInv, StartedInv, ReadsFlags, FlagsGood(chosen), FlagsAccepted,
         start' = [name |-> chosen.name, listen |-> chosen.listen, address |-> chosen.public,
                   local |-> chosen.local, access |-> LoadAccessConfig(chosen.file)],
         UNCHANGED <<step, files, pair, held, path, chosen, lives>>
  PROVE  StartedInv'
<1> USE DEF StartedInv
<1>1. /\ step = "checks" /\ pc = "flags" /\ owned = None /\ server = "off" /\ announcer = "off"
      /\ UNCHANGED <<conf, owned, server, announcer, disk, due, pairs>>
      /\ pc' \in {"opening", "starting"} /\ (pc' = "opening" => conf.upnp)
  BY Zenon DEF FlagsAccepted, DeploymentInv, StartInv, Linked, LifeInv, Progress, Early, files
<1>2. chosen.public \in Addresses /\ start'.address = chosen.public /\ conf.upnp \in BOOLEAN
  BY DeploymentAssumption, Zenon DEF Configured, Conf
<1>3. Configured'
  BY <1>1, <1>2, Zenon DEF Configured, FlagsGood
<1>4. Passed' /\ Holding'
  BY <1>1, Zenon DEF Passed, Holding
<1> QED BY <1>3, <1>4, Zenon

\* The gateway has answered: the relay is started with the address it gave.
LEMMA OpenedStarted ==
  ASSUME DeploymentInv, StartedInv, Opened, UNCHANGED <<chosen, lives>>
  PROVE  StartedInv'
<1> USE DEF StartedInv
<1> DEFINE a == Unmap(ExternalIP[Clients[try]])
<1>1. /\ step = "checks" /\ pc = "opening" /\ server = "off" /\ announcer = "off"
      /\ UNCHANGED <<conf, server, announcer, step, held, path, pair, disk, due, pairs>>
      /\ pc' = "starting" /\ start' = [start EXCEPT !.address = a]
  BY Zenon DEF Opened, OpenSucceeds, DeploymentInv, StartInv, Linked, LifeInv, Progress, Early, files
<1>2. a \in Addresses
  <2>1. try \in 1 .. Len(Clients)
    <3>1. call["main"] # NoCall /\ pc = "opening" /\ try \in 1 .. Len(Clients) + 1
      BY <1>1, Zenon DEF Opened, OpenSucceeds, Succeeds, Returns, DeploymentInv, LifeInv, LifeTypes
    <3>2. try <= Len(Clients)
      BY <3>1, Zenon DEF DeploymentInv, LifeInv, Asking
    <3>3. Len(Clients) \in Nat
      BY LifecycleAssumption
    <3> QED BY <3>1, <3>2, <3>3
  <2>2. ExternalIP[Clients[try]] \in Addresses
    BY <2>1, ClientsAreRouters, DeploymentAssumption, Zenon
  <2> QED BY <2>2, UnmapType, Zenon
<1>3. Configured'
  <2> HIDE DEF a
  <2>1. /\ start'.address = a
        /\ start' = [name |-> chosen.name, listen |-> chosen.listen, address |-> a,
                     local |-> chosen.local, access |-> LoadAccessConfig(chosen.file)]
    <3>1. ASSUME NEW n, NEW l, NEW u, NEW o, NEW c, NEW v
          PROVE  [[name |-> n, listen |-> l, address |-> u, local |-> o, access |-> c] EXCEPT !.address = v]
                   = [name |-> n, listen |-> l, address |-> v, local |-> o, access |-> c]
      OBVIOUS
    <3>2. start = [name |-> chosen.name, listen |-> chosen.listen, address |-> start.address,
                   local |-> chosen.local, access |-> LoadAccessConfig(chosen.file)]
      BY <1>1, Zenon DEF Configured
    <3>3. [start EXCEPT !.address = a]
             = [name |-> chosen.name, listen |-> chosen.listen, address |-> a,
                local |-> chosen.local, access |-> LoadAccessConfig(chosen.file)]
      <4> DEFINE r(u) == [name |-> chosen.name, listen |-> chosen.listen, address |-> u,
                          local |-> chosen.local, access |-> LoadAccessConfig(chosen.file)]
      <4>1. [r(start.address) EXCEPT !.address = a] = r(a)
        BY <3>1
      <4>2. start = r(start.address)
        BY <3>2
      <4> HIDE DEF r
      <4>3. [start EXCEPT !.address = a] = r(a)
        BY <4>1, <4>2, Zenon
      <4> QED BY <4>3 DEF r
    <3>4. start' = [name |-> chosen.name, listen |-> chosen.listen, address |-> a,
                    local |-> chosen.local, access |-> LoadAccessConfig(chosen.file)]
      BY <1>1, <3>3, Zenon
    <3>5. start'.address = a
      BY <3>4, Zenon
    <3> QED BY <3>4, <3>5, Zenon
  <2> QED BY <1>1, <1>2, <2>1, Zenon DEF Configured
<1>4. Passed' /\ Holding'
  BY <1>1, Zenon DEF Passed, Holding
<1> QED BY <1>3, <1>4, Zenon

\* Another process.
LEMMA RestartStarted == ASSUME DeploymentInv, StartedInv, Restart PROVE StartedInv'
<1> USE DEF StartedInv
<1>1. /\ step' = "checks" /\ pc' = "flags" /\ owned' = None /\ server' = "off" /\ announcer' = "off"
      /\ chosen' \in Deployments /\ conf' = Conf(chosen') /\ lives' = lives + 1 /\ lives < MaxLives
      /\ pair' = NoPair /\ UNCHANGED <<disk, pairs, held, path>> /\ (due' = due \/ due' = TRUE)
      /\ held = {}
  BY Zenon DEF Restart, BeginsAgain, Holding
<1>2. lives' \in 1 .. MaxLives
  BY <1>1, DeploymentAssumption DEF Configured
<1>3. Configured'
  BY <1>1, <1>2, Zenon DEF Configured
<1>4. Passed'
  BY <1>1, Zenon DEF Passed
<1>5. pair'.number \in 0 .. pairs'
  BY <1>1 DEF NoPair, Holding
<1>6. Holding'
  BY <1>1, <1>5, Zenon DEF Holding, HeldAt, Steps
<1> QED BY <1>3, <1>4, <1>6, Zenon

\* Every step of the deployment keeps StartedInv.
LEMMA StartedInvStep ==
  ASSUME DeploymentInv, StartedInv, [DeploymentNext]_deploymentVars PROVE StartedInv'
<1>1. CASE MainRuns
  <2>0. UNCHANGED <<chosen, lives>>
    BY <1>1, Zenon DEF MainRuns
  <2>1. CASE ReadsFlags
    <3>1. CASE FlagsRefused /\ Dies
      <4>1. LifecycleNext /\ ~ServerStarts /\ pc' = "exited" /\ ~FlagsAccepted /\ ~OpenSucceeds
        BY <3>1, Zenon DEF LifecycleNext, MainStep, FlagsRefused, Exits, ServerStarts, FlagsAccepted, OpenSucceeds
      <4> QED BY <2>0, <3>1, <4>1, AroundStarted, Zenon
    <3> QED BY <2>0, <2>1, <3>1, ReadStarted, Zenon DEF ReadsFlags
  <2>2. CASE Opens
    <3>1. LifecycleNext /\ ~ServerStarts /\ UNCHANGED startVars /\ ~FlagsAccepted /\ ~OpenSucceeds /\ pc' # "exited"
      BY <2>2, Zenon DEF Opens, LifecycleNext, MainStep, OpenTries, ServerStarts, FlagsAccepted, OpenSucceeds
    <3> QED BY <2>0, <3>1, AroundStarted, Zenon
  <2>3. CASE Opened
    BY <2>0, <2>3, OpenedStarted, Zenon
  <2>4. CASE Starts
    <3>1. CASE pc = "starting" /\ StartStep /\ UNCHANGED lifeVars
      <4>1. UNCHANGED start
        BY <3>1, Zenon DEF StartStep, ChecksAddresses, LoadsCertificate, Generates, WritesCert, TruncatesKey, WritesKey,
           ChecksPolicy, OpensDatabase, PreparesDatabase, ServesTickets, RestrictsSocket, ChecksCapacity, Listens,
           Proceeds, StartFails, FailsKeeping
      <4> QED BY <2>0, <3>1, <4>1, StartStepStarted, Zenon DEF Behind
    <3>2. CASE step = "started" /\ ServerStarts /\ UNCHANGED startVars
      <4>1. LifecycleNext /\ ~FlagsAccepted /\ ~OpenSucceeds /\ pc' # "exited"
        BY <3>2, Zenon DEF LifecycleNext, MainStep, ServerStarts, Serves, FlagsAccepted, OpenSucceeds
      <4> QED BY <2>0, <3>2, <4>1, AroundStarted, Zenon
    <3>3. CASE step = "failed" /\ ServerFails /\ UNCHANGED startVars
      <4>1. LifecycleNext /\ ~FlagsAccepted /\ ~OpenSucceeds /\ ~ServerStarts /\ pc' # "exited"
        BY <3>3, Zenon DEF LifecycleNext, MainStep, ServerStarts, ServerFails, AfterFailedStart, Serves, FlagsAccepted, OpenSucceeds
      <4> QED BY <2>0, <3>3, <4>1, AroundStarted, Zenon
    <3> QED BY <2>4, <3>1, <3>2, <3>3, Zenon DEF Starts
  <2>5. CASE (NoMapping \/ Leaves) /\ Dies
    <3>1. LifecycleNext /\ ~ServerStarts /\ pc' = "exited" /\ ~FlagsAccepted /\ ~OpenSucceeds
      BY <2>5, Zenon DEF LifecycleNext, MainStep, NoMapping, Leaves, Exits, ServerStarts, FlagsAccepted, OpenSucceeds
    <3> QED BY <2>0, <2>5, <3>1, AroundStarted, Zenon
  <2>6. CASE /\ OpenFails \/ AnnouncerStarts \/ AnnouncerFails \/ SelectStop \/ SelectAnnouncer \/ Closed \/ DeleteMapping
             /\ UNCHANGED startVars
    <3>1. LifecycleNext
      BY <2>6, Zenon DEF LifecycleNext, MainStep
    <3>2. ~ServerStarts /\ ~FlagsAccepted /\ ~OpenSucceeds /\ pc' # "exited"
      BY <2>6, Zenon DEF OpenFails, AnnouncerStarts, AnnouncerFails, SelectStop, SelectAnnouncer, Closed, DeleteMapping,
         ServerStarts, Serves, FlagsAccepted, OpenSucceeds, process
    <3> QED BY <2>0, <2>6, <3>1, <3>2, AroundStarted, Zenon
  <2> QED BY <1>1, <2>1, <2>2, <2>3, <2>4, <2>5, <2>6, Zenon DEF MainRuns
<1>2. CASE CloseRuns
  <2>1. /\ LifecycleNext /\ ClosesAll /\ ~ServerStarts /\ ~FlagsAccepted /\ ~OpenSucceeds
        /\ server' = "down" /\ pc' = pc /\ UNCHANGED <<chosen, lives>>
    BY <1>2, Zenon DEF CloseRuns, LifecycleNext, ServerCloses, ServerStarts, FlagsAccepted, OpenSucceeds
  <2>2. pc # "starting"
    BY <1>2, Zenon DEF CloseRuns, ServerCloses, DeploymentInv, LifeInv, Progress, Early
  <2> QED BY <2>1, <2>2, AroundStarted, Zenon
<1>3. CASE ProcessKilled
  <2>1. LifecycleNext /\ Dies /\ pc' = "exited" /\ UNCHANGED <<chosen, lives>>
    BY <1>3, Zenon DEF ProcessKilled, LifecycleNext, Killed, Exits
  <2>2. ~ServerStarts /\ ~FlagsAccepted /\ ~OpenSucceeds
    BY <2>1, Zenon DEF ServerStarts, Serves, FlagsAccepted, OpenSucceeds
  <2> QED BY <2>1, <2>2, AroundStarted, Zenon
<1>4. CASE Around(MaintainStep) \/ Around(RouterStep) \/ Around(AnnouncerEnds) \/ Around(SignalArrives) \/ Around(HourPasses)
  <2>1. LifecycleNext /\ UNCHANGED startVars /\ UNCHANGED <<chosen, lives>>
    BY <1>4, Zenon DEF Around, LifecycleNext
  <2>2. pc' = pc
    BY <1>4, Zenon DEF Around, MaintainStep, Refreshes, Refreshed, RefreshFails, MaintainStops, RouterStep, StrayArrives,
       RouterReboots, RouterAnswers, AnnouncerEnds, SignalArrives, HourPasses, process
  <2>3. ~ServerStarts /\ ~FlagsAccepted /\ ~OpenSucceeds
    BY <2>2, Zenon DEF ServerStarts, Serves, FlagsAccepted, OpenSucceeds
  <2> QED BY <2>1, <2>2, <2>3, AroundStarted, Zenon
<1>5. CASE UNCHANGED deploymentVars
  <2>1. UNCHANGED <<conf, pc, owned, server, announcer, start, step, disk, due, pairs, pair, held, path, chosen, lives>>
    BY <1>5, Zenon DEF deploymentVars, lifeVars, process, startVars
  <2>2. Configured'
    BY <2>1, Zenon DEF StartedInv, Configured
  <2>3. Advertised' = Advertised
    BY <2>1, Zenon DEF Advertised
  <2>4. Passed'
    BY <2>1, <2>3, Zenon DEF StartedInv, Passed, Acceptable, FitsAnnouncement
  <2>5. Holding'
    BY <2>1, Zenon DEF StartedInv, Holding
  <2> QED BY <2>2, <2>4, <2>5, Zenon DEF StartedInv
<1> QED BY <1>1, <1>2, <1>3, <1>4, <1>5, RestartStarted, Zenon DEF DeploymentNext

\* A new installation, or one with an identity.
LEMMA StartedInvInit == ASSUME DeploymentInit PROVE StartedInv
<1> USE DEF DeploymentInit, ProcessInit, LifecycleBegins
<1>1. Configured
  <2>1. lives \in 1 .. MaxLives
    BY DeploymentAssumption
  <2> QED BY <2>1, Zenon DEF Configured
<1>2. Passed
  BY Zenon DEF Passed
<1>3. Holding
  <2>1. pairs \in 0 .. MaxPairs /\ due \in BOOLEAN /\ path \in {"nothing", "file"}
    <3>1. pairs = 0 \/ pairs = 1
      BY Zenon DEF DiskInit
    <3>2. pairs \in 0 .. MaxPairs
      BY <3>1, StartAssumption
    <3> QED BY <3>2, Zenon DEF DiskInit
  <2>2. pair.number \in 0 .. pairs
    BY <2>1, StartAssumption DEF NoPair
  <2>3. disk.cert \in {Missing, Torn} \/ disk.cert.pair.number \in 1 .. pairs
    <3>1. CASE disk = [cert |-> Missing, key |-> Missing]
      BY <3>1, Zenon
    <3>2. CASE pairs = 1 /\ disk = [cert |-> Whole([number |-> 1, name |-> "relay"]), key |-> Whole([number |-> 1, name |-> "relay"])]
      <4>1. disk.cert.pair.number = 1
        <5>1. disk.cert = Whole([number |-> 1, name |-> "relay"])
          BY <3>2, Zenon
        <5>2. disk.cert.pair = [number |-> 1, name |-> "relay"]
          BY <5>1, FileStates, Zenon
        <5> QED BY <5>2
      <4>2. 1 \in 1 .. 1
        OBVIOUS
      <4> QED BY <3>2, <4>1, <4>2, Zenon
    <3> QED BY <3>1, <3>2, Zenon DEF DiskInit
  <2> QED BY <2>1, <2>2, <2>3, Zenon DEF Holding, HeldAt, Paths, Steps
<1> QED BY <1>1, <1>2, <1>3, Zenon DEF StartedInv

\* StartedInv holds in every state, over every number of lives.
THEOREM StartedInvariant == DeploymentSafety => []StartedInv
<1>1. DeploymentInit => StartedInv
  BY StartedInvInit, Zenon
<1>2. DeploymentInv /\ StartedInv /\ [DeploymentNext]_deploymentVars => StartedInv'
  BY StartedInvStep, Zenon
<1> QED BY <1>1, <1>2, DeploymentInvariant, PTL DEF DeploymentSafety

\* A Start that fails, at whichever step, has closed the database and the ticket socket it
\* had opened: newTicketAuthority and serve close what they opened themselves, and the
\* deferred function the rest (Start, newTicketAuthority, serve).
THEOREM FailedStartsHoldNothing == DeploymentSafety => []FailedStartHoldsNothing
<1>1. StartedInv => FailedStartHoldsNothing
  BY Zenon DEF StartedInv, Holding, HeldAt, Unopened, FailedStartHoldsNothing
<1> QED BY <1>1, StartedInvariant, PTL

\* What Start was given, once it has begun.
LEMMA StartFields ==
  ASSUME StartedInv, step = "started"
  PROVE  /\ chosen \in Deployments /\ Loads(chosen.file) /\ start.address \in Addresses
         /\ start.access = LoadAccessConfig(chosen.file)
<1> DEFINE r(u) == [name |-> chosen.name, listen |-> chosen.listen, address |-> u,
                    local |-> chosen.local, access |-> LoadAccessConfig(chosen.file)]
<1>1. /\ chosen \in Deployments /\ Loads(chosen.file) /\ start.address \in Addresses
      /\ start = r(start.address)
  BY Zenon DEF StartedInv, Configured
<1>2. ASSUME NEW u PROVE r(u).access = LoadAccessConfig(chosen.file)
  BY Zenon
<1> HIDE DEF r
<1> QED BY <1>1, <1>2, Zenon
================================================================================
