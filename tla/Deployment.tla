------------------------------ MODULE Deployment -------------------------------
(***************************************************************************)
(* A deployed relay over several lives of its process: Lifecycle (main and   *)
(* the port mapping) composed with ServerStart (relay.Start and the state    *)
(* directory).  The state directory and the routers outlive a process; the   *)
(* flags and the access file may change between two.                        *)
(*                                                                         *)
(* The announcer of a life that was killed is not followed into the next.   *)
(***************************************************************************)
EXTENDS Lifecycle, ServerStart

CONSTANTS
  Deployments, \* [file, name, listen, targets, public, upnp, discovery, rns, script, local]
  ExternalIP,  \* the address each router reports
  MaxLives     \* bound: processes, one after the other

ASSUME DeploymentAssumption ==
  /\ ExternalIP \in [Routers -> Addresses] /\ MaxLives \in Nat \ {0}
  /\ \A d \in Deployments :
       /\ d.upnp \in BOOLEAN /\ d.discovery \in BOOLEAN /\ d.public \in Addresses
       /\ d.file.form = "object" =>
            d.file.groups \in Seq(Int) /\ \A i \in DOMAIN d.file.groups : d.file.groups[i] <= MaxInt32

VARIABLES
  chosen,  \* the flags and the access file of this life
  lives

deploymentVars == <<lifeVars, startVars, chosen, lives>>

NoAddress == V6("unspecified", FALSE)
NoStart == [name |-> [text |-> "none", length |-> 0, literal |-> FALSE]]

DeploymentTypeOK ==
  /\ LifecycleTypeOK /\ StartTypeOK
  /\ chosen \in Deployments /\ lives \in 1 .. MaxLives
  /\ server = "up" /\ pc # "exited" => step = "started" /\ "udp" \in held

\* public and upnp decide whether there is a mapping.
Conf(d) == [upnp |-> d.public = NoAddress /\ d.upnp, discovery |-> d.discovery]

DeploymentInit ==
  /\ chosen \in Deployments /\ lives = 1
  /\ conf = Conf(chosen) /\ LifecycleBegins
  /\ stray = {} /\ lease = [r \in Routers |-> 0] /\ rebooted = {}
  /\ start = NoStart /\ ProcessInit /\ DiskInit("relay")

\* A new process, once what the last one asked of a router is done.
Restart ==
  /\ lives < MaxLives /\ stray = {} /\ BeginsAgain
  /\ lives' = lives + 1
  /\ chosen' \in Deployments /\ conf' = Conf(chosen')
  /\ start' = NoStart /\ step' = "checks" /\ pair' = NoPair
  /\ due' \in (IF disk.cert \in {Missing, Torn} THEN {due} ELSE {due, TRUE})
  /\ UNCHANGED <<disk, pairs, held, path>>

--------------------------------------------------------------------------------
(* main, from the flags to Start. *)

\* main's checks up to Open: the access file, the endpoints, and for discovery a Reticulum
\* configuration and a script, given or found by resolveDiscoveryScript.
FlagsGood(d) ==
  /\ Loads(d.file) /\ d.listen /\ d.targets
  /\ d.discovery => d.rns /\ d.script
  /\ d.public # NoAddress \/ d.upnp

ReadsFlags ==
  \/ /\ FlagsGood(chosen) /\ FlagsAccepted
     /\ start' = [name |-> chosen.name, listen |-> chosen.listen, address |-> chosen.public,
                  local |-> chosen.local, access |-> LoadAccessConfig(chosen.file)]
     /\ UNCHANGED <<step, files, pair, held, path>>
  \/ ~FlagsGood(chosen) /\ FlagsRefused /\ Dies

\* openWithClient asks for a mapping only where the router reports a public address.
Opens ==
  /\ OpenTries
  /\ call' # call => isPublicInternetAddress(ExternalIP[Clients[try]])
  /\ UNCHANGED startVars

Opened ==
  /\ OpenSucceeds
  /\ start' = [start EXCEPT !.address = Unmap(ExternalIP[Clients[try]])]
  /\ UNCHANGED <<step, files, pair, held, path>>

Starts ==
  \/ pc = "starting" /\ StartStep /\ UNCHANGED lifeVars
  \/ step = "started" /\ ServerStarts /\ UNCHANGED startVars
  \/ step = "failed" /\ ServerFails /\ UNCHANGED startVars

MainRuns ==
  /\ \/ ReadsFlags \/ Opens \/ Opened \/ Starts
     \/ (NoMapping \/ Leaves) /\ Dies
     \/ /\ OpenFails \/ AnnouncerStarts \/ AnnouncerFails \/ SelectStop \/ SelectAnnouncer
           \/ Closed \/ DeleteMapping
        /\ UNCHANGED startVars
  /\ UNCHANGED <<chosen, lives>>

CloseRuns == ServerCloses /\ ClosesAll /\ UNCHANGED <<chosen, lives>>
ProcessKilled == Killed /\ Dies /\ UNCHANGED <<chosen, lives>>

\* What leaves the server alone.
Around(A) == A /\ UNCHANGED <<startVars, chosen, lives>>

DeploymentNext ==
  \/ Restart \/ MainRuns \/ CloseRuns \/ ProcessKilled
  \/ Around(MaintainStep) \/ Around(RouterStep) \/ Around(AnnouncerEnds)
  \/ Around(SignalArrives) \/ Around(HourPasses)

\* As in Lifecycle; nobody need start the relay again.
DeploymentFairness ==
  /\ WF_deploymentVars(MainRuns) /\ WF_deploymentVars(Around(MaintainStep))
  /\ WF_deploymentVars(CloseRuns) /\ WF_deploymentVars(Around(StrayArrives))
  /\ WF_deploymentVars(Around(HourPasses))

DeploymentSafety == DeploymentInit /\ [][DeploymentNext]_deploymentVars
DeploymentSpec == DeploymentSafety /\ DeploymentFairness

--------------------------------------------------------------------------------
(* Properties. *)

\* A relay that serves has started in full.  It admits the members of exactly the groups
\* its access file names, and is open to everyone only without a file or with one that says so: a file that is malformed, empty
\* or contradictory stops the relay (LoadAccessConfig, newAccessPolicy, Start).
AccessAsWritten ==
  /\ DeploymentTypeOK
  /\ server = "up" =>
       LET policy == Policy(start.access)
       IN IF policy.mode = "public"
          THEN chosen.file = NoFile \/ (chosen.file.mode = "public" /\ chosen.file.groups = <<>>)
          ELSE chosen.file.mode = "groups" /\ Range(policy.groups) = Range(chosen.file.groups)

\* A relay that serves is advertised at an address outside the registry's special-purpose
\* blocks, or on loopback by a flag, whether the address was given or a router reported it:
\* UPnP's test lets blocks pass that Start must stop.  Of IPv6 this says only that it is in
\* none of the blocks the code names; with a zone, `::` and the documentation block pass.
\* And on all kinds of IPv4 address the relay's tests are those of AddressesJudged (Start,
\* publiclyRoutable, openWithClient).
AdvertisedIsPublic ==
  /\ EdgesJudged
  /\ server = "up" =>
       LET a == Unmap(start.address)
       IN \/ start.local /\ Is(a, "loopback")
          \/ a.family = 4 /\ ~SpecialPurpose(NetOf(a.octets))
          \/ /\ a.family = 6 /\ a.kind \notin {"loopback", "multicast", "link-local", "private"}
             /\ a.kind \in {"unspecified", "documentation"} => a.zone
================================================================================
