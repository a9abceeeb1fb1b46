------------------------------ MODULE MCDeployment -----------------------------
(* Deployment with two gateway clients and a handful of configurations. *)
EXTENDS Announcement

TwoClients == <<1, 2>>

\* The second router's address is public for UPnP, and not for Start.
MCExternalIP == <<V4(<<198, 20, 0, 1>>, TRUE), V4(<<198, 19, 0, 1>>, FALSE)>>

Relay == [text |-> "relay", length |-> 19, literal |-> FALSE]
Other == [text |-> "other", length |-> 128, literal |-> FALSE]
Literal == [text |-> "literal", length |-> 11, literal |-> TRUE]

File(mode, groups, cores) == [form |-> "object", mode |-> mode, groups |-> groups, cores |-> cores]
Groups == File("groups", <<300, 5>>, <<"https">>)
ManyGroups == File("groups", <<MaxInt32, MaxInt32 - 1, MaxInt32 - 2>>, <<"http loopback">>)

Given(file, name, public) ==
  [file |-> file, name |-> name, public |-> public, listen |-> TRUE, targets |-> TRUE,
   upnp |-> TRUE, discovery |-> FALSE, rns |-> FALSE, script |-> FALSE, local |-> FALSE]
Announced(d) == [d EXCEPT !.discovery = TRUE, !.rns = TRUE, !.script = TRUE]

Address == V4(<<198, 20, 0, 1>>, FALSE)
MappedAddress == V4(<<198, 20, 0, 1>>, TRUE)

MCDeployments ==
  { Announced(Given(Groups, Relay, NoAddress)),      \* members, behind a router
    Announced(Given(NoFile, Relay, NoAddress)),      \* everyone, behind a router
    Announced(Given(ManyGroups, Other, Address)),    \* too long to be announced
    Given(Groups, Other, V6("global", FALSE)),       \* renamed
    Given(NoFile, Relay, V6("documentation", TRUE)), \* a block that passes with a zone
    Given(NoFile, Literal, MappedAddress),           \* a name no certificate verifies
    [Given(NoFile, Relay, V6("loopback", FALSE)) EXCEPT !.local = TRUE],
    Given(File("", <<>>, <<>>), Relay, Address),     \* an empty object
    Given([form |-> "trailing data"], Relay, Address),
    [Announced(Given(NoFile, Relay, Address)) EXCEPT !.rns = FALSE],
    [Given(NoFile, Relay, Address) EXCEPT !.targets = FALSE] }
================================================================================
