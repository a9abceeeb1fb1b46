------------------------------ MODULE ServerStart ------------------------------
(***************************************************************************)
(* The start of a relay (internal/relay/server.go, Start): its checks, the  *)
(* TLS identity in the state directory, the access policy, the ticket       *)
(* authority's database and socket, and the UDP socket, with the failure    *)
(* and the death of the process at every step.                              *)
(*                                                                         *)
(* A server name is [text, length, literal]; a core URL is its kind; a pair  *)
(* of certificate and key is [number, name].  What another process might do  *)
(* in the state directory is left out, but for a regular file that stands    *)
(* where the ticket socket belongs.  The certificate becomes due between two *)
(* processes, not while one runs.                                           *)
(***************************************************************************)
EXTENDS Integers, Sequences, FiniteSets, Functions, TargetPolicy

CONSTANT MaxPairs   \* bound: the pairs of certificate and key ever generated

ASSUME StartAssumption == MaxPairs \in Nat \ {0}

VARIABLES
  start,   \* Config: [name, listen, address, local, access]
  step,    \* where Start is
  disk,    \* relay-cert.pem and relay-key.pem
  due,     \* the certificate on disk ends within a day
  pairs,   \* how many pairs were generated
  pair,    \* the certificate this process generated or loaded
  held,    \* what this process keeps open
  path     \* what is at ticket-authority.sock: a socket is live while its process listens

startVars == <<start, step, disk, due, pairs, pair, held, path>>
files == <<disk, due, pairs>>

Missing == [state |-> "missing"]
Torn == [state |-> "torn"]
Whole(p) == [state |-> "whole", pair |-> p]
NoPair == [number |-> 0, name |-> "none"]

--------------------------------------------------------------------------------
(* AccessConfig: [mode, groups, cores]; its file also has a form. *)

MaxInt32 == 2147483647
GoodCores == {"https", "http loopback"}

ValidAccess(c) ==
  /\ c.mode \in {"public", "groups"}
  /\ c.mode = "public" => c.groups = <<>>
  /\ \A i \in DOMAIN c.groups : c.groups[i] > 0
  /\ Cardinality(Range(c.groups)) = Len(c.groups) /\ Len(c.groups) <= 16
  /\ Len(c.cores) <= 8 /\ Range(c.cores) \subseteq GoodCores
  /\ c.mode = "groups" => c.groups # <<>> /\ c.cores # <<>>

NoFile == [form |-> "none"]
NoAccess == [mode |-> "public", groups |-> <<>>, cores |-> <<>>]

\* Mutant: a file that can be read is not validated, and one of no known mode is public.
LoadsUnvalidated(file) == file.form \in {"none", "object"}

\* main and LoadAccessConfig: no file, or one object without duplicate or unknown keys,
\* trailing data or excess length, whose values are valid.
Loads(file) == file = NoFile \/ (file.form = "object" /\ ValidAccess(file))

\* validate's sort.Slice, on groups that differ.
Sorted(groups) ==
  CHOOSE s \in [1 .. Len(groups) -> Range(groups)] :
    Range(s) = Range(groups) /\ \A i, j \in DOMAIN s : i < j => s[i] < s[j]

LoadAccessConfig(file) ==
  IF file = NoFile THEN NoAccess
  ELSE [mode |-> file.mode, groups |-> Sorted(file.groups), cores |-> file.cores]

\* newAccessPolicy: a missing mode is public, and the rest is validated again.
Policy(c) == [c EXCEPT !.mode = IF c.mode = "" THEN "public" ELSE c.mode]

--------------------------------------------------------------------------------
(* State.  A process begins at "checks"; Start has returned at "started" and "failed". *)

Steps == {"checks", "loading", "creating", "cert", "key", "policy", "database", "buckets",
          "socket", "chmod", "capacity", "listening", "started", "failed"}
Tickets == {"database", "socket"}
Resources == Tickets \union {"udp"}

StartTypeOK ==
  /\ step \in Steps /\ due \in BOOLEAN /\ pairs \in 0 .. MaxPairs
  /\ disk.cert \in {Missing, Torn} \/ disk.cert.pair.number \in 1 .. pairs
  /\ disk.key \in {Missing, Torn} \/ disk.key.pair.number \in 1 .. pairs
  /\ pair.number \in 0 .. pairs /\ (step = "started" => pair # NoPair)
  /\ held \subseteq Resources /\ ("socket" \in held => "database" \in held)
  /\ path \in {"nothing", "file", "stale", "live"} /\ ("socket" \in held <=> path = "live")

\* A new installation, or one with an identity; the files of the state directory.
DiskInit(name) ==
  /\ \/ pairs = 0 /\ disk = [cert |-> Missing, key |-> Missing] /\ due = FALSE
     \/ LET p == [number |-> 1, name |-> name]
        IN pairs = 1 /\ disk = [cert |-> Whole(p), key |-> Whole(p)] /\ due \in BOOLEAN
  /\ path \in {"nothing", "file"}

ProcessInit == step = "checks" /\ pair = NoPair /\ held = {}

--------------------------------------------------------------------------------
(* Paths out. *)

\* Of what it has open the process keeps `kept`.  Go removes a Unix socket's file when its
\* listener is closed.
Keeps(kept) ==
  /\ held' = kept
  /\ path' = IF "socket" \in held \ kept THEN "nothing" ELSE path

\* Mutant: tickets.close is deferred after serve instead of before.
DeferredLate(kept) == IF step \in {"capacity", "listening"} THEN kept \ Tickets ELSE kept

\* What Start's deferred function leaves open: tickets.close, from serve on, unless `started`.
Deferred(kept) ==
  IF step \in {"socket", "chmod", "capacity", "listening"} THEN kept \ Tickets ELSE kept

\* Start returns an error; what it called has closed all but `kept`.
FailsKeeping(kept) ==
  /\ step' = "failed" /\ Keeps(Deferred(kept))
  /\ UNCHANGED <<start, files, pair>>

StartFails == FailsKeeping(held)

\* Server.Close: the tickets and the UDP socket.
ClosesAll == Keeps({}) /\ UNCHANGED <<start, step, files, pair>>

\* The process ends: the files stay as they are, the socket's file included.
Dies ==
  /\ held' = {} /\ path' = IF path = "live" THEN "stale" ELSE path
  /\ UNCHANGED <<start, step, files, pair>>

Proceeds(next) == step' = next /\ UNCHANGED <<start, held, path>>

--------------------------------------------------------------------------------
(* Start's steps. *)

ChecksAddresses ==
  /\ step = "checks"
  /\ IF /\ start.name.length \in 1 .. 128 /\ start.listen
        /\ \/ publiclyRoutable(start.address)
           \/ start.local /\ Is(start.address, "loopback")
     THEN Proceeds("loading") /\ UNCHANGED <<files, pair>>
     ELSE StartFails

\* tls.LoadX509KeyPair reads the certificate, then the key, then compares them.
Absent == disk.cert = Missing \/ disk.key = Missing
Loadable == ~Absent /\ disk.cert = disk.key /\ disk.cert # Torn

\* Mutant: the certificate is used for as long as it is for the right name.
UsableOld(p) == p.name = start.name.text

\* Mutant: the comparison of times is the wrong way round.
UsableWhenDue(p) == due /\ p.name = start.name.text /\ ~start.name.literal

\* x509 VerifyHostname looks up a name that is an IP address among the certificate's
\* addresses, of which createCertificate writes none.
Usable(p) == ~due /\ p.name = start.name.text /\ ~start.name.literal

LoadsCertificate ==
  /\ step = "loading"
  /\ IF Loadable /\ Usable(disk.cert.pair)
     THEN pair' = disk.cert.pair /\ Proceeds("policy") /\ UNCHANGED files
     ELSE IF Absent \/ Loadable
     THEN Proceeds("creating") /\ UNCHANGED <<files, pair>>
     ELSE StartFails

\* createCertificate, to the truncation of the first file by os.WriteFile.
Generates ==
  /\ step = "creating" /\ pairs < MaxPairs
  /\ \/ /\ pairs' = pairs + 1
        /\ pair' = [number |-> pairs + 1, name |-> start.name.text]
        /\ disk' = [disk EXCEPT !.cert = Torn]
        /\ Proceeds("cert") /\ UNCHANGED due
     \/ StartFails

\* The rest of the write; and of the write of the key, from its truncation.
WritesCert ==
  /\ step = "cert"
  /\ \/ /\ disk' = [cert |-> Whole(pair), key |-> disk.key]
        /\ due' = FALSE
        /\ Proceeds("key") /\ UNCHANGED <<pairs, pair>>
     \/ StartFails

TruncatesKey ==
  /\ step = "key" /\ disk.key # Torn
  /\ \/ disk' = [disk EXCEPT !.key = Torn] /\ UNCHANGED <<start, step, due, pairs, pair, held, path>>
     \/ StartFails

WritesKey ==
  /\ step = "key" /\ disk.key = Torn
  /\ \/ disk' = [disk EXCEPT !.key = Whole(pair)] /\ Proceeds("policy") /\ UNCHANGED <<due, pairs, pair>>
     \/ StartFails

ChecksPolicy ==
  /\ step = "policy"
  /\ LET policy == Policy(start.access)
     IN IF ValidAccess(policy)
        THEN Proceeds(IF policy.mode = "groups" THEN "database" ELSE "capacity") /\ UNCHANGED <<files, pair>>
        ELSE StartFails

\* newTicketAuthority: the database is opened; then its buckets and the hour's key are made,
\* or it is closed again.
OpensDatabase ==
  /\ step = "database"
  /\ \/ step' = "buckets" /\ held' = held \union {"database"} /\ UNCHANGED <<start, files, pair, path>>
     \/ StartFails

PreparesDatabase ==
  /\ step = "buckets"
  /\ \/ Proceeds("socket") /\ UNCHANGED <<files, pair>>
     \/ FailsKeeping(held \ {"database"})

\* serve: "Remove only a stale Unix socket, never a regular file or a live listener."  After
\* the removal it may fail to listen.
ServesTickets ==
  /\ step = "socket"
  /\ \/ /\ path \in {"nothing", "stale"}
        /\ step' = "chmod" /\ held' = held \union {"socket"} /\ path' = "live"
        /\ UNCHANGED <<start, files, pair>>
     \/ /\ path = "stale"
        /\ step' = "failed" /\ held' = Deferred(held) /\ path' = "nothing"
        /\ UNCHANGED <<start, files, pair>>
     \/ StartFails

\* The rest of serve, which closes the listener itself if the mode cannot be set.
RestrictsSocket ==
  /\ step = "chmod"
  /\ \/ Proceeds("capacity") /\ UNCHANGED <<files, pair>>
     \/ FailsKeeping(held \ {"socket"})

MaxPayload == 316

\* Start's loop over one group: a byte, and one more for every seven bits above the first;
\* and over all of them.
GroupBytes[id \in Nat] == IF id < 128 THEN 1 ELSE 1 + GroupBytes[id \div 128]
AllGroupBytes(groups) ==
  LET bytes[n \in 0 .. Len(groups)] == IF n = 0 THEN 0 ELSE bytes[n - 1] + GroupBytes[groups[n]]
  IN bytes[Len(groups)]

\* The relay [name: its length, v6, groups] can be advertised.
FitsAnnouncement(r) ==
  LET tail == IF r.groups # <<>> THEN 160 ELSE 96
      header == IF r.groups # <<>> THEN 3 ELSE 4
  IN header + (IF r.v6 THEN 16 ELSE 4) + 6 + 32 + r.name + AllGroupBytes(r.groups) + tail <= MaxPayload

\* Mutant: the ticket key is not counted.
AdvertisedWithoutKey == [name |-> start.name.length - 64, v6 |-> ~Is4(start.address),
                         groups |-> start.access.groups]

\* ::ffff:a.b.c.d takes the sixteen bytes of an IPv6 address.
Advertised == [name |-> start.name.length, v6 |-> ~Is4(start.address), groups |-> start.access.groups]

ChecksCapacity ==
  /\ step = "capacity"
  /\ IF FitsAnnouncement(Advertised) THEN Proceeds("listening") /\ UNCHANGED <<files, pair>> ELSE StartFails

\* net.ListenUDP; the rest of Start cannot fail.
Listens ==
  /\ step = "listening"
  /\ \/ step' = "started" /\ held' = held \union {"udp"} /\ UNCHANGED <<start, files, pair, path>>
     \/ StartFails

StartStep ==
  \/ ChecksAddresses \/ LoadsCertificate \/ Generates \/ WritesCert \/ TruncatesKey \/ WritesKey
  \/ ChecksPolicy \/ OpensDatabase \/ PreparesDatabase \/ ServesTickets \/ RestrictsSocket
  \/ ChecksCapacity \/ Listens

--------------------------------------------------------------------------------
(* Properties. *)

\* A Start that returns an error has closed what it had opened, and the file of its ticket
\* socket is gone, although three functions share the closing: newTicketAuthority closes the
\* database, serve the listener, and Start's deferred function both.
FailedStartHoldsNothing == step = "failed" => held = {} /\ path # "live"

\* The identity a relay serves and announces is the one its state directory holds, complete,
\* for its name and good for another day when it starts: the next start finds what clients
\* have pinned (loadOrCreateCertificate, createCertificate).
IdentityOnDisk ==
  step = "started" =>
    /\ disk.cert = Whole(pair) /\ disk.key = Whole(pair)
    /\ pair.name = start.name.text
    /\ ~due

\* "Docker volumes preserve the TLS identity" (README.md): a start gives up a complete pair
\* only if its certificate is due, is for another name, or is for a name that is an IP
\* address and can never be verified (loadOrCreateCertificate).
IdentityKept ==
  [][Loadable /\ disk' # disk =>
       due \/ disk.cert.pair.name # start.name.text \/ start.name.literal]_startVars
================================================================================
