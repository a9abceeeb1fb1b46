---------------------------- MODULE DatagramFifo ------------------------------
(***************************************************************************)
(* What a receive queue of datagrams promises (third_party/quic-go,         *)
(* QORTAL_PATCH.md: "Overflow drops incoming datagrams, preserving accepted *)
(* FIFO order. Expiry drops stale head entries"; "no stale packet is handed *)
(* onward").  DatagramBuffer implements it.                                 *)
(***************************************************************************)
EXTENDS Integers, Sequences

CONSTANTS
  Queues,
  Datagrams,
  BurstAge,   \* how long an entry of a queue in burst mode stays fresh
  MaxTime     \* bound: the clock stops here

VARIABLES
  now,
  contents,   \* the accepted entries of each queue, oldest first
  burst,      \* the queues in burst mode
  open,       \* the queues not closed
  asked,      \* the clock as the receiver's call read it; {} when there is no call
  handed      \* what the receiver was last given; "none", "waiting" or "ended"

fifoVars == <<now, contents, burst, open, asked, handed>>

Entries == [data: Datagrams, at: 0 .. MaxTime]

Stale(q, e, time) == q \in burst /\ time - e.at > BurstAge

FifoInit ==
  /\ now = 0
  /\ contents = [q \in Queues |-> <<>>]
  /\ burst = {} /\ open = Queues
  /\ asked = [q \in Queues |-> {}]
  /\ handed = [q \in Queues |-> "none"]

\* The entry carries the time of the call that brought it.
Accepts(q, e) ==
  /\ q \in open /\ e.at <= now
  /\ contents' = [contents EXCEPT ![q] = Append(@, e)]
  /\ UNCHANGED <<now, burst, open, asked, handed>>

\* A stale head is dropped, whatever becomes of the call that found it.
DropsStale(q) ==
  /\ contents[q] # <<>> /\ Stale(q, Head(contents[q]), now)
  /\ contents' = [contents EXCEPT ![q] = Tail(@)]
  /\ UNCHANGED <<now, burst, open, asked, handed>>

Asks(q) ==
  /\ asked[q] = {} /\ handed[q] \notin {"waiting", "ended"}
  /\ asked' = [asked EXCEPT ![q] = {now}]
  /\ UNCHANGED <<now, contents, burst, open, handed>>

\* The receiver gets the oldest entry, which was not stale when it asked.
Hands(q) ==
  /\ contents[q] # <<>>
  /\ \E time \in asked[q] : ~Stale(q, Head(contents[q]), time)
  /\ handed' = [handed EXCEPT ![q] = Head(contents[q]).data]
  /\ contents' = [contents EXCEPT ![q] = Tail(@)]
  /\ asked' = [asked EXCEPT ![q] = {}]
  /\ UNCHANGED <<now, burst, open>>

\* The receiver finds nothing: it waits, or ends with the queue.
HandsNothing(q) ==
  /\ asked[q] # {} /\ contents[q] = <<>>
  /\ handed' = [handed EXCEPT ![q] = IF q \in open THEN "waiting" ELSE "ended"]
  /\ asked' = [asked EXCEPT ![q] = {}]
  /\ UNCHANGED <<now, contents, burst, open>>

AsksAgain(q) ==
  /\ handed[q] = "waiting"
  /\ handed' = [handed EXCEPT ![q] = "none"]
  /\ UNCHANGED <<now, contents, burst, open, asked>>

EntersBurst(q) ==
  /\ burst' = burst \union {q}
  /\ UNCHANGED <<now, contents, open, asked, handed>>

Shuts(q) ==
  /\ open' = open \ {q}
  /\ contents' = [contents EXCEPT ![q] = <<>>]
  /\ UNCHANGED <<now, burst, asked, handed>>

Ages == now' = now + 1 /\ UNCHANGED <<contents, burst, open, asked, handed>>

FifoNext ==
  \/ Ages
  \/ \E q \in Queues :
       \/ \E e \in Entries : Accepts(q, e)
       \/ DropsStale(q) \/ Asks(q) \/ Hands(q) \/ HandsNothing(q) \/ AsksAgain(q)
       \/ EntersBurst(q) \/ Shuts(q)

FifoSpec == FifoInit /\ [][FifoNext]_fifoVars
================================================================================
