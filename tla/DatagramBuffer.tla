--------------------------- MODULE DatagramBuffer -----------------------------
(***************************************************************************)
(* The receive queues of QUIC connections and HTTP/3 streams and their      *)
(* common budget (third_party/quic-go, internal/datagrambuffer/buffer.go;   *)
(* http3/state_tracking_stream.go, enqueueDatagram, ReceiveDatagram,        *)
(* closeReceive; datagram_queue.go's receiving half has the same shape).    *)
(*                                                                         *)
(* A queue is a ring that grows, behind the mutex of its owner; `used` is   *)
(* an atomic shared by all.  Push and Pop are split where they touch        *)
(* `used`; what one removal gives back is one step, and the counters of     *)
(* dropped datagrams are left out.                                          *)
(***************************************************************************)
EXTENDS Integers, Sequences, FiniteSetsExt

CONSTANTS
  Queues,        \* receive queues
  Admitted,      \* those that get the burst profile
  Datagrams,     \* payloads
  Size,          \* a payload's charge, packetOverhead included
  DefaultLimit,  \* packets a queue holds before burst mode (32 or 128)
  BurstPackets,  \* packets in burst mode (1024)
  BurstBytes,    \* bytes of one queue (1 MiB)
  BurstAge,      \* age of a stale entry in burst mode (50 ms)
  GlobalLimit,   \* bytes of all queues (32 MiB)
  SlotCharge,    \* charge of a slot of a ring (64)
  FirstRing,     \* slots of the first ring (8)
  KeptRing,      \* an empty ring of more slots is released (32)
  MaxTime        \* bound: the clock stops here

ASSUME BufferAssumption ==
  /\ Admitted \subseteq Queues /\ Datagrams \intersect {"none", "waiting", "ended"} = {}
  /\ Size \in [Datagrams -> Nat] /\ DefaultLimit \in [Queues -> Nat \ {0}]
  /\ \A n \in {BurstPackets, BurstBytes, BurstAge, GlobalLimit, SlotCharge, FirstRing,
               KeptRing, MaxTime} : n \in Nat
  /\ FirstRing > 0 /\ \A q \in Queues : DefaultLimit[q] <= BurstPackets

VARIABLES
  now,
  used,       \* the atomic counter
  queue,      \* the Queue of each
  call,       \* the call of Push or Pop that holds the queue's mutex
  hasData,    \* whether the channel hasData holds its one token
  receiver    \* the goroutine in ReceiveDatagram: the data it got last, or its state

bufferVars == <<now, used, queue, call, hasData, receiver>>

Free == [data |-> "free", at |-> 0]
Entries == [data: Datagrams, at: 0 .. MaxTime]
NoCall == [step |-> "idle"]
PushCalls == [step: {"push", "grow", "copy"}, data: Datagrams, at: 0 .. MaxTime]
PopCalls == [step: {"pop"}, at: 0 .. MaxTime]

\* New.
NewQueue(limit) ==
  [items |-> <<>>, head |-> 0, count |-> 0, bytes |-> 0, ringCharge |-> 0,
   limit |-> limit, burst |-> FALSE, closed |-> FALSE]

\* The i-th entry from the head, and all of them in order.
At(Q, i) == Q.items[((Q.head + i) % Len(Q.items)) + 1]
Contents(Q) == [i \in 1 .. Q.count |-> At(Q, i - 1)]

BufferTypeOK ==
  /\ now \in 0 .. MaxTime
  /\ used \in 0 .. GlobalLimit
  /\ \A q \in Queues :
       LET Q == queue[q]
       IN /\ Q.count \in 0 .. Len(Q.items) /\ Q.count <= Q.limit
          /\ Q.head \in 0 .. Max({0, Len(Q.items) - 1})
          /\ Q.bytes \in 0 .. BurstBytes
          /\ \A i \in 1 .. Q.count : Contents(Q)[i] \in Entries
          /\ call[q] \in {NoCall} \union PushCalls \union PopCalls
          /\ receiver[q] \in Datagrams \union {"none", "waiting", "ended"}
  /\ hasData \in [Queues -> BOOLEAN]

BufferInit ==
  /\ now = 0 /\ used = 0
  /\ queue = [q \in Queues |-> NewQueue(DefaultLimit[q])]
  /\ call = [q \in Queues |-> NoCall]
  /\ hasData = [q \in Queues |-> FALSE]
  /\ receiver = [q \in Queues |-> "none"]

--------------------------------------------------------------------------------
(* remove, with what it takes off `used`, and the condition of expire. *)

Shrinks(Q) == Q.count = 1 /\ Len(Q.items) > KeptRing
Freed(Q) == Size[At(Q, 0).data] + (IF Shrinks(Q) THEN Q.ringCharge ELSE 0)

Remove(Q) ==
  LET rest == [Q EXCEPT !.items[Q.head + 1] = Free, !.head = (@ + 1) % Len(Q.items),
                        !.count = @ - 1, !.bytes = @ - Size[At(Q, 0).data]]
  IN IF Shrinks(Q) THEN [rest EXCEPT !.items = <<>>, !.head = 0, !.ringCharge = 0] ELSE rest

\* Mutant: the oldest tick still counts as fresh.
StaleLate(Q, e, time) == Q.burst /\ time - e.at > BurstAge + 1

Stale(Q, e, time) == Q.burst /\ time - e.at > BurstAge

\* The loop of expire goes on: the oldest entry was stale when the call read the clock.
StaleHead(q) == queue[q].count > 0 /\ Stale(queue[q], At(queue[q], 0), call[q].at)

--------------------------------------------------------------------------------
(* Push and Pop, with the mutex held until they return. *)

Idle(q) == call[q] = NoCall
Sets(q, Q) == queue' = [queue EXCEPT ![q] = Q]
Calls(q, c) == call' = [call EXCEPT ![q] = c]
Returns(q) == Calls(q, NoCall)
Signals(q) == hasData' = [hasData EXCEPT ![q] = TRUE]

\* enqueueDatagram: a datagram arrives.
PushBegins(q, d) ==
  /\ Idle(q) /\ ~queue[q].closed
  /\ Calls(q, [step |-> "push", data |-> d, at |-> now])
  /\ UNCHANGED <<now, used, queue, hasData, receiver>>

\* ReceiveDatagram, from the start or after a token.
PopBegins(q) ==
  /\ Idle(q) /\ receiver[q] \in Datagrams \union {"none"}
  /\ Calls(q, [step |-> "pop", at |-> now])
  /\ UNCHANGED <<now, used, queue, hasData, receiver>>

\* expire, once around.
Expires(q) ==
  /\ call[q].step \in {"push", "pop"} /\ StaleHead(q)
  /\ Sets(q, Remove(queue[q])) /\ used' = used - Freed(queue[q])
  /\ UNCHANGED <<now, call, hasData, receiver>>

Entry(q) == [data |-> call[q].data, at |-> call[q].at]

\* The entry goes behind the last one.
Store(Q, e) ==
  [Q EXCEPT !.items[((Q.head + Q.count) % Len(Q.items)) + 1] = e,
            !.count = @ + 1, !.bytes = @ + Size[e.data]]

Full(Q, charge) == Q.count >= Q.limit \/ Q.bytes + charge > BurstBytes
Fits(charge) == used + charge <= GlobalLimit

\* The datagram is dropped at the queue's own limits, or because the budget is spent.
PushDrops(q) ==
  LET charge == Size[call[q].data]
  IN /\ call[q].step = "push" /\ ~StaleHead(q)
     /\ Full(queue[q], charge) \/ ~Fits(charge)
     /\ Returns(q)
     /\ UNCHANGED <<now, used, queue, hasData, receiver>>

\* reserve for the payload; a ring with room takes it.
PushReserves(q) ==
  LET charge == Size[call[q].data]
      Q == queue[q]
  IN /\ call[q].step = "push" /\ ~StaleHead(q)
     /\ ~Full(Q, charge) /\ Fits(charge)
     /\ used' = used + charge
     /\ IF Q.count = Len(Q.items)
        THEN Calls(q, [call[q] EXCEPT !.step = "grow"]) /\ UNCHANGED <<queue, hasData>>
        ELSE Sets(q, Store(Q, Entry(q))) /\ Returns(q) /\ Signals(q)
     /\ UNCHANGED <<now, receiver>>

NewRing(Q) == Min({Q.limit, Max({FirstRing, Len(Q.items) * 2})})

\* Mutant: the payload stays charged when the ring cannot grow.
GivesBackNothing(charge) == used

GivesBack(charge) == used - charge

\* reserve for the whole new ring, or the payload's charge is given back.
PushGrows(q) ==
  LET charge == NewRing(queue[q]) * SlotCharge
  IN /\ call[q].step = "grow"
     /\ IF Fits(charge)
        THEN used' = used + charge /\ Calls(q, [call[q] EXCEPT !.step = "copy"])
        ELSE used' = GivesBack(Size[call[q].data]) /\ Returns(q)
     /\ UNCHANGED <<now, queue, hasData, receiver>>

\* The entries are copied to the new ring.
Grown(Q) ==
  LET n == NewRing(Q)
  IN [Q EXCEPT !.items = [i \in 1 .. n |-> IF i <= Q.count THEN Contents(Q)[i] ELSE Free],
               !.head = 0, !.ringCharge = n * SlotCharge]

\* The old ring's charge is released, and the entry is stored.
PushCopies(q) ==
  /\ call[q].step = "copy"
  /\ used' = used - queue[q].ringCharge
  /\ Sets(q, Store(Grown(queue[q]), Entry(q)))
  /\ Returns(q) /\ Signals(q)
  /\ UNCHANGED <<now, receiver>>

\* Pop has an entry, and ReceiveDatagram returns it.
PopTakes(q) ==
  /\ call[q].step = "pop" /\ ~StaleHead(q) /\ queue[q].count > 0
  /\ Sets(q, Remove(queue[q])) /\ used' = used - Freed(queue[q])
  /\ receiver' = [receiver EXCEPT ![q] = At(queue[q], 0).data]
  /\ Returns(q)
  /\ UNCHANGED <<now, hasData>>

\* It has none: ReceiveDatagram returns the error of a closed stream, or waits.
PopFindsNone(q) ==
  /\ call[q].step = "pop" /\ queue[q].count = 0
  /\ receiver' = [receiver EXCEPT ![q] = IF queue[q].closed THEN "ended" ELSE "waiting"]
  /\ Returns(q)
  /\ UNCHANGED <<now, used, queue, hasData>>

--------------------------------------------------------------------------------
(* The rest of the stream. *)

\* The token arrives, and it starts again.
TakesToken(q) ==
  /\ receiver[q] = "waiting" /\ hasData[q]
  /\ hasData' = [hasData EXCEPT ![q] = FALSE]
  /\ receiver' = [receiver EXCEPT ![q] = "none"]
  /\ UNCHANGED <<now, used, queue, call>>

\* Its context ends, and ReceiveDatagram returns; a token stays for the next call.
ContextDone(q) ==
  /\ receiver[q] = "waiting"
  /\ receiver' = [receiver EXCEPT ![q] = "none"]
  /\ UNCHANGED <<now, used, queue, call, hasData>>

EnablesBurst(q) ==
  /\ q \in Admitted /\ Idle(q) /\ ~queue[q].burst
  /\ Sets(q, [queue[q] EXCEPT !.limit = BurstPackets, !.burst = TRUE])
  /\ UNCHANGED <<now, used, call, hasData, receiver>>

\* Mutant: Close does not wake the receiver.
ClosesSilently(q) == UNCHANGED hasData

ClosesLoudly(q) == Signals(q)

\* closeReceive, the first time: Close, and a signal.
CloseReceive(q) ==
  LET Q == queue[q]
  IN /\ Idle(q) /\ ~Q.closed
     /\ Sets(q, [NewQueue(Q.limit) EXCEPT !.burst = Q.burst, !.closed = TRUE])
     /\ used' = used - (Q.bytes + Q.ringCharge)
     /\ ClosesLoudly(q)
     /\ UNCHANGED <<now, call, receiver>>

Ticks ==
  /\ now < MaxTime
  /\ now' = now + 1
  /\ UNCHANGED <<used, queue, call, hasData, receiver>>

BufferNext ==
  \/ Ticks
  \/ \E q \in Queues :
       \/ \E d \in Datagrams : PushBegins(q, d)
       \/ PushDrops(q) \/ PushReserves(q) \/ PushGrows(q) \/ PushCopies(q)
       \/ PopBegins(q) \/ PopTakes(q) \/ PopFindsNone(q)
       \/ Expires(q) \/ TakesToken(q) \/ ContextDone(q) \/ EnablesBurst(q) \/ CloseReceive(q)

BufferSpec == BufferInit /\ [][BufferNext]_bufferVars

--------------------------------------------------------------------------------
(* Properties. *)

\* What a call of Push has reserved and not yet stored, and all that a queue is charged for.
InFlight(Q, c) ==
  CASE c.step = "grow" -> Size[c.data]
    [] c.step = "copy" -> Size[c.data] + NewRing(Q) * SlotCharge
    [] OTHER -> 0
Held(Q, c) == Q.bytes + Q.ringCharge + InFlight(Q, c)

\* One element for each byte that is charged for a queue.
Charged == UNION {{q} \X (1 .. Held(queue[q], call[q])) : q \in Queues}

\* Every queue keeps its limits, and the budget is exact: it is the payloads and the
\* rings of all queues, and what calls of Push are about to store, whatever was refused,
\* expired, grown, released or closed in between.  A charge that leaked would shrink every
\* queue of the process for good (Push, remove, Close).
BudgetExact ==
  /\ BufferTypeOK
  /\ IsFiniteSet(Charged) /\ used = Cardinality(Charged)

\* A waiting receiver is never left beside data or a closed queue without a token in its
\* channel of one (enqueueDatagram, closeReceive, ReceiveDatagram).
NoReceiverForgotten ==
  \A q \in Queues :
    receiver[q] = "waiting" /\ ~hasData[q] => queue[q].count = 0 /\ ~queue[q].closed

\* The ring, its growth and release, lazy expiry and Close keep the promise of the queue:
\* accepted datagrams come out in order, each at most once, and none that is stale
\* (Push, remove, expire, Pop, Close).
Fifo == INSTANCE DatagramFifo
          WITH contents <- [q \in Queues |-> Contents(queue[q])],
               burst <- {q \in Queues : queue[q].burst},
               open <- {q \in Queues : ~queue[q].closed},
               asked <- [q \in Queues |-> IF call[q].step = "pop" THEN {call[q].at} ELSE {}],
               handed <- receiver
ImplementsFifo == Fifo!FifoSpec

================================================================================
