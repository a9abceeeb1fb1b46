--------------------------- MODULE MembershipProofs ----------------------------
(***************************************************************************)
(* AnswersJustified and SlotsAccounted, for every number of callers,        *)
(* addresses, groups and Core endpoints.                                    *)
(***************************************************************************)
EXTENDS Membership, FiniteSetTheorems, TLAPS

\* What is known of a goroutine.  Only a lookup has any; once answered it has finished, so
\* that its answer is never replaced; the result it sends is what it was told; and a
\* leader that has met no error so far has collected only negatives.
GoroutineInv(l, g) ==
  /\ caller[l].pc \in {"idle", "call", "wait"} => worker[l][g].step = "none"
  /\ said[l][g] # "nothing" => worker[l][g].step \in {"done", "collected"}
  /\ worker[l][g].step = "done" /\ worker[l][g].result # "error" => said[l][g] = worker[l][g].result
  /\ caller[l].pc = "lead" /\ unresolved[l] = FALSE /\ worker[l][g].step = "collected"
       => said[l][g] = "nonmember"

LookupInv ==
  /\ MembershipShape
  /\ \A l \in Callers, g \in AllowedGroups : GoroutineInv(l, g)
  /\ AnswersJustified

\* Initially nobody has asked or been answered.
LEMMA LookupInvInit == MembershipInit => LookupInv
<1> SUFFICES ASSUME MembershipInit PROVE LookupInv
  BY Zenon
<1>1. MembershipShape
  BY Zenon DEF MembershipInit, MembershipShape, CallerStates, WorkerStates, NotStarted
<1>2. ASSUME NEW l \in Callers, NEW g \in AllowedGroups PROVE GoroutineInv(l, g)
  BY Zenon DEF MembershipInit, GoroutineInv, NotStarted
<1>3. AnswersJustified
  BY Zenon DEF MembershipInit, AnswersJustified
<1> QED BY <1>1, <1>2, <1>3, Zenon DEF LookupInv

\* A call that moves on without a result and without touching its goroutines (called,
\* waiting, looking again).
LEMMA CallerMoves ==
  ASSUME LookupInv, NEW l \in Callers, NEW state \in CallerStates,
         caller[l].pc \in {"idle", "call", "wait"}, Turns(l, state),
         state.pc \in {"call", "wait"},
         UNCHANGED <<pending, cache, unresolved, worker, said>>
  PROVE  LookupInv'
<1>1. MembershipShape'
  BY Zenon DEF LookupInv, MembershipShape, Turns
<1>2. ASSUME NEW m \in Callers, NEW g \in AllowedGroups PROVE GoroutineInv(m, g)'
  <2>1. GoroutineInv(m, g)
    BY Zenon DEF LookupInv
  <2>2. m # l => caller'[m] = caller[m]
    BY Zenon DEF LookupInv, MembershipShape, Turns
  <2>3. m = l => caller'[m] = state
    BY Zenon DEF LookupInv, MembershipShape, Turns
  <2> QED BY <2>1, <2>2, <2>3, Zenon DEF GoroutineInv
<1>3. AnswersJustified'
  BY Zenon  DEF LookupInv, MembershipShape, AnswersJustified, Justified, Turns
<1> QED BY <1>1, <1>2, <1>3, Zenon DEF LookupInv

\* A call that ends with a justified result, the goroutines unchanged.
LEMMA CallerEnds ==
  ASSUME LookupInv, NEW l \in Callers, NEW result \in Results, NEW from \in Callers,
         caller[l].addr \in Addresses,
         Ends(l, result, from), Justified(result, from),
         UNCHANGED <<pending, cache, unresolved, worker, said>>
  PROVE  LookupInv'
<1> DEFINE state == [pc |-> "end", addr |-> caller[l].addr, result |-> result, from |-> from]
<1>0. state \in CallerStates /\ caller' = [caller EXCEPT ![l] = state]
  BY Zenon DEF CallerStates, Ends, Turns
<1>1. MembershipShape'
  BY <1>0, Zenon DEF LookupInv, MembershipShape
<1>2. ASSUME NEW m \in Callers, NEW g \in AllowedGroups PROVE GoroutineInv(m, g)'
  <2>1. GoroutineInv(m, g)
    BY Zenon DEF LookupInv
  <2>2. m # l => caller'[m] = caller[m]
    BY <1>0, Zenon DEF LookupInv, MembershipShape
  <2>3. m = l => caller'[m].pc = "end"
    BY <1>0, Zenon DEF LookupInv, MembershipShape
  <2> QED BY <2>1, <2>2, <2>3, Zenon DEF GoroutineInv
<1>3. AnswersJustified'
  BY <1>0, Zenon DEF LookupInv, MembershipShape, AnswersJustified, Justified
<1> QED BY <1>1, <1>2, <1>3, Zenon DEF LookupInv

\* A goroutine's step that says nothing new: it moves to a state that is not "collected",
\* and its result, if it sends one, is an error.
LEMMA WorkerMoves ==
  ASSUME LookupInv, NEW l \in Callers, NEW g \in AllowedGroups, NEW state \in WorkerStates,
         worker[l][g].step \in {"queued", "want", "asking", "reading"},
         Becomes(l, g, state),
         state.step \in {"want", "asking", "reading"} \/ (state.step = "done" /\ state.result = "error"),
         UNCHANGED <<caller, pending, cache, unresolved, said>>
  PROVE  LookupInv'
<1>1. MembershipShape'
  BY Zenon DEF LookupInv, MembershipShape, Becomes
<1>2. ASSUME NEW m \in Callers, NEW h \in AllowedGroups PROVE GoroutineInv(m, h)'
  <2>1. CASE m = l /\ h = g
    <3>1. worker'[m][h] = state
      BY <2>1, Zenon DEF LookupInv, MembershipShape, Becomes
    <3>2. said[m][h] = "nothing"
      BY <2>1, Zenon DEF LookupInv, GoroutineInv
    <3>3. caller[m].pc \notin {"idle", "call", "wait"}
      BY <2>1, Zenon DEF LookupInv, GoroutineInv
    <3> QED BY <3>1, <3>2, <3>3, Zenon DEF GoroutineInv
  <2>2. CASE ~(m = l /\ h = g)
    <3>1. worker'[m][h] = worker[m][h]
      BY <2>2, Zenon DEF LookupInv, MembershipShape, Becomes
    <3>2. GoroutineInv(m, h)
      BY Zenon DEF LookupInv
    <3> QED BY <3>1, <3>2, Zenon DEF GoroutineInv
  <2> QED BY <2>1, <2>2, Zenon
<1>3. AnswersJustified'
  BY Zenon DEF LookupInv, AnswersJustified, Justified
<1> QED BY <1>1, <1>2, <1>3, Zenon DEF LookupInv

\* A valid answer of the Core is recorded once, so nothing justified before is lost.
LEMMA AnswersKeeps ==
  ASSUME LookupInv, NEW l \in Callers, NEW g \in AllowedGroups,
         NEW result \in {"member", "nonmember"}, Answers(l, g, result)
  PROVE  LookupInv'
<1> DEFINE state == [step |-> "done", result |-> result]
<1>0. /\ worker' = [worker EXCEPT ![l][g] = state] /\ state \in WorkerStates
      /\ said' = [said EXCEPT ![l][g] = result]
      /\ worker[l][g].step = "reading"
      /\ UNCHANGED <<caller, pending, cache, unresolved>>
  BY Zenon DEF Answers, Sends, Becomes, InStep, WorkerStates, Results
<1>a. said[l][g] = "nothing"
  BY <1>0, Zenon DEF LookupInv, GoroutineInv
<1>1. MembershipShape'
  BY <1>0, Zenon DEF LookupInv, MembershipShape
<1>b. caller[l].pc \notin {"idle", "call", "wait"}
  BY <1>0, Zenon DEF LookupInv, GoroutineInv
<1>2. ASSUME NEW m \in Callers, NEW h \in AllowedGroups PROVE GoroutineInv(m, h)'
  <2>1. CASE m = l /\ h = g
    <3>1. worker'[m][h] = state /\ said'[m][h] = result
      BY <1>0, <2>1, Zenon DEF LookupInv, MembershipShape
    <3>2. caller'[m].pc \notin {"idle", "call", "wait"}
      BY <1>0, <1>b, <2>1, Zenon
    <3>3. state.step = "done" /\ state.result = result
      BY Zenon
    <3> HIDE DEF state
    <3> QED BY <3>1, <3>2, <3>3, Zenon DEF GoroutineInv
  <2>2. CASE ~(m = l /\ h = g)
    <3>1. worker'[m][h] = worker[m][h] /\ said'[m][h] = said[m][h]
      BY <1>0, <2>2, Zenon DEF LookupInv, MembershipShape
    <3>2. GoroutineInv(m, h) /\ caller'[m] = caller[m] /\ unresolved'[m] = unresolved[m]
      BY <1>0, Zenon DEF LookupInv
    <3> QED BY <3>1, <3>2, Zenon DEF GoroutineInv
  <2> QED BY <2>1, <2>2, Zenon
<1>3. AnswersJustified'
  <2>1. ASSUME NEW r \in Results, NEW from \in Callers, Justified(r, from)
        PROVE  Justified(r, from)'
    BY <1>0, <1>a, <2>1, Zenon DEF LookupInv, MembershipShape, Justified
  <2> QED BY <1>0, <2>1, Zenon DEF LookupInv, MembershipShape, AnswersJustified, CallerStates
<1> QED BY <1>1, <1>2, <1>3, Zenon DEF LookupInv

\* One turn of membership's loop.
LEMMA LooksKeeps ==
  ASSUME LookupInv, NEW l \in Callers, Looks(l)
  PROVE  LookupInv'
<1> DEFINE a == caller[l].addr
<1>0. caller[l].pc = "call" /\ a \in Addresses /\ UNCHANGED <<cache, unresolved, said>>
  BY Zenon DEF Looks, LookupInv, MembershipShape, CallerStates
<1>1. CASE (\E c \in CacheFor(a) : Ends(l, c.result, c.from)) /\ UNCHANGED <<pending, worker>>
  <2>1. PICK c \in cache : Ends(l, c.result, c.from)
    BY <1>1, Zenon DEF CacheFor
  <2>2. c.result \in Results /\ c.from \in Callers /\ Justified(c.result, c.from)
    BY Zenon DEF LookupInv, MembershipShape, AnswersJustified
  <2> QED BY <1>0, <1>1, <2>1, <2>2, CallerEnds, Zenon
<1>2. CASE /\ \E m \in LeaderFor(a) : Turns(l, [pc |-> "wait", addr |-> a, on |-> m])
           /\ UNCHANGED <<pending, worker>>
  <2>1. PICK m \in LeaderFor(a) : Turns(l, [pc |-> "wait", addr |-> a, on |-> m])
    BY <1>2, Zenon
  <2>2. m \in Callers
    BY Zenon DEF LeaderFor, LookupInv, MembershipShape
  <2>3. [pc |-> "wait", addr |-> a, on |-> m] \in CallerStates
    BY <1>0, <2>2, Zenon DEF CallerStates
  <2> QED BY <1>0, <1>2, <2>1, <2>3, CallerMoves, Zenon
<1>3. CASE Ends(l, "error", l) /\ UNCHANGED <<pending, worker>>
  BY <1>0, <1>3, CallerEnds, Zenon DEF Results, Justified
<1>4. CASE /\ Turns(l, [pc |-> "lead", addr |-> a])
           /\ pending' = pending \union {l}
           /\ worker' = [worker EXCEPT ![l] = [g \in AllowedGroups |-> [step |-> "queued"]]]
  <2>0. [pc |-> "lead", addr |-> a] \in CallerStates /\ [step |-> "queued"] \in WorkerStates
    BY <1>0, Zenon DEF CallerStates, WorkerStates
  <2>1. MembershipShape'
    BY <1>0, <1>4, <2>0, Zenon DEF LookupInv, MembershipShape, Turns
  <2>2. ASSUME NEW m \in Callers, NEW g \in AllowedGroups PROVE GoroutineInv(m, g)'
    <3>1. CASE m = l
      <4>1. worker'[m][g] = [step |-> "queued"] /\ caller'[m].pc = "lead"
        BY <1>4, <3>1, Zenon DEF LookupInv, MembershipShape, Turns
      <4>2. said'[m][g] = "nothing"
        BY <1>0, <3>1, Zenon DEF LookupInv, GoroutineInv
      <4> QED BY <4>1, <4>2 DEF GoroutineInv
    <3>2. CASE m # l
      <4>1. worker'[m] = worker[m] /\ caller'[m] = caller[m]
        BY <1>4, <3>2, Zenon DEF LookupInv, MembershipShape, Turns
      <4>2. GoroutineInv(m, g) /\ said'[m] = said[m] /\ unresolved'[m] = unresolved[m]
        BY <1>0, Zenon DEF LookupInv
      <4> QED BY <4>1, <4>2, Zenon DEF GoroutineInv
    <3> QED BY <3>1, <3>2, Zenon
  <2>3. AnswersJustified'
    BY <1>0, <1>4, Zenon DEF LookupInv, MembershipShape, AnswersJustified, Justified, Turns
  <2> QED BY <2>1, <2>2, <2>3, Zenon DEF LookupInv
<1> QED BY <1>1, <1>2, <1>3, <1>4, Zenon DEF Looks

\* A cache that takes in the answer of lookup l holds that answer and older ones.
LEMMA CachesOne ==
  ASSUME NEW l \in Callers, NEW result \in Results, Caches(l, result)
  PROVE  \A c \in cache' : \/ c \in cache
                           \/ result # "error" /\ c = [addr |-> caller[l].addr, result |-> result, from |-> l]
BY DEF Caches

\* checkGroups returns a justified result, and membership stores it.  Of the
\* goroutines at most one changes: its result has been collected.
LEMMA FinishesKeeps ==
  ASSUME LookupInv, NEW l \in Callers, NEW result \in Results, caller[l].pc = "lead",
         Finishes(l, result), Justified(result, l), UNCHANGED <<said, unresolved>>,
         worker' \in [Callers -> [AllowedGroups -> WorkerStates]],
         \A m \in Callers, h \in AllowedGroups :
           /\ m # l => worker'[m][h] = worker[m][h]
           /\ \/ worker'[m][h] = worker[m][h]
              \/ worker[m][h].step = "done" /\ worker'[m][h].step = "collected"
  PROVE  LookupInv'
<1> DEFINE entry == [addr |-> caller[l].addr, result |-> result, from |-> l]
           state == [pc |-> "end", addr |-> caller[l].addr, result |-> result, from |-> l]
<1>0. caller[l].addr \in Addresses
  BY Zenon DEF LookupInv, MembershipShape, CallerStates
<1>1. state \in CallerStates /\ caller' = [caller EXCEPT ![l] = state]
  BY <1>0, Zenon DEF Finishes, Ends, Turns, CallerStates
<1>2. \A c \in cache' : c \in cache \/ (result # "error" /\ c = entry)
  BY CachesOne, Zenon DEF Finishes
<1>3. MembershipShape'
  <2>1. result # "error" => entry \in [addr: Addresses, result: Results \ {"error"}, from: Callers]
    BY <1>0, Zenon
  <2>2. cache \subseteq [addr: Addresses, result: Results \ {"error"}, from: Callers]
    BY Zenon DEF LookupInv, MembershipShape
  <2>3. cache' \subseteq [addr: Addresses, result: Results \ {"error"}, from: Callers]
    BY <1>2, <2>1, <2>2, Zenon
  <2>4. pending' \subseteq Callers
    BY Zenon DEF LookupInv, MembershipShape, Finishes, Unpend
  <2> QED BY <1>1, <2>3, <2>4, Zenon DEF LookupInv, MembershipShape
<1>4. ASSUME NEW m \in Callers, NEW h \in AllowedGroups PROVE GoroutineInv(m, h)'
  <2>1. GoroutineInv(m, h) /\ said'[m] = said[m] /\ unresolved'[m] = unresolved[m]
    BY Zenon DEF LookupInv
  <2>2. CASE m # l
    <3>1. caller'[m] = caller[m] /\ worker'[m][h] = worker[m][h]
      BY <1>1, <2>2, Zenon DEF LookupInv, MembershipShape
    <3> QED BY <2>1, <3>1, Zenon DEF GoroutineInv
  <2>3. CASE m = l
    <3>1. caller'[m].pc = "end"
      BY <1>1, <2>3, Zenon DEF LookupInv, MembershipShape
    <3>2. \/ worker'[m][h] = worker[m][h]
          \/ worker[m][h].step = "done" /\ worker'[m][h].step = "collected"
      BY Zenon
    <3> QED BY <2>1, <3>1, <3>2, Zenon DEF GoroutineInv
  <2> QED BY <2>2, <2>3, Zenon
<1>5. AnswersJustified'
  <2>1. ASSUME NEW r, NEW from, Justified(r, from) PROVE Justified(r, from)'
    BY <2>1, Zenon DEF Justified
  <2>2. ASSUME NEW m \in Callers, caller'[m].pc = "end"
        PROVE  Justified(caller'[m].result, caller'[m].from)
    BY <1>1, <2>2, Zenon DEF LookupInv, MembershipShape, AnswersJustified
  <2>3. ASSUME NEW c \in cache' PROVE Justified(c.result, c.from)
    BY <1>2 DEF LookupInv, AnswersJustified
  <2> QED BY <2>2, <2>3, Zenon DEF AnswersJustified, Justified
<1> QED BY <1>3, <1>4, <1>5, Zenon DEF LookupInv

\* A result that is collected: a member ends the lookup, an error is remembered, a negative
\* is what the goroutine was told.
LEMMA CollectsKeeps ==
  ASSUME LookupInv, NEW l \in Callers, NEW g \in AllowedGroups, Collects(l, g)
  PROVE  LookupInv'
<1>0. /\ caller[l].pc = "lead" /\ worker[l][g].step = "done"
      /\ worker' = [worker EXCEPT ![l][g] = [step |-> "collected"]]
      /\ UNCHANGED said
  BY Zenon DEF Collects, InStep, Becomes
<1>1. worker' \in [Callers -> [AllowedGroups -> WorkerStates]]
  BY <1>0, Zenon DEF LookupInv, MembershipShape, WorkerStates
<1>2. \A m \in Callers, h \in AllowedGroups :
        IF m = l /\ h = g THEN worker'[m][h].step = "collected" ELSE worker'[m][h] = worker[m][h]
  BY <1>0, Zenon DEF LookupInv, MembershipShape
<1>3. worker[l][g].result \in Results
  BY <1>0, Zenon DEF LookupInv, MembershipShape, WorkerStates
<1>4. worker[l][g].result # "error" => said[l][g] = worker[l][g].result
  BY <1>0, Zenon DEF LookupInv, GoroutineInv
<1>5. CASE worker[l][g].result = "member"
  <2>1. Finishes(l, "member") /\ UNCHANGED unresolved
    BY <1>5, Zenon DEF Collects
  <2>2. Justified("member", l)
    BY <1>4, <1>5, Zenon DEF Justified
  <2>3. \A m \in Callers, h \in AllowedGroups :
          /\ m # l => worker'[m][h] = worker[m][h]
          /\ \/ worker'[m][h] = worker[m][h]
             \/ worker[m][h].step = "done" /\ worker'[m][h].step = "collected"
    BY <1>0, <1>2, Zenon
  <2>4. "member" \in Results
    BY Zenon DEF Results
  <2> QED BY <1>0, <1>1, <2>1, <2>2, <2>3, <2>4, FinishesKeeps, Zenon
<1>6. CASE worker[l][g].result # "member"
  <2>1. /\ unresolved' = [unresolved EXCEPT ![l] = unresolved[l] \/ worker[l][g].result = "error"]
        /\ UNCHANGED <<caller, pending, cache>>
    BY <1>6, Zenon DEF Collects
  <2>2. unresolved' \in [Callers -> BOOLEAN]
    BY <2>1, Zenon DEF LookupInv, MembershipShape
  <2>3. MembershipShape'
    BY <1>0, <1>1, <2>1, <2>2, Zenon DEF LookupInv, MembershipShape
  <2>4. ASSUME NEW m \in Callers, NEW h \in AllowedGroups PROVE GoroutineInv(m, h)'
    <3>1. GoroutineInv(m, h) /\ caller'[m] = caller[m] /\ said'[m] = said[m]
      BY <1>0, <2>1, Zenon DEF LookupInv
    <3>2. unresolved'[m] = FALSE => unresolved[m] = FALSE
      BY <2>1, Zenon DEF LookupInv, MembershipShape
    <3>3. CASE m = l /\ h = g
      <4>1. worker'[m][h].step = "collected"
        BY <1>2, <3>3, Zenon
      <4>2. unresolved'[m] = FALSE => worker[l][g].result # "error"
        BY <2>1, <3>3, Zenon DEF LookupInv, MembershipShape
      <4>3. unresolved'[m] = FALSE => said[m][h] = "nonmember"
        BY <1>3, <1>4, <1>6, <3>3, <4>2, Zenon DEF Results
      <4> QED BY <1>0, <3>1, <3>3, <4>1, <4>3, Zenon DEF GoroutineInv
    <3>4. CASE ~(m = l /\ h = g)
      <4>1. worker'[m][h] = worker[m][h]
        BY <1>2, <3>4, Zenon
      <4> QED BY <3>1, <3>2, <4>1, Zenon DEF GoroutineInv
    <3> QED BY <3>3, <3>4, Zenon
  <2>5. AnswersJustified'
    BY <1>0, <2>1, Zenon DEF LookupInv, AnswersJustified, Justified
  <2> QED BY <2>3, <2>4, <2>5, Zenon DEF LookupInv
<1> QED BY <1>5, <1>6, Zenon

\* All results are in and no group had a member.
LEMMA ConcludesKeeps ==
  ASSUME LookupInv, NEW l \in Callers, Concludes(l)
  PROVE  LookupInv'
<1>1. Verdict(l) \in Results
  BY Zenon DEF Verdict, Results
<1>2. Justified(Verdict(l), l)
  <2>1. CASE unresolved[l] = TRUE
    BY <2>1, Zenon DEF Verdict, Justified
  <2>2. CASE unresolved[l] = FALSE
    <3>1. \A g \in AllowedGroups : said[l][g] = "nonmember"
      BY <2>2, Zenon DEF Concludes, InStep, LookupInv, GoroutineInv
    <3> QED BY <2>2, <3>1, Zenon DEF Verdict, Justified
  <2> QED BY <2>1, <2>2, Zenon DEF LookupInv, MembershipShape
<1>3. worker' \in [Callers -> [AllowedGroups -> WorkerStates]] /\ UNCHANGED worker
  BY Zenon DEF Concludes, LookupInv, MembershipShape
<1>4. Finishes(l, Verdict(l)) /\ caller[l].pc = "lead" /\ UNCHANGED <<said, unresolved>>
  BY Zenon DEF Concludes
<1> HIDE DEF Verdict
<1> QED BY <1>1, <1>2, <1>3, <1>4, FinishesKeeps, Zenon

\* Every step of a goroutine.
LEMMA WorkerStepKeeps ==
  ASSUME LookupInv, NEW l \in Callers, NEW g \in AllowedGroups, WorkerStep(l, g)
  PROVE  LookupInv'
<1> DEFINE Asker(steps) == [step: steps, left: SUBSET DOMAIN CoreURLBases]
<1>1. ASSUME InStep(l, g, "want") \/ InStep(l, g, "asking") \/ InStep(l, g, "reading")
      PROVE  worker[l][g] \in Asker({"want", "asking", "reading"})
  <2>1. worker[l][g] \in WorkerStates
    BY Zenon DEF LookupInv, MembershipShape
  <2> QED BY <1>1, <2>1, Zenon DEF WorkerStates, InStep
<1>2. CASE TakesTurn(l, g)
  <2>1. PICK left \in SUBSET DOMAIN CoreURLBases : Becomes(l, g, [step |-> "want", left |-> left])
    BY <1>2, Zenon DEF TakesTurn
  <2> QED BY <1>2, <2>1, WorkerMoves, Zenon DEF TakesTurn, InStep, WorkerStates
<1>3. CASE Abandons(l, g)
  BY <1>3, WorkerMoves, Zenon DEF Abandons, InStep, Sends, WorkerStates, Results
<1>4. CASE Asks(l, g)
  <2>1. [worker[l][g] EXCEPT !.step = "asking"] \in Asker({"asking"})
    BY <1>1, <1>4, Zenon DEF Asks
  <2> QED BY <1>4, <2>1, WorkerMoves, Zenon DEF Asks, InStep, WorkerStates
<1>5. CASE Exhausts(l, g)
  BY <1>5, WorkerMoves, Zenon DEF Exhausts, InStep, Sends, WorkerStates, Results
<1>6. CASE Responds(l, g)
  <2>1. [worker[l][g] EXCEPT !.step = "reading"] \in Asker({"reading"})
    BY <1>1, <1>6, Zenon DEF Responds
  <2> QED BY <1>6, <2>1, WorkerMoves, Zenon DEF Responds, InStep, WorkerStates
<1>7. CASE RequestFails(l, g) \/ ResponseFails(l, g)
  <2>1. worker[l][g].step \in {"asking", "reading"} /\ NextBase(l, g)
    BY <1>7, Zenon DEF RequestFails, ResponseFails, InStep
  <2>2. PICK left \in SUBSET DOMAIN CoreURLBases : Becomes(l, g, [step |-> "want", left |-> left])
    <3>1. worker[l][g].left \in SUBSET DOMAIN CoreURLBases
      BY <1>1, <2>1, Zenon DEF InStep
    <3> QED BY <2>1, <3>1, Zenon DEF NextBase
  <2> QED BY <2>1, <2>2, WorkerMoves, Zenon DEF NextBase, WorkerStates
<1>8. CASE \E result \in {"member", "nonmember"} : Answers(l, g, result)
  BY <1>8, AnswersKeeps, Zenon
<1> QED BY <1>2, <1>3, <1>4, <1>5, <1>6, <1>7, <1>8, Zenon DEF WorkerStep

\* LookupInv is inductive: one case per action.
LEMMA LookupInvStep == LookupInv /\ [MembershipNext]_memberVars => LookupInv'
<1> SUFFICES ASSUME LookupInv, [MembershipNext]_memberVars PROVE LookupInv'
  BY Zenon
<1>u. ASSUME UNCHANGED <<caller, pending, unresolved, worker, said>>, cache' \subseteq cache
      PROVE  LookupInv'
  <2>1. MembershipShape'
    BY <1>u, Zenon DEF LookupInv, MembershipShape
  <2>2. ASSUME NEW m \in Callers, NEW h \in AllowedGroups PROVE GoroutineInv(m, h)'
    <3>1. GoroutineInv(m, h)
      BY Zenon DEF LookupInv
    <3> QED BY <1>u, <3>1, Zenon DEF GoroutineInv
  <2>3. AnswersJustified'
    BY <1>u, Zenon DEF LookupInv, AnswersJustified, Justified
  <2> QED BY <2>1, <2>2, <2>3, Zenon DEF LookupInv
<1>1. ASSUME NEW l \in Callers, NEW a \in Addresses, Called(l, a) PROVE LookupInv'
  <2>1. [pc |-> "call", addr |-> a] \in CallerStates
    BY Zenon DEF CallerStates
  <2> QED BY <1>1, <2>1, CallerMoves, Zenon DEF Called, lookupVars
<1>2. ASSUME NEW l \in Callers, CallerStep(l) PROVE LookupInv'
  <2>1. CASE Wakes(l)
    <3>1. [pc |-> "call", addr |-> caller[l].addr] \in CallerStates
      BY <2>1, Zenon DEF Wakes, CallerStates, LookupInv, MembershipShape
    <3> QED BY <2>1, <3>1, CallerMoves, Zenon DEF Wakes, lookupVars
  <2> QED BY <1>2, <2>1, LooksKeeps, CollectsKeeps, ConcludesKeeps, Zenon DEF CallerStep
<1>3. ASSUME NEW l \in Callers, GivesUp(l) PROVE LookupInv'
  <2>1. caller[l].addr \in Addresses
    BY <1>3, Zenon DEF GivesUp, CallerStates, LookupInv, MembershipShape
  <2> QED BY <1>3, <2>1, CallerEnds, Zenon DEF GivesUp, lookupVars, Results, Justified
<1>4. ASSUME NEW l \in Callers, ContextEnds(l) PROVE LookupInv'
  BY <1>4, <1>u, Zenon DEF ContextEnds
<1>5. CASE DemotionEnds \/ AnswerAges
  BY <1>5, <1>u, Zenon DEF DemotionEnds, AnswerAges, lookupVars
<1>6. CASE UNCHANGED memberVars
  BY <1>6, <1>u, Zenon DEF memberVars, lookupVars
<1> QED BY <1>1, <1>2, <1>3, <1>4, <1>5, <1>6, WorkerStepKeeps, Zenon DEF MembershipNext

\* Every answer of membership, cached or shared, is one the Core gave in the lookup it comes
\* from: failures, failover and cancellation never become a positive or a negative
\* (checkGroups, checkGroup).
THEOREM AnswersAreJustified == MembershipSpec => []AnswersJustified
<1>1. LookupInv => AnswersJustified
  BY Zenon DEF LookupInv
<1> QED BY LookupInvInit, LookupInvStep, <1>1, PTL DEF MembershipSpec

--------------------------------------------------------------------------------
(* The slots, turns and tables.  Every set that is counted is finite because it grows by
   one element at a time, however many callers there are. *)

Holding == {"asking", "reading"}
Turn == Holding \union {"want"}
Holders(w) == {x \in Callers \X AllowedGroups : w[x[1]][x[2]].step \in Holding}
TurnsOf(w, l) == {g \in AllowedGroups : w[l][g].step \in Turn}

WorkerCounts ==
  /\ IsFiniteSet(Holders(worker)) /\ slots = Cardinality(Holders(worker)) /\ slots \in 0 .. Slots
  /\ parallel \in [Callers -> 0 .. Parallel]
  /\ \A l \in Callers : IsFiniteSet(TurnsOf(worker, l)) /\ parallel[l] = Cardinality(TurnsOf(worker, l))

TableCounts ==
  /\ IsFiniteSet(pending) /\ Cardinality(pending) <= PendingCap
  /\ IsFiniteSet(cache) /\ Cardinality(cache) <= CacheCap
  /\ coreFailures \in [Bases -> {"healthy", "failed", "cutoff"}]
  /\ cancelled \in [Callers -> BOOLEAN]

\* One element more, one less, or the same.
Weight(member) == IF member THEN 1 ELSE 0

\* A set that gains or loses x counts as much more or less.
LEMMA OneElement ==
  ASSUME NEW S, NEW T, NEW x, IsFiniteSet(S), \A y : y # x => (y \in T <=> y \in S)
  PROVE  IsFiniteSet(T) /\ Cardinality(T) + Weight(x \in S) = Cardinality(S) + Weight(x \in T)
         /\ Cardinality(S) \in Nat /\ Cardinality(T) \in Nat
<1>0. PICK n \in Nat : n = Cardinality(S)
  BY FS_CardinalityType, Zenon
<1>1. CASE x \in T
  <2>1. T = S \cup {x}
    BY <1>1, Zenon
  <2>2. IsFiniteSet(T) /\ Cardinality(T) = IF x \in S THEN n ELSE n + 1
    BY <1>0, <2>1, FS_AddElement, Zenon
  <2> QED BY <1>0, <1>1, <2>2 DEF Weight
<1>2. CASE x \notin T
  <2>1. T = S \ {x}
    BY <1>2, Zenon
  <2>2. IsFiniteSet(T) /\ Cardinality(T) = IF x \in S THEN n - 1 ELSE n
    BY <1>0, <2>1, FS_RemoveElement, Zenon
  <2>3. Cardinality(T) \in Nat
    BY <2>2, FS_CardinalityType, Zenon
  <2> QED BY <1>0, <1>2, <2>2, <2>3 DEF Weight
<1> QED BY <1>1, <1>2, Zenon

\* A goroutine that moves on keeps the counts if it takes and gives back what it should.
LEMMA GoroutineCounts ==
  ASSUME MembershipShape, WorkerCounts, NEW l \in Callers, NEW g \in AllowedGroups, NEW state, Becomes(l, g, state),
         slots' + Weight(worker[l][g].step \in Holding) = slots + Weight(state.step \in Holding),
         slots' \in Int, slots' <= Slots,
         NEW p \in Int, parallel' = [parallel EXCEPT ![l] = p], p <= Parallel,
         p + Weight(worker[l][g].step \in Turn) = parallel[l] + Weight(state.step \in Turn)
  PROVE  WorkerCounts'
<1>1. /\ worker \in [Callers -> [AllowedGroups -> WorkerStates]]
      /\ worker'[l][g] = state
      /\ \A m \in Callers, h \in AllowedGroups : m # l \/ h # g => worker'[m][h] = worker[m][h]
  BY Zenon DEF MembershipShape, Becomes
<1>2. /\ IsFiniteSet(Holders(worker')) /\ slots' = Cardinality(Holders(worker')) /\ slots' \in 0 .. Slots
  <2> DEFINE S == Holders(worker)
             T == Holders(worker')
             x == <<l, g>>
  <2>1. \A y : y # x => (y \in T <=> y \in S)
    <3>1. \A y \in Callers \X AllowedGroups : y # x => worker'[y[1]][y[2]] = worker[y[1]][y[2]]
      BY <1>1
    <3> QED BY <3>1, Zenon DEF Holders
  <2>2. (x \in S <=> worker[l][g].step \in Holding) /\ (x \in T <=> state.step \in Holding)
    BY <1>1, Zenon DEF Holders
  <2>3. IsFiniteSet(S) /\ slots = Cardinality(S)
    BY Zenon DEF WorkerCounts
  <2> HIDE DEF S, T, x
  <2>4. /\ IsFiniteSet(T) /\ Cardinality(T) + Weight(x \in S) = Cardinality(S) + Weight(x \in T)
        /\ Cardinality(S) \in Nat /\ Cardinality(T) \in Nat
    BY <2>1, <2>3, OneElement, Zenon
  <2>5. slots' = Cardinality(T)
    BY <2>2, <2>3, <2>4 DEF Weight
  <2> QED BY <2>4, <2>5, MembershipAssumption DEF T
<1>3. IsFiniteSet(TurnsOf(worker', l)) /\ p = Cardinality(TurnsOf(worker', l)) /\ p \in 0 .. Parallel
  <2> DEFINE S == TurnsOf(worker, l)
             T == TurnsOf(worker', l)
  <2>1. \A y : y # g => (y \in T <=> y \in S)
    BY <1>1, Zenon DEF TurnsOf
  <2>2. (g \in S <=> worker[l][g].step \in Turn) /\ (g \in T <=> state.step \in Turn)
    BY <1>1, Zenon DEF TurnsOf
  <2>3. IsFiniteSet(S) /\ parallel[l] = Cardinality(S)
    BY Zenon DEF WorkerCounts
  <2> HIDE DEF S, T
  <2>4. /\ IsFiniteSet(T) /\ Cardinality(T) + Weight(g \in S) = Cardinality(S) + Weight(g \in T)
        /\ Cardinality(S) \in Nat /\ Cardinality(T) \in Nat
    BY <2>1, <2>3, OneElement, Zenon
  <2>5. p = Cardinality(T)
    BY <2>2, <2>3, <2>4 DEF Weight
  <2> QED BY <2>4, <2>5, MembershipAssumption DEF T
<1>4. \A m \in Callers : m # l => TurnsOf(worker', m) = TurnsOf(worker, m)
  BY <1>1, Zenon DEF TurnsOf
<1>5. parallel' \in [Callers -> 0 .. Parallel] /\ parallel'[l] = p /\ \A m \in Callers : m # l => parallel'[m] = parallel[m]
  BY <1>3, Zenon DEF WorkerCounts
<1>6. \A m \in Callers : IsFiniteSet(TurnsOf(worker', m)) /\ parallel'[m] = Cardinality(TurnsOf(worker', m))
  BY <1>3, <1>4, <1>5, Zenon DEF WorkerCounts
<1> QED BY <1>2, <1>5, <1>6, Zenon DEF WorkerCounts

\* The counts stay while nobody's goroutine takes or gives back anything.
LEMMA CountsStay ==
  ASSUME WorkerCounts, UNCHANGED <<slots, parallel>>, Holders(worker') = Holders(worker),
         \A l \in Callers : TurnsOf(worker', l) = TurnsOf(worker, l)
  PROVE  WorkerCounts'
BY Zenon DEF WorkerCounts

\* A turn is counted up when it is taken and down on every path that sends a result; a slot,
\* on every path that leaves a request.
LEMMA WorkerCountsKept ==
  ASSUME MembershipShape, WorkerCounts, NEW l \in Callers, NEW g \in AllowedGroups,
         WorkerStep(l, g) \/ Collects(l, g)
  PROVE  WorkerCounts'
<1>0. /\ slots \in Int /\ slots <= Slots /\ parallel \in [Callers -> 0 .. Parallel]
      /\ parallel[l] \in Int /\ parallel[l] <= Parallel /\ Parallel \in Int /\ Slots \in Int
  BY MembershipAssumption DEF WorkerCounts
<1>1. parallel = [parallel EXCEPT ![l] = parallel[l]]
  BY <1>0, Zenon
<1> DEFINE before == worker[l][g].step
<1>s. ASSUME NEW state, Becomes(l, g, state), UNCHANGED parallel, before \in Turn <=> state.step \in Turn,
             slots' + Weight(before \in Holding) = slots + Weight(state.step \in Holding),
             slots' \in Int, slots' <= Slots
      PROVE  WorkerCounts'
  <2>1. parallel' = [parallel EXCEPT ![l] = parallel[l]]
    BY <1>1, <1>s, Zenon
  <2>2. parallel[l] + Weight(before \in Turn) = parallel[l] + Weight(state.step \in Turn)
    BY <1>s, Zenon DEF Weight
  <2> HIDE DEF before
  <2> QED BY <1>0, <1>s, <2>1, <2>2, GoroutineCounts, Zenon DEF before
<1>p. ASSUME NEW result, Sends(l, g, result), before \in {"queued", "want", "reading"},
             slots' + Weight(before \in Holding) = slots, slots' \in Int, slots' <= Slots
      PROVE  WorkerCounts'
  <2> DEFINE state == [step |-> "done", result |-> result]
             p == IF before = "queued" THEN parallel[l] ELSE parallel[l] - 1
  <2>1. Becomes(l, g, state) /\ parallel' = [parallel EXCEPT ![l] = p]
    BY <1>p, Zenon DEF Sends, InStep
  <2>2. Weight(state.step \in Holding) = 0 /\ Weight(state.step \in Turn) = 0
        /\ Weight(before \in Turn) = (IF before = "queued" THEN 0 ELSE 1)
    BY <1>p, Zenon DEF Weight, Holding, Turn
  <2>3. p \in Int /\ p <= Parallel /\ p + Weight(before \in Turn) = parallel[l] + Weight(state.step \in Turn)
    BY <1>0, <2>2
  <2>4. slots' + Weight(before \in Holding) = slots + Weight(state.step \in Holding)
    BY <1>0, <1>p, <2>2
  <2> HIDE DEF state, p
  <2> QED BY <1>p, <2>1, <2>3, <2>4, GoroutineCounts, Zenon
<1>2. CASE TakesTurn(l, g)
  <2>1. PICK left : Becomes(l, g, [step |-> "want", left |-> left])
    BY <1>2, Zenon DEF TakesTurn
  <2> DEFINE state == [step |-> "want", left |-> left]
             p == parallel[l] + 1
  <2>2. /\ before = "queued" /\ parallel[l] < Parallel /\ parallel' = [parallel EXCEPT ![l] = p]
        /\ slots' = slots
    BY <1>2, Zenon DEF TakesTurn, InStep
  <2>3. /\ Weight(before \in Holding) = 0 /\ Weight(before \in Turn) = 0
        /\ Weight(state.step \in Holding) = 0 /\ Weight(state.step \in Turn) = 1
    BY <2>2, Zenon DEF Weight, Holding, Turn
  <2>4. p \in Int /\ p <= Parallel /\ p + Weight(before \in Turn) = parallel[l] + Weight(state.step \in Turn)
    BY <1>0, <2>2, <2>3
  <2>5. slots' + Weight(before \in Holding) = slots + Weight(state.step \in Holding) /\ slots' \in Int /\ slots' <= Slots
    BY <1>0, <2>2, <2>3, Zenon
  <2> HIDE DEF state, p
  <2> QED BY <2>1, <2>2, <2>4, <2>5, GoroutineCounts, Zenon DEF state
<1>3. CASE Abandons(l, g) \/ Exhausts(l, g)
  <2>1. before \in {"queued", "want"} /\ Sends(l, g, "error") /\ slots' = slots
    BY <1>3, Zenon DEF Abandons, Exhausts, InStep
  <2>2. Weight(before \in Holding) = 0
    BY <2>1, Zenon DEF Weight, Holding
  <2> HIDE DEF before
  <2> QED BY <1>0, <1>p, <2>1, <2>2
<1>4. CASE Asks(l, g)
  <2> DEFINE state == [worker[l][g] EXCEPT !.step = "asking"]
  <2>1. before = "want" /\ slots < Slots /\ slots' = slots + 1 /\ UNCHANGED parallel /\ Becomes(l, g, state)
    BY <1>4, Zenon DEF Asks, InStep
  <2>2. state.step = "asking"
    BY <2>1 DEF MembershipShape, WorkerStates
  <2>3. (before \in Turn <=> state.step \in Turn) /\ Weight(before \in Holding) = 0 /\ Weight(state.step \in Holding) = 1
    BY <2>1, <2>2, Zenon DEF Weight, Holding, Turn
  <2> HIDE DEF state, before
  <2> QED BY <1>0, <1>s, <2>1, <2>3
<1>5. CASE RequestFails(l, g) \/ ResponseFails(l, g)
  <2>1. PICK left : Becomes(l, g, [step |-> "want", left |-> left])
    BY <1>5, Zenon DEF RequestFails, ResponseFails, NextBase
  <2> DEFINE state == [step |-> "want", left |-> left]
  <2>2. before \in Holding /\ slots' = slots - 1 /\ UNCHANGED parallel
    BY <1>5, Zenon DEF RequestFails, ResponseFails, NextBase, FreeSlot, InStep, Holding
  <2>3. (before \in Turn <=> state.step \in Turn) /\ Weight(before \in Holding) = 1 /\ Weight(state.step \in Holding) = 0
    BY <2>2, Zenon DEF Weight, Holding, Turn
  <2>4. slots' + Weight(before \in Holding) = slots + Weight(state.step \in Holding) /\ slots' \in Int /\ slots' <= Slots
    BY <1>0, <2>2, <2>3
  <2> HIDE DEF state, before
  <2> QED BY <1>s, <2>1, <2>2, <2>3, <2>4, Zenon DEF state
<1>6. CASE Responds(l, g)
  <2> DEFINE state == [worker[l][g] EXCEPT !.step = "reading"]
  <2>1. before = "asking" /\ slots' = slots /\ UNCHANGED parallel /\ Becomes(l, g, state)
    BY <1>6, Zenon DEF Responds, InStep
  <2>2. state.step = "reading"
    BY <2>1 DEF MembershipShape, WorkerStates
  <2>3. (before \in Turn <=> state.step \in Turn) /\ Weight(before \in Holding) = 1 /\ Weight(state.step \in Holding) = 1
    BY <2>1, <2>2, Zenon DEF Weight, Holding, Turn
  <2> HIDE DEF state, before
  <2> QED BY <1>0, <1>s, <2>1, <2>3, Zenon
<1>7. ASSUME NEW result \in {"member", "nonmember"}, Answers(l, g, result) PROVE WorkerCounts'
  <2>1. before = "reading" /\ Sends(l, g, result) /\ slots' = slots - 1
    BY <1>7, Zenon DEF Answers, InStep, FreeSlot
  <2>2. Weight(before \in Holding) = 1
    BY <2>1, Zenon DEF Weight, Holding
  <2>3. slots' + Weight(before \in Holding) = slots /\ slots' \in Int /\ slots' <= Slots
    BY <1>0, <2>1, <2>2
  <2> HIDE DEF before
  <2> QED BY <1>p, <2>1, <2>3, Zenon
<1>8. CASE Collects(l, g)
  <2> DEFINE state == [step |-> "collected"]
  <2>1. before = "done" /\ UNCHANGED slots /\ UNCHANGED parallel /\ Becomes(l, g, state)
    BY <1>8, Zenon DEF Collects, InStep
  <2>2. (before \in Turn <=> state.step \in Turn) /\ Weight(before \in Holding) = 0 /\ Weight(state.step \in Holding) = 0
    BY <2>1, Zenon DEF Weight, Holding, Turn
  <2> HIDE DEF state, before
  <2> QED BY <1>0, <1>s, <2>1, <2>2, Zenon
<1> QED BY <1>2, <1>3, <1>4, <1>5, <1>6, <1>7, <1>8, Zenon DEF WorkerStep

\* The goroutines of a lookup are new when it begins: nothing of it is counted yet.
LEMMA LooksCounts ==
  ASSUME LookupInv, WorkerCounts, NEW l \in Callers, Looks(l)
  PROVE  WorkerCounts'
<1>1. UNCHANGED <<slots, parallel>> /\ caller[l].pc = "call"
  BY Zenon DEF Looks
<1>2. UNCHANGED worker \/ worker' = [worker EXCEPT ![l] = [g \in AllowedGroups |-> [step |-> "queued"]]]
  BY Zenon DEF Looks
<1>3. CASE UNCHANGED worker
  BY <1>1, <1>3, CountsStay, Zenon
<1>4. CASE worker' = [worker EXCEPT ![l] = [g \in AllowedGroups |-> [step |-> "queued"]]]
  <2>1. \A g \in AllowedGroups : worker[l][g].step = "none"
    BY <1>1, Zenon DEF LookupInv, GoroutineInv
  <2>2. \A m \in Callers, g \in AllowedGroups :
          /\ worker'[m][g].step \in Holding <=> worker[m][g].step \in Holding
          /\ worker'[m][g].step \in Turn <=> worker[m][g].step \in Turn
    <3>1. worker \in [Callers -> [AllowedGroups -> WorkerStates]]
      BY Zenon DEF LookupInv, MembershipShape
    <3>2. \A g \in AllowedGroups : worker'[l][g].step = "queued"
      BY <1>4, <3>1, Zenon
    <3>3. \A m \in Callers : m # l => worker'[m] = worker[m]
      BY <1>4, <3>1, Zenon
    <3> QED BY <2>1, <3>2, <3>3, Zenon DEF Holding, Turn
  <2>3. Holders(worker') = Holders(worker) /\ \A m \in Callers : TurnsOf(worker', m) = TurnsOf(worker, m)
    BY <2>2, Zenon DEF Holders, TurnsOf
  <2> QED BY <1>1, <2>3, CountsStay, Zenon
<1> QED BY <1>2, <1>3, <1>4, Zenon

\* The pending table takes one more lookup only below its cap.
LEMMA LooksTables ==
  ASSUME TableCounts, NEW l \in Callers, Looks(l)
  PROVE  TableCounts'
<1>1. UNCHANGED <<cache, coreFailures, cancelled>>
  BY Zenon DEF Looks
<1>2. UNCHANGED pending \/ (pending' = pending \union {l} /\ ~TableFull)
  BY Zenon DEF Looks
<1>3. IsFiniteSet(pending') /\ Cardinality(pending') <= PendingCap
  <2>1. CASE UNCHANGED pending
    BY <2>1, Zenon DEF TableCounts
  <2>2. CASE pending' = pending \union {l} /\ ~TableFull
    <3>1. PICK n \in Nat : n = Cardinality(pending)
      BY FS_CardinalityType, Zenon DEF TableCounts
    <3>2. IsFiniteSet(pending') /\ Cardinality(pending') \in {n, n + 1}
      BY <2>2, <3>1, FS_AddElement, Zenon DEF TableCounts
    <3>3. n < PendingCap /\ PendingCap \in Int
      BY <2>2, <3>1, MembershipAssumption DEF TableFull
    <3> QED BY <3>2, <3>3
  <2> QED BY <1>2, <2>1, <2>2, Zenon
<1> QED BY <1>1, <1>3, Zenon DEF TableCounts

\* A full cache drops an answer before it takes one.
LEMMA FinishesTables ==
  ASSUME TableCounts, NEW l \in Callers, NEW result, Finishes(l, result), UNCHANGED coreFailures
  PROVE  TableCounts'
<1> DEFINE entry == [addr |-> caller[l].addr, result |-> result, from |-> l]
<1>1. cancelled' \in [Callers -> BOOLEAN]
  BY Zenon DEF Finishes, TableCounts
<1>2. IsFiniteSet(pending') /\ Cardinality(pending') <= PendingCap
  <2>1. PICK n \in Nat : n = Cardinality(pending) /\ n <= PendingCap
    BY FS_CardinalityType, Zenon DEF TableCounts
  <2>2. IsFiniteSet(pending') /\ Cardinality(pending') \in {n, n - 1}
    BY <2>1, FS_RemoveElement, Zenon DEF Finishes, Unpend, TableCounts
  <2> QED BY <2>1, <2>2, MembershipAssumption
<1>3. IsFiniteSet(cache') /\ Cardinality(cache') <= CacheCap
  <2>0. PICK n \in Nat : n = Cardinality(cache) /\ n <= CacheCap
    BY FS_CardinalityType, Zenon DEF TableCounts
  <2>1. CASE UNCHANGED cache
    BY <2>1, Zenon DEF TableCounts
  <2>2. CASE n < CacheCap /\ cache' = cache \union {entry}
    <3>1. IsFiniteSet(cache') /\ Cardinality(cache') \in {n, n + 1}
      BY <2>0, <2>2, FS_AddElement, Zenon DEF TableCounts
    <3> QED BY <2>2, <3>1, MembershipAssumption
  <2>3. ASSUME NEW c \in cache, cache' = (cache \ {c}) \union {entry} PROVE IsFiniteSet(cache') /\ Cardinality(cache') <= CacheCap
    <3>1. IsFiniteSet(cache \ {c}) /\ Cardinality(cache \ {c}) = n - 1
      BY <2>0, <2>3, FS_RemoveElement, Zenon DEF TableCounts
    <3> DEFINE rest == cache \ {c}
    <3> HIDE DEF rest, entry
    <3>2. IsFiniteSet(rest \union {entry}) /\ Cardinality(rest \union {entry})
             = IF entry \in rest THEN Cardinality(rest) ELSE Cardinality(rest) + 1
      BY <3>1, FS_AddElement, Zenon DEF rest
    <3>3. IsFiniteSet(cache') /\ Cardinality(cache') \in {n - 1, n - 1 + 1}
      BY <2>3, <3>1, <3>2, Zenon DEF rest
    <3> QED BY <2>0, <3>3, MembershipAssumption, SMTT(30)
  <2>4. UNCHANGED cache \/ (n < CacheCap /\ cache' = cache \union {entry})
        \/ \E c \in cache : cache' = (cache \ {c}) \union {entry}
    BY <2>0, Zenon DEF Finishes, Caches
  <2> QED BY <2>1, <2>2, <2>3, <2>4, Zenon
<1> QED BY <1>1, <1>2, <1>3, Zenon DEF TableCounts

\* The goroutines touch no table but the failures.
LEMMA WorkerTables ==
  ASSUME TableCounts, NEW l \in Callers, NEW g \in AllowedGroups, WorkerStep(l, g)
  PROVE  TableCounts'
<1>1. UNCHANGED <<pending, cache, cancelled>>
  BY Zenon DEF WorkerStep, TakesTurn, Abandons, Asks, Exhausts, RequestFails, Responds, ResponseFails, Answers, NextBase
<1>2. coreFailures' \in [Bases -> {"healthy", "failed", "cutoff"}]
  <2>1. coreFailures \in [Bases -> {"healthy", "failed", "cutoff"}]
    BY Zenon DEF TableCounts
  <2>2. \/ UNCHANGED coreFailures
        \/ \E b, why : why \in {"failed", "cutoff"} /\ coreFailed(b, why)
    BY Zenon DEF WorkerStep, TakesTurn, Abandons, Asks, Exhausts, RequestFails, Responds, ResponseFails, Answers
  <2> QED BY <2>1, <2>2, Zenon DEF coreFailed
<1> QED BY <1>1, <1>2, Zenon DEF TableCounts

\* Every step keeps the counts and the caps.
LEMMA CountsStep ==
  ASSUME LookupInv, WorkerCounts, TableCounts, [MembershipNext]_memberVars
  PROVE  WorkerCounts' /\ TableCounts'
<1>0. MembershipShape
  BY Zenon DEF LookupInv
<1>1. ASSUME UNCHANGED <<slots, parallel, worker>> PROVE WorkerCounts'
  BY <1>1, CountsStay, Zenon
<1>2. ASSUME UNCHANGED <<pending, cache, coreFailures, cancelled>> PROVE TableCounts'
  BY <1>2, Zenon DEF TableCounts
<1>3. ASSUME NEW l \in Callers, (\E a \in Addresses : Called(l, a)) \/ Wakes(l) \/ GivesUp(l)
      PROVE  WorkerCounts' /\ TableCounts'
  <2>1. UNCHANGED <<slots, parallel, worker, pending, cache, coreFailures, cancelled>>
    BY <1>3, Zenon DEF Called, Wakes, GivesUp, lookupVars
  <2> QED BY <1>1, <1>2, <2>1, Zenon
<1>4. ASSUME NEW l \in Callers, Looks(l) PROVE WorkerCounts' /\ TableCounts'
  BY <1>4, LooksCounts, LooksTables, Zenon
<1>5. ASSUME NEW l \in Callers, Concludes(l) PROVE WorkerCounts' /\ TableCounts'
  <2>1. UNCHANGED <<slots, parallel, worker>> /\ Finishes(l, Verdict(l)) /\ UNCHANGED coreFailures
    BY <1>5, Zenon DEF Concludes
  <2> QED BY <1>1, <2>1, FinishesTables, Zenon
<1>6. ASSUME NEW l \in Callers, NEW g \in AllowedGroups, Collects(l, g) PROVE WorkerCounts' /\ TableCounts'
  <2>1. WorkerCounts'
    BY <1>0, <1>6, WorkerCountsKept, Zenon
  <2>2. UNCHANGED coreFailures /\ (Finishes(l, "member") \/ UNCHANGED <<pending, cache, cancelled>>)
    BY <1>6, Zenon DEF Collects
  <2>3. TableCounts'
    BY <1>2, <2>2, FinishesTables, Zenon
  <2> QED BY <2>1, <2>3, Zenon
<1>7. ASSUME NEW l \in Callers, ContextEnds(l) PROVE WorkerCounts' /\ TableCounts'
  <2>1. UNCHANGED <<slots, parallel, worker, pending, cache, coreFailures>>
        /\ cancelled' = [cancelled EXCEPT ![l] = TRUE]
    BY <1>7, Zenon DEF ContextEnds
  <2>2. TableCounts'
    BY <2>1, Zenon DEF TableCounts
  <2> QED BY <1>1, <2>1, <2>2, Zenon
<1>8. ASSUME NEW l \in Callers, NEW g \in AllowedGroups, WorkerStep(l, g) PROVE WorkerCounts' /\ TableCounts'
  BY <1>0, <1>8, WorkerCountsKept, WorkerTables, Zenon
<1>9. CASE DemotionEnds
  <2>1. UNCHANGED <<slots, parallel, worker, pending, cache, cancelled>>
        /\ \E b \in Bases : coreFailures' = [coreFailures EXCEPT ![b] = "healthy"]
    BY <1>9, Zenon DEF DemotionEnds, lookupVars
  <2>2. TableCounts'
    BY <2>1, Zenon DEF TableCounts
  <2> QED BY <1>1, <2>1, <2>2, Zenon
<1>10. CASE AnswerAges
  <2>1. UNCHANGED <<slots, parallel, worker, pending, coreFailures, cancelled>>
    BY <1>10, Zenon DEF AnswerAges, lookupVars
  <2>2. PICK c \in cache : cache' = cache \ {c}
    BY <1>10, Zenon DEF AnswerAges
  <2>3. PICK n \in Nat : n = Cardinality(cache) /\ n <= CacheCap
    BY FS_CardinalityType, Zenon DEF TableCounts
  <2>4. IsFiniteSet(cache') /\ Cardinality(cache') = n - 1
    BY <2>2, <2>3, FS_RemoveElement, Zenon DEF TableCounts
  <2>5. Cardinality(cache') <= CacheCap
    BY <2>3, <2>4, MembershipAssumption
  <2>6. TableCounts'
    BY <2>1, <2>4, <2>5, Zenon DEF TableCounts
  <2> QED BY <1>1, <2>1, <2>6, Zenon
<1>11. CASE UNCHANGED memberVars
  BY <1>1, <1>2, <1>11, Zenon DEF memberVars, lookupVars
<1> QED BY <1>3, <1>4, <1>5, <1>6, <1>7, <1>8, <1>9, <1>10, <1>11, Zenon DEF MembershipNext, CallerStep

\* The slots and turns of the Core requests are exactly those in use, and the tables keep
\* their caps, whatever the number of callers, groups and endpoints and on every path of
\* failure and cancellation (checkGroups, checkGroup, membership).
THEOREM SlotsAreAccounted == MembershipSpec => []SlotsAccounted
<1> DEFINE Inv == LookupInv /\ WorkerCounts /\ TableCounts
<1>1. ASSUME MembershipInit PROVE WorkerCounts /\ TableCounts
  <2>1. Holders(worker) = {} /\ \A l \in Callers : TurnsOf(worker, l) = {}
    BY <1>1, Zenon DEF MembershipInit, Holders, TurnsOf, Holding, Turn, NotStarted
  <2>2. IsFiniteSet({}) /\ Cardinality({}) = 0
    BY FS_EmptySet, Zenon
  <2>3. WorkerCounts
    <3>1. slots = 0 /\ \A l \in Callers : parallel[l] = 0
      BY <1>1, Zenon DEF MembershipInit
    <3>2. slots \in 0 .. Slots /\ parallel \in [Callers -> 0 .. Parallel]
      BY <1>1, MembershipAssumption DEF MembershipInit
    <3> QED BY <2>1, <2>2, <3>1, <3>2, Zenon DEF WorkerCounts
  <2>4. TableCounts
    BY <1>1, <2>2, MembershipAssumption DEF MembershipInit, TableCounts
  <2> QED BY <2>3, <2>4, Zenon
<1>2. MembershipInit => Inv
  BY <1>1, LookupInvInit, Zenon
<1>3. Inv /\ [MembershipNext]_memberVars => Inv'
  BY LookupInvStep, CountsStep, Zenon
<1>4. ASSUME Inv PROVE SlotsAccounted
  <2>1. MembershipTypeOK
    BY <1>4, Zenon DEF LookupInv, WorkerCounts, TableCounts, MembershipTypeOK
  <2>2. {w \in Callers \X AllowedGroups : HoldsSlot(w[1], w[2])} = Holders(worker)
    BY Zenon DEF HoldsSlot, InStep, Holders, Holding
  <2>3. \A l \in Callers : {g \in AllowedGroups : HoldsSlot(l, g) \/ InStep(l, g, "want")} = TurnsOf(worker, l)
    BY Zenon DEF HoldsSlot, InStep, TurnsOf, Holding, Turn
  <2> QED BY <1>4, <2>1, <2>2, <2>3, Zenon DEF WorkerCounts, SlotsAccounted
<1> QED BY <1>2, <1>3, <1>4, PTL DEF MembershipSpec
================================================================================
