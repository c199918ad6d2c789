-------------------------- MODULE RuleEngineProofs --------------------------
(***************************************************************************)
(* Proofs about RuleEngine, for any number of rules and any durations,     *)
(* cooldowns, timetables and periods.                                      *)
(***************************************************************************)
EXTENDS RuleEngine, TLAPS

\* A unit of time later, the lesser of two ages is still the lesser.
LEMMA OlderMonotone ==
  ASSUME NEW a \in Int, NEW b \in Nat, NEW cap \in Nat, a <= b
  PROVE  Older(a, cap) <= Older(b, cap) \/ a < 0
BY DEF Older

\* An elapsed time stays a natural number.
LEMMA OlderNat ==
  ASSUME NEW a \in Nat, NEW cap \in Nat
  PROVE  Older(a, cap) \in Nat
BY DEF Older

-----------------------------------------------------------------------------
(* Types *)

\* An elapsed time that is saturated stays within its bound.
LEMMA OlderBounded ==
  ASSUME NEW cap \in Nat, NEW a \in 0..cap
  PROVE  Older(a, cap) \in 0..cap
BY DEF Older

\* The bounds of the elapsed times are natural numbers.
LEMMA CapsTyped ==
  /\ GapCap \in Nat /\ StaleBound \in Nat /\ StaleCap \in Nat
  /\ Gap \in Nat /\ MaxLate \in Nat /\ Lull \in Nat /\ LullCap \in Nat /\ Retry \in Nat
  /\ RefreshPeriod \in Nat \ {0} /\ MaxBusy \in Nat /\ MaxFaults \in Nat /\ QueueCap \in Nat \ {0}
<1>1. Gap \in Nat /\ RefreshPeriod \in Nat \ {0} /\ MaxBusy \in Nat /\ MaxFaults \in Nat
      /\ QueueCap \in Nat \ {0} /\ Retry \in Nat
  BY TimeAssumption
<1>2. (1 + MaxFaults) * RefreshPeriod \in Nat /\ (QueueCap + 1) * MaxBusy \in Nat
  BY <1>1
<1>3. MaxLate \in Nat
  BY <1>2 DEF MaxLate
<1>4. QED
  BY <1>1, <1>2, <1>3 DEF GapCap, StaleBound, StaleCap, Lull, LullCap

\* No event matched yet, or the bridge has none in hand.
LEMMA NoEventTyped == NoEvent \in Event
BY CapsTyped DEF NoEvent, Event

\* At first everything is of its type.
LEMMA RulesInit == Init => TypeOK
<1> SUFFICES ASSUME Init PROVE TypeOK
  OBVIOUS
<1>1. 0 \in Hour
  BY TimeAssumption DEF Hour
<1>2. queue \in Seq(Event) /\ Len(queue) <= QueueCap
  BY CapsTyped DEF Init
<1>3. offFor \in [Rule -> 0..StaleCap]
  BY CapsTyped DEF Init
<1>4. quiet \in [Rule -> 0..LullCap] /\ last \in [Rule -> 0..GapCap] /\ span \in [Rule -> Nat]
  BY CapsTyped DEF Init
<1>5. QED
  BY <1>1, <1>2, <1>3, <1>4, CapsTyped, NoEventTyped DEF Init, TypeOK, NotCounting

\* The camera publishes an event that fits in the queue, or that nobody hears.
LEMMA PublishTyped == TypeOK /\ Publish => TypeOK'
<1> SUFFICES ASSUME TypeOK, Publish PROVE TypeOK'
  OBVIOUS
<1>0. PICK matched \in SUBSET Rule :
        /\ queue' = IF at = "deaf" THEN queue
                    ELSE Append(queue, [rules |-> matched, age |-> 0, span |->
                           [r \in Rule |-> IF r \in matched THEN span[r] ELSE 0]])
        /\ quiet' = [r \in Rule |-> IF r \in matched THEN 0 ELSE quiet[r]]
  BY DEF Publish
<1>1. PICK e :
        /\ e = [rules |-> matched, age |-> 0, span |->
                 [r \in Rule |-> IF r \in matched THEN span[r] ELSE 0]]
        /\ queue' = IF at = "deaf" THEN queue ELSE Append(queue, e)
  BY <1>0
<1>2. [r \in Rule |-> IF r \in matched THEN span[r] ELSE 0] \in [Rule -> Nat]
  BY DEF TypeOK
<1>3. e \in Event
  BY <1>1, <1>2 DEF Event
<1>4. queue' \in Seq(Event) /\ Len(queue') <= QueueCap
  <2>1. queue \in Seq(Event) /\ Len(queue) <= QueueCap
    BY DEF TypeOK
  <2>2. at # "deaf" => Len(queue) < QueueCap
    BY DEF Publish
  <2>3. QED
    BY <1>1, <1>3, <2>1, <2>2, CapsTyped
<1>6. quiet' \in [Rule -> 0..LullCap]
  BY <1>0, CapsTyped DEF TypeOK
<1>7. QED
  BY <1>4, <1>6 DEF TypeOK, Publish, ruleVars, countVars

\* So do the administrator, the refresh, and the hours.
LEMMA OutsideTyped ==
  ASSUME TypeOK,
         (\E r \in Rule : SwitchRule(r)) \/ RefreshRules \/ RefreshFails \/ PassHour
  PROVE  TypeOK'
<1>1. ASSUME NEW r \in Rule, SwitchRule(r) PROVE TypeOK'
  <2>1. offFor' \in [Rule -> 0..StaleCap]
    BY <1>1, CapsTyped DEF TypeOK, SwitchRule
  <2>2. QED
    BY <1>1, <2>1 DEF TypeOK, SwitchRule, cameraVars, countVars
<1>2. ASSUME RefreshRules PROVE TypeOK'
  BY <1>2, CapsTyped DEF TypeOK, RefreshRules, cameraVars, countVars
<1>3. ASSUME RefreshFails PROVE TypeOK'
  BY <1>3, CapsTyped DEF TypeOK, RefreshFails, cameraVars, countVars
<1>4. ASSUME PassHour PROVE TypeOK'
  BY <1>4 DEF TypeOK, PassHour, ruleVars, countVars
<1>5. QED
  BY <1>1, <1>2, <1>3, <1>4

\* The bridge takes an event, captures its photo, and is done with it.
LEMMA EventTyped == TypeOK /\ (TakeEvent \/ EndCapture \/ EndEvent) => TypeOK'
<1> SUFFICES ASSUME TypeOK PROVE TakeEvent \/ EndCapture \/ EndEvent => TypeOK'
  OBVIOUS
<1>1. ASSUME TakeEvent PROVE TypeOK'
  <2>1. queue \in Seq(Event) /\ queue # <<>>
    BY <1>1 DEF TypeOK, TakeEvent
  <2>2. Head(queue) \in Event /\ Tail(queue) \in Seq(Event) /\ Len(Tail(queue)) = Len(queue) - 1
    BY <2>1
  <2>3. Len(queue') <= QueueCap
    BY <1>1, <2>1, <2>2, CapsTyped DEF TypeOK, TakeEvent
  <2>4. QED
    BY <1>1, <2>2, <2>3 DEF TypeOK, TakeEvent, ruleVars, cameraVars, countVars
<1>2. ASSUME EndCapture PROVE TypeOK'
  BY <1>2 DEF TypeOK, EndCapture, ruleVars, cameraVars, countVars
<1>3. ASSUME EndEvent PROVE TypeOK'
  BY <1>3, NoEventTyped, CapsTyped DEF TypeOK, EndEvent, ruleVars, cameraVars, countVars
<1>4. QED
  BY <1>1, <1>2, <1>3

\* Every way through the loop over the rules.
LEMMA RuleTyped ==
  ASSUME TypeOK, NEW r \in Rule, TryRule(r) \/ FailRule(r)
  PROVE  TypeOK'
<1>1. todo \ {r} \in SUBSET Rule
  BY DEF TypeOK
<1>2. ASSUME Seen(r) PROVE last' \in [Rule -> 0..GapCap]
  BY <1>2, CapsTyped DEF TypeOK, Seen
<1>3. ASSUME SkipRule(r) PROVE TypeOK'
  BY <1>1, <1>3 DEF TypeOK, SkipRule, NextRule, ruleVars, cameraVars, countVars
<1>4. ASSUME StartCount(r) PROVE TypeOK'
  <2>1. /\ first' \in [Rule -> Nat \cup {NotCounting}]
        /\ last' \in [Rule -> 0..GapCap]
    BY <1>4, CapsTyped DEF TypeOK, StartCount
  <2>2. QED
    BY <1>1, <1>4, <2>1 DEF TypeOK, StartCount, NextRule, ruleVars, cameraVars
<1>5. ASSUME KeepCounting(r) PROVE TypeOK'
  BY <1>1, <1>2, <1>5 DEF TypeOK, KeepCounting, NextRule, ruleVars, cameraVars
<1>6. ASSUME Cool(r) PROVE TypeOK'
  BY <1>1, <1>2, <1>6 DEF TypeOK, Cool, NextRule, ruleVars, cameraVars
<1>7. ASSUME Fire(r) PROVE TypeOK'
  <2>1. cooling' \in [Rule -> Nat]
    BY <1>7, RuleAssumption DEF TypeOK, Fire
  <2>2. at = "rules"
    BY <1>7 DEF Fire, Due, Passes, Trying
  <2>3. QED
    BY <1>2, <1>7, <2>1, <2>2 DEF TypeOK, Fire, ruleVars, cameraVars
<1>8. ASSUME FireUnchecked(r) PROVE TypeOK'
  <2>1. at = "rules"
    BY <1>8 DEF FireUnchecked, Due, Passes, Trying
  <2>2. faults' \in 0..MaxFaults
    BY <1>8, CapsTyped DEF TypeOK, FireUnchecked
  <2>3. QED
    BY <1>2, <1>8, <2>1, <2>2 DEF TypeOK, FireUnchecked, ruleVars, cameraVars
<1>9. ASSUME Deliver(r) PROVE TypeOK'
  <2>1. first' \in [Rule -> Nat \cup {NotCounting}]
    BY <1>9 DEF TypeOK, Deliver
  <2>2. QED
    BY <1>1, <1>9, <2>1 DEF TypeOK, Deliver, NextRule, Acting, ruleVars, cameraVars
<1>10. ASSUME FailRule(r) PROVE TypeOK'
  BY <1>1, <1>10, CapsTyped DEF TypeOK, FailRule, NextRule, ruleVars, cameraVars, countVars
<1>11. QED
  BY <1>3, <1>4, <1>5, <1>6, <1>7, <1>8, <1>9, <1>10 DEF TryRule

\* The process starts again with nothing in memory.
LEMMA RestartTyped == TypeOK /\ Restart => TypeOK'
<1> SUFFICES ASSUME TypeOK, Restart PROVE TypeOK'
  OBVIOUS
<1>1. last' \in [Rule -> 0..GapCap]
  BY CapsTyped DEF Restart
<1>2. queue' \in Seq(Event) /\ Len(queue') <= QueueCap
  BY CapsTyped DEF Restart
<1>3. QED
  BY <1>1, <1>2, NoEventTyped, CapsTyped DEF TypeOK, Restart, cameraVars, NotCounting

\* The connection is lost, and comes back.
LEMMA ConnectionTyped == TypeOK /\ (LoseConnection \/ Reconnect) => TypeOK'
<1> SUFFICES ASSUME TypeOK PROVE LoseConnection \/ Reconnect => TypeOK'
  OBVIOUS
<1>1. ASSUME LoseConnection PROVE TypeOK'
  <2>1. queue' \in Seq(Event) /\ Len(queue') <= QueueCap
    BY <1>1, CapsTyped DEF LoseConnection
  <2>2. QED
    BY <1>1, <2>1, NoEventTyped, CapsTyped
    DEF TypeOK, LoseConnection, ruleVars, cameraVars, countVars
<1>2. ASSUME Reconnect PROVE TypeOK'
  BY <1>2, CapsTyped DEF TypeOK, Reconnect, ruleVars, cameraVars, countVars
<1>3. QED
  BY <1>1, <1>2

\* A moment later, an event is late by one unit more.
LEMMA DelayedType == \A e \in Event : Delayed(e) \in Event
BY DEF Delayed, Event

LEMMA QueueDelayed ==
  ASSUME TypeOK, queue' = [k \in DOMAIN queue |-> Delayed(queue[k])]
  PROVE  /\ queue' \in Seq(Event) /\ Len(queue') = Len(queue)
         /\ \A k \in 1..Len(queue) : queue[k] \in Event /\ queue'[k] = Delayed(queue[k])
<1>1. queue \in Seq(Event) /\ DOMAIN queue = 1..Len(queue) /\ Len(queue) \in Nat
  BY DEF TypeOK
<1>2. \A k \in 1..Len(queue) : queue[k] \in Event
  BY <1>1
<1>3. queue' = [k \in 1..Len(queue) |-> Delayed(queue[k])]
  BY <1>1
<1>4. \A k \in 1..Len(queue) : Delayed(queue[k]) \in Event
  BY <1>2, DelayedType
<1>5. queue' \in Seq(Event) /\ Len(queue') = Len(queue)
  BY <1>1, <1>3, <1>4
<1>6. QED
  BY <1>2, <1>3, <1>5

\* Time passes within the bounds of every elapsed time.
LEMMA TickTyped == TypeOK /\ Tick => TypeOK'
<1> SUFFICES ASSUME TypeOK, Tick PROVE TypeOK'
  OBVIOUS
<1>1. offFor' \in [Rule -> 0..StaleCap]
  BY CapsTyped, OlderBounded DEF TypeOK, Tick
<1>2. quiet' \in [Rule -> 0..LullCap] /\ last' \in [Rule -> 0..GapCap]
  BY CapsTyped, OlderBounded DEF TypeOK, Tick
<1>3. first' \in [Rule -> Nat \cup {NotCounting}] /\ span' \in [Rule -> Nat]
  <2>1. \A r \in Rule : Older(span[r], MinDuration[r]) \in Nat
    BY RuleAssumption, OlderNat DEF TypeOK
  <2>2. first' \in [Rule -> Nat \cup {NotCounting}]
    BY RuleAssumption, OlderNat DEF TypeOK, Tick
  <2>3. QED
    BY <2>1, <2>2 DEF Tick
<1>4. event' \in Event /\ queue' \in Seq(Event) /\ Len(queue') <= QueueCap
  BY QueueDelayed, DelayedType DEF TypeOK, Tick
<1>5. cooling' \in [Rule -> Nat]
  BY DEF TypeOK, Tick
<1>6. sinceRefresh' \in 0..RefreshPeriod
  BY CapsTyped DEF TypeOK, Tick
<1>7. busy' \in 0..(IF at' = "deaf" THEN Retry ELSE MaxBusy)
  <2>1. at' = at /\ busy' = IF at = "idle" THEN 0 ELSE busy + 1
    BY DEF Tick
  <2>2. /\ at = "deaf" => busy < Retry
        /\ at \notin {"idle", "deaf"} => busy < MaxBusy
    BY DEF Tick
  <2>3. busy \in Nat
    BY CapsTyped DEF TypeOK
  <2>4. QED
    BY <2>1, <2>2, <2>3, CapsTyped
<1>8. QED
  BY <1>1, <1>2, <1>3, <1>4, <1>5, <1>6, <1>7 DEF TypeOK, Tick

\* Every step keeps the types.
LEMMA RulesStep == TypeOK /\ [Next]_vars => TypeOK'
<1> SUFFICES ASSUME TypeOK, [Next]_vars PROVE TypeOK'
  OBVIOUS
<1>1. CASE UNCHANGED vars
  BY <1>1 DEF TypeOK, vars
<1>2. CASE Publish
  BY <1>2, PublishTyped
<1>3. CASE (\E r \in Rule : SwitchRule(r)) \/ RefreshRules \/ RefreshFails \/ PassHour
  BY <1>3, OutsideTyped
<1>4. CASE TakeEvent \/ EndCapture \/ EndEvent
  BY <1>4, EventTyped
<1>5. CASE \E r \in Rule : TryRule(r) \/ FailRule(r)
  BY <1>5, RuleTyped
<1>6. CASE Restart
  BY <1>6, RestartTyped
<1>7. CASE Tick
  BY <1>7, TickTyped
<1>8. CASE LoseConnection \/ Reconnect
  BY <1>8, ConnectionTyped
<1>9. QED
  BY <1>1, <1>2, <1>3, <1>4, <1>5, <1>6, <1>7, <1>8 DEF Next, Handle

\* The bridge keeps to the types of its state: no refresh is late, no event is
\* worked on for longer than MaxBusy, and the queue keeps within its limit.
THEOREM RulesTyped == Spec => []TypeOK
<1>1. QED
  BY RulesInit, RulesStep, PTL DEF Spec

-----------------------------------------------------------------------------
(* Staleness *)

\* The time a rule that is off may stay cached through n refreshes.
Missed(n) == n * RefreshPeriod

\* A rule that is off and still cached was switched off since the last refresh
\* that succeeded; one still to try, by what the event took longer than that.
StaleInv ==
  /\ at \in {"idle", "deaf", "capture"} => todo = {}
  /\ \A r \in cached \ active : offFor[r] <= Missed(faults) + sinceRefresh
  /\ \A r \in todo \ active : offFor[r] <= Missed(1 + faults) + busy

\* One more failure allows one more period.
LEMMA OnePeriodMore ==
  ASSUME NEW n \in Nat
  PROVE  /\ RefreshPeriod \in Nat /\ Missed(n) \in Nat
         /\ Missed(1 + n) = Missed(n) + RefreshPeriod
         /\ Missed(n + 1) = Missed(n) + RefreshPeriod
BY CapsTyped DEF Missed

\* At first the cache is what the database says.
LEMMA StaleInit == Init => StaleInv
BY DEF Init, StaleInv

\* What the steps read of the numbers.
LEMMA NumbersTyped ==
  ASSUME TypeOK
  PROVE  /\ RefreshPeriod \in Nat /\ faults \in Nat /\ sinceRefresh \in Nat /\ busy \in Nat
         /\ sinceRefresh <= RefreshPeriod /\ MaxBusy \in Nat
         /\ at # "deaf" => busy <= MaxBusy
         /\ Missed(faults) \in Nat
         /\ Missed(1 + faults) = Missed(faults) + RefreshPeriod
         /\ \A r \in Rule : offFor[r] \in Nat
<1>1. /\ RefreshPeriod \in Nat /\ faults \in Nat /\ sinceRefresh \in Nat /\ busy \in Nat
      /\ sinceRefresh <= RefreshPeriod /\ MaxBusy \in Nat /\ (at # "deaf" => busy <= MaxBusy)
  BY CapsTyped DEF TypeOK
<1>2. \A r \in Rule : offFor[r] \in 0..StaleCap
  BY DEF TypeOK
<1>3. \A r \in Rule : offFor[r] \in Nat
  BY <1>2, CapsTyped
<1>4. QED
  BY <1>1, <1>3, OnePeriodMore

\* A step that lets nothing grow stale: it may leave out rules still to try,
\* and add a failure.
LEMMA StaleUntouched ==
  ASSUME TypeOK, TypeOK', StaleInv,
         UNCHANGED <<active, offFor, cached, sinceRefresh, busy>>,
         todo' \subseteq todo, faults' = faults \/ faults' = faults + 1,
         at' \in {"rules", "act"} \/ todo' = {}
  PROVE  StaleInv'
<1>1. cached \subseteq Rule /\ todo \subseteq Rule
  BY DEF TypeOK
<1>2. /\ Missed(faults) <= Missed(faults')
      /\ Missed(1 + faults) <= Missed(1 + faults')
      /\ Missed(faults') \in Nat /\ Missed(1 + faults') \in Nat
  <2>1. faults \in Nat /\ 1 + faults \in Nat /\ faults' \in Nat
    BY NumbersTyped
  <2>2. CASE faults' = faults
    BY <2>1, <2>2, OnePeriodMore
  <2>3. CASE faults' = faults + 1
    <3>1. Missed(faults + 1) = Missed(faults) + RefreshPeriod
      BY <2>1, OnePeriodMore
    <3>2. Missed(1 + faults') = Missed(faults') + RefreshPeriod
      BY <2>1, OnePeriodMore
    <3>3. QED
      BY <2>1, <2>3, <3>1, <3>2, OnePeriodMore
  <2>4. QED
    BY <2>2, <2>3
<1>3. ASSUME NEW r \in cached \ active
      PROVE  offFor[r] <= Missed(faults') + sinceRefresh
  BY <1>1, <1>2, <1>3, NumbersTyped DEF StaleInv
<1>4. ASSUME NEW r \in todo \ active
      PROVE  offFor[r] <= Missed(1 + faults') + busy
  BY <1>1, <1>2, <1>4, NumbersTyped DEF StaleInv
<1>5. QED
  BY <1>3, <1>4 DEF StaleInv

\* A rule that is switched off has been off for no time.
LEMMA SwitchStale ==
  ASSUME TypeOK, StaleInv, NEW r \in Rule, SwitchRule(r)
  PROVE  StaleInv'
<1>1. /\ cached \subseteq Rule /\ todo \subseteq Rule
      /\ Missed(faults) + sinceRefresh \in Nat /\ Missed(1 + faults) + busy \in Nat
  <2>1. cached \subseteq Rule /\ todo \subseteq Rule
    BY DEF TypeOK
  <2>2. QED
    BY <2>1, NumbersTyped
<1>2. ASSUME NEW s \in Rule, s \notin active'
      PROVE  \/ s \notin active /\ offFor'[s] = offFor[s]
             \/ offFor'[s] = 0
  BY <1>2 DEF SwitchRule, TypeOK
<1>3. ASSUME NEW s \in cached \ active'
      PROVE  offFor'[s] <= Missed(faults) + sinceRefresh
  BY <1>1, <1>2, <1>3 DEF StaleInv
<1>4. ASSUME NEW s \in todo \ active'
      PROVE  offFor'[s] <= Missed(1 + faults) + busy
  BY <1>1, <1>2, <1>4 DEF StaleInv
<1>5. QED
  BY <1>3, <1>4 DEF StaleInv, SwitchRule, countVars

\* A refresh that succeeds leaves nothing stale in the cache; one that fails
\* allows a period more.
LEMMA RefreshStale ==
  ASSUME TypeOK, StaleInv, RefreshRules \/ RefreshFails
  PROVE  StaleInv'
<1>1. CASE RefreshRules
  BY <1>1 DEF StaleInv, RefreshRules
<1>2. CASE RefreshFails
  <2>1. /\ Missed(faults') = Missed(faults) + RefreshPeriod
        /\ Missed(1 + faults') = Missed(faults) + RefreshPeriod + RefreshPeriod
    BY <1>2, NumbersTyped, OnePeriodMore DEF RefreshFails
  <2>2. ASSUME NEW r \in cached \ active
        PROVE  offFor[r] <= Missed(faults') + 0
    <3>1. r \in Rule /\ offFor[r] <= Missed(faults) + sinceRefresh
      BY <2>2 DEF StaleInv, TypeOK
    <3>2. sinceRefresh = RefreshPeriod
      BY <1>2 DEF RefreshFails
    <3>3. QED
      BY <2>1, <3>1, <3>2, NumbersTyped
  <2>3. ASSUME NEW r \in todo \ active
        PROVE  offFor[r] <= Missed(1 + faults') + busy
    BY <2>1, <2>3, NumbersTyped DEF StaleInv, TypeOK
  <2>4. QED
    BY <1>2, <2>2, <2>3 DEF StaleInv, RefreshFails
<1>3. QED
  BY <1>1, <1>2

\* The rules to try for an event are those cached once its photo is there.
LEMMA EndCaptureStale ==
  ASSUME TypeOK, StaleInv, EndCapture
  PROVE  StaleInv'
<1>1. ASSUME NEW r \in cached \ active
      PROVE  offFor[r] <= Missed(1 + faults) + busy
  BY <1>1, NumbersTyped DEF StaleInv, TypeOK
<1>2. QED
  BY <1>1 DEF StaleInv, EndCapture, ruleVars

\* Time makes a rule that is off staler by one unit, and so does it with the
\* refresh and with the event in hand.
LEMMA TickStale ==
  ASSUME TypeOK, StaleInv, Tick
  PROVE  StaleInv'
<1>1. \A r \in Rule \ active : offFor'[r] <= offFor[r] + 1
  BY NumbersTyped DEF Tick, Older
<1>2. ASSUME NEW r \in cached \ active
      PROVE  offFor'[r] <= Missed(faults) + (sinceRefresh + 1)
  <2>1. /\ r \in Rule /\ offFor[r] \in Nat
        /\ offFor[r] <= Missed(faults) + sinceRefresh
    BY <1>2, NumbersTyped DEF StaleInv, TypeOK
  <2>2. offFor'[r] \in Nat
    BY <2>1 DEF Tick, Older
  <2>3. QED
    BY <1>1, <1>2, <2>1, <2>2, NumbersTyped
<1>3. ASSUME NEW r \in todo \ active
      PROVE  offFor'[r] <= Missed(1 + faults) + (busy + 1) /\ at \in {"rules", "act"}
  <2>1. /\ r \in Rule /\ offFor[r] \in Nat /\ at \in {"rules", "act"}
        /\ offFor[r] <= Missed(1 + faults) + busy
    BY <1>3, NumbersTyped DEF StaleInv, TypeOK
  <2>2. offFor'[r] \in Nat
    BY <2>1 DEF Tick, Older
  <2>3. QED
    BY <1>1, <1>3, <2>1, <2>2, NumbersTyped
<1>4. QED
  BY <1>2, <1>3 DEF StaleInv, Tick

\* Every step keeps to it.
LEMMA StaleStep == TypeOK /\ TypeOK' /\ StaleInv /\ [Next]_vars => StaleInv'
<1> SUFFICES ASSUME TypeOK, TypeOK', StaleInv, [Next]_vars PROVE StaleInv'
  OBVIOUS
<1>1. CASE Publish \/ PassHour \/ UNCHANGED vars
  BY <1>1 DEF StaleInv, Publish, PassHour, vars, ruleVars
<1>2. CASE \E r \in Rule : SwitchRule(r)
  BY <1>2, SwitchStale
<1>3. CASE RefreshRules \/ RefreshFails
  BY <1>3, RefreshStale
<1>4. CASE TakeEvent \/ EndEvent
  <2>1. UNCHANGED <<active, offFor, cached, sinceRefresh, faults, todo>> /\ todo' \subseteq todo
    BY <1>4 DEF TakeEvent, EndEvent, ruleVars
  <2>2. CASE TakeEvent
    BY <2>1, <2>2 DEF StaleInv, TakeEvent
  <2>3. CASE EndEvent
    BY <2>1, <2>3 DEF StaleInv, EndEvent
  <2>4. QED
    BY <1>4, <2>2, <2>3
<1>5. CASE EndCapture
  BY <1>5, EndCaptureStale
<1>6. ASSUME NEW r \in Rule, TryRule(r) \/ FailRule(r)
      PROVE  StaleInv'
  <2>1. /\ UNCHANGED <<active, offFor, cached, sinceRefresh, busy>>
        /\ todo' = todo \/ todo' = todo \ {r}
        /\ faults' = faults \/ faults' = faults + 1
        /\ at' \in {"rules", "act"}
    BY <1>6 DEF TryRule, SkipRule, StartCount, KeepCounting, Cool, Fire, FireUnchecked, Deliver,
            FailRule, NextRule, Trying, Passes, Due, ruleVars
  <2>2. todo' \subseteq todo
    BY <2>1
  <2>3. QED
    BY <2>1, <2>2, StaleUntouched
<1>7. CASE Restart
  BY <1>7 DEF StaleInv, Restart
<1>8. CASE Tick
  BY <1>8, TickStale
<1>9. CASE LoseConnection \/ Reconnect
  <2>1. /\ UNCHANGED <<active, offFor, cached, sinceRefresh, todo>> /\ todo = {}
        /\ faults' = faults \/ faults' = faults + 1
    BY <1>9 DEF StaleInv, LoseConnection, Reconnect, ruleVars
  <2>2. Missed(faults') \in Nat /\ Missed(faults) <= Missed(faults')
    BY <2>1, NumbersTyped, OnePeriodMore
  <2>3. ASSUME NEW r \in cached \ active
        PROVE  offFor[r] <= Missed(faults') + sinceRefresh
    <3>1. r \in Rule /\ offFor[r] <= Missed(faults) + sinceRefresh
      BY <2>3 DEF StaleInv, TypeOK
    <3>2. QED
      BY <2>2, <3>1, NumbersTyped
  <2>4. QED
    BY <2>1, <2>3 DEF StaleInv
<1>10. QED
  BY <1>1, <1>2, <1>3, <1>4, <1>5, <1>6, <1>7, <1>8, <1>9 DEF Next, Handle

\* However often the refresh fails or the bridge starts again, a rule that was
\* switched off fires no later than the refreshes it missed and the event in
\* hand allow: one period more for every failure.
THEOREM FiresOnlyWhileFresh == Spec => FiresWhileFresh
<1>1. ASSUME TypeOK, StaleInv, NEW r \in Rule, Fire(r) \/ FireUnchecked(r)
      PROVE  r \in active \/ offFor[r] <= (1 + faults) * RefreshPeriod + MaxBusy
  <2>1. r \in todo /\ at = "rules"
    BY <1>1 DEF Fire, FireUnchecked, Due, Passes, Trying
  <2>2. CASE r \notin active
    <3>1. offFor[r] <= (1 + faults) * RefreshPeriod + busy
      BY <1>1, <2>1, <2>2 DEF StaleInv, Missed
    <3>2. (1 + faults) * RefreshPeriod \in Nat
      BY <1>1, NumbersTyped, OnePeriodMore DEF Missed
    <3>3. r \in Rule
      BY <1>1
    <3>4. busy <= MaxBusy /\ busy \in Nat /\ MaxBusy \in Nat /\ offFor[r] \in Nat
      BY <1>1, <2>1, <3>3, NumbersTyped
    <3>5. QED
      BY <3>1, <3>2, <3>4
  <2>3. QED
    BY <2>2
<1>2. TypeOK /\ StaleInv =>
        [\A r \in Rule : Fire(r) \/ FireUnchecked(r) =>
           r \in active \/ offFor[r] <= (1 + faults) * RefreshPeriod + MaxBusy]_vars
  BY <1>1
<1>3. QED
  BY <1>2, RulesInit, RulesStep, StaleInit, StaleStep, PTL DEF Spec, FiresWhileFresh
-----------------------------------------------------------------------------
(* The presence at the camera *)

InHand == at \in {"capture", "rules", "act"}

\* The time for which n events can be worked on.
Wait(n) == n * MaxBusy

\* How late the waiting events and the one in hand can be.
LateInv ==
  /\ InHand \/ event = NoEvent
  /\ at = "deaf" => queue = <<>>
  /\ at \notin {"rules", "act"} => todo = {}
  /\ \A k \in 1..Len(queue) :
       queue[k].age <= IF InHand THEN Wait(QueueCap - k) + busy ELSE Wait(QueueCap - k + 1)
  /\ InHand => event.age <= Wait(QueueCap) + busy

LEMMA WaitStep ==
  ASSUME NEW n \in Int
  PROVE  Wait(n) \in Int /\ Wait(n + 1) = Wait(n) + MaxBusy /\ (n >= 0 => Wait(n) >= 0)
BY CapsTyped DEF Wait

\* Waiting is no longer than MaxLate.
LEMMA LateBound == Wait(QueueCap) + MaxBusy = MaxLate
BY CapsTyped DEF Wait, MaxLate

LEMMA LateTypes ==
  ASSUME TypeOK
  PROVE  /\ busy \in Nat /\ MaxBusy \in Nat /\ (at # "deaf" => busy <= MaxBusy)
         /\ Len(queue) \in Nat /\ Len(queue) <= QueueCap /\ QueueCap \in Nat \ {0}
         /\ event.age \in Nat /\ Wait(QueueCap) \in Nat
         /\ \A k \in 1..Len(queue) :
              /\ queue[k].age \in Nat
              /\ Wait(QueueCap - k) \in Nat
              /\ Wait(QueueCap - k + 1) = Wait(QueueCap - k) + MaxBusy
<1>1. busy \in Nat /\ MaxBusy \in Nat /\ (at # "deaf" => busy <= MaxBusy)
  BY CapsTyped DEF TypeOK
<1>2. Len(queue) \in Nat /\ Len(queue) <= QueueCap /\ QueueCap \in Nat \ {0} /\ queue \in Seq(Event)
  BY CapsTyped DEF TypeOK
<1>3. event.age \in Nat
  BY DEF TypeOK, Event
<1>4. Wait(QueueCap) \in Nat
  BY <1>2, WaitStep
<1>5. ASSUME NEW k \in 1..Len(queue)
      PROVE  /\ queue[k].age \in Nat
             /\ Wait(QueueCap - k) \in Nat
             /\ Wait(QueueCap - k + 1) = Wait(QueueCap - k) + MaxBusy
  <2>1. queue[k] \in Event
    BY <1>2
  <2>2. queue[k].age \in Nat
    BY <2>1 DEF Event
  <2>3. QueueCap - k \in Nat
    BY <1>2
  <2>4. QED
    BY <2>2, <2>3, WaitStep
<1>6. QED
  BY <1>1, <1>2, <1>3, <1>4, <1>5

\* Every step keeps to it.
LEMMA LateStep == TypeOK /\ TypeOK' /\ LateInv /\ [Next]_vars => LateInv'
<1> SUFFICES ASSUME TypeOK, TypeOK', LateInv, [Next]_vars PROVE LateInv'
  OBVIOUS
<1>1. CASE UNCHANGED <<at, queue, event, busy, todo>>
  BY <1>1 DEF LateInv, InHand
<1>2. CASE Publish
  <2>1. CASE at = "deaf"
    BY <1>1, <1>2, <2>1 DEF Publish
  <2>2. CASE at # "deaf"
    <3>1. PICK e : queue' = Append(queue, e) /\ e.age = 0
      BY <1>2, <2>2 DEF Publish
    <3>2. Len(queue') = Len(queue) + 1 /\ queue'[Len(queue) + 1].age = 0
          /\ \A k \in 1..Len(queue) : queue'[k] = queue[k]
      BY <3>1 DEF TypeOK
    <3>3. Wait(QueueCap - (Len(queue) + 1)) >= 0 /\ Wait(QueueCap - (Len(queue) + 1) + 1) >= 0
          /\ Wait(QueueCap - (Len(queue) + 1)) \in Int
      <4>1. Len(queue') <= QueueCap
        BY DEF TypeOK
      <4>2. PICK n \in Nat : n = QueueCap - (Len(queue) + 1)
        BY <3>2, <4>1, LateTypes
      <4>3. Wait(n) >= 0 /\ Wait(n + 1) >= 0 /\ Wait(n) \in Int
        BY WaitStep
      <4>4. QED
        BY <4>2, <4>3
    <3>4. UNCHANGED <<at, event, busy, todo>>
      BY <1>2 DEF Publish
    <3>5. ASSUME NEW k \in 1..Len(queue')
          PROVE  queue'[k].age <= IF InHand THEN Wait(QueueCap - k) + busy
                                  ELSE Wait(QueueCap - k + 1)
      <4>1. CASE k \in 1..Len(queue)
        BY <3>2, <4>1 DEF LateInv
      <4>2. CASE k = Len(queue) + 1
        BY <3>2, <3>3, <4>2, LateTypes
      <4>3. QED
        BY <3>2, <4>1, <4>2, LateTypes
    <3>6. QED
      BY <2>2, <3>4, <3>5 DEF LateInv, InHand
  <2>3. QED
    BY <2>1, <2>2
<1>3. CASE TakeEvent
  <2>1. /\ at' = "capture" /\ queue' = Tail(queue) /\ event' = queue[1] /\ todo' = todo
        /\ busy' = busy /\ at = "idle" /\ todo = {} /\ queue # <<>>
    BY <1>3 DEF TakeEvent, LateInv, TypeOK
  <2>2. Len(queue') = Len(queue) - 1 /\ \A k \in 1..Len(queue') : queue'[k] = queue[k + 1]
    BY <2>1 DEF TypeOK
  <2>3. Len(queue) >= 1
    BY <2>1 DEF TypeOK
  <2>4. event'.age <= Wait(QueueCap) + busy
    <3>1. queue[1].age <= Wait(QueueCap - 1 + 1) /\ QueueCap - 1 + 1 = QueueCap
      BY <2>1, <2>3, LateTypes DEF LateInv, InHand
    <3>2. queue[1].age <= Wait(QueueCap)
      BY <3>1
    <3>3. QED
      BY <2>1, <2>3, <3>2, LateTypes
  <2>5. ASSUME NEW k \in 1..Len(queue')
        PROVE  queue'[k].age <= Wait(QueueCap - k) + busy
    <3>1. k + 1 \in 1..Len(queue) /\ QueueCap - (k + 1) + 1 = QueueCap - k
      BY <2>2, <2>3, LateTypes
    <3>2. queue[k + 1].age <= Wait(QueueCap - (k + 1) + 1)
      BY <2>1, <3>1 DEF LateInv, InHand
    <3>3. queue'[k].age <= Wait(QueueCap - k) /\ Wait(QueueCap - k) \in Nat
          /\ queue'[k].age \in Nat
      BY <2>2, <3>1, <3>2, LateTypes
    <3>4. QED
      BY <3>3, LateTypes
  <2>6. QED
    BY <2>1, <2>4, <2>5 DEF LateInv, InHand
<1>4. CASE EndCapture
  BY <1>4 DEF EndCapture, LateInv, InHand
<1>5. CASE EndEvent
  <2>1. /\ at' = "idle" /\ event' = NoEvent /\ todo' = {} /\ UNCHANGED queue /\ at = "rules"
    BY <1>5 DEF EndEvent
  <2>2. ASSUME NEW k \in 1..Len(queue)
        PROVE  queue[k].age <= Wait(QueueCap - k + 1)
    <3>1. queue[k].age <= Wait(QueueCap - k) + busy
      BY <2>1 DEF LateInv, InHand
    <3>2. QED
      BY <2>1, <3>1, LateTypes
  <2>3. QED
    BY <2>1, <2>2 DEF LateInv, InHand
<1>6. CASE Restart \/ LoseConnection
  <2>1. /\ queue' = <<>> /\ event' = NoEvent /\ at' \in {"idle", "deaf"} /\ todo' = {}
    BY <1>6 DEF Restart, LoseConnection, LateInv
  <2>2. QED
    BY <2>1 DEF LateInv, InHand
<1>7. CASE Reconnect
  <2>1. /\ queue' = <<>> /\ event' = event /\ at' = "idle" /\ todo' = {} /\ at = "deaf"
    BY <1>7 DEF Reconnect, LateInv
  <2>2. QED
    BY <2>1 DEF LateInv, InHand
<1>8. ASSUME NEW r \in Rule, TryRule(r) \/ FailRule(r)
      PROVE  LateInv'
  <2>1. at \in {"rules", "act"} /\ at' \in {"rules", "act"} /\ UNCHANGED <<queue, event, busy>>
    BY <1>8 DEF TryRule, SkipRule, StartCount, KeepCounting, Cool, Fire, FireUnchecked, Deliver,
            FailRule, Trying, Passes, Due, Acting
  <2>2. QED
    BY <2>1 DEF LateInv, InHand
<1>9. CASE Tick
  <2>1. /\ UNCHANGED <<at, todo>> /\ Len(queue') = Len(queue)
        /\ \A k \in 1..Len(queue) : queue[k] \in Event /\ queue'[k] = Delayed(queue[k])
        /\ (InHand => busy' = busy + 1 /\ event' = Delayed(event))
        /\ (~InHand => queue = <<>> /\ event' = event)
    BY <1>9, QueueDelayed DEF Tick, InHand, LateInv, TypeOK
  <2>2. CASE ~InHand
    BY <2>1, <2>2 DEF LateInv, InHand
  <2>3. CASE InHand
    <3>1. event'.age = event.age + 1
      BY <2>1, <2>3 DEF Delayed, TypeOK, Event
    <3>2. \A k \in 1..Len(queue) : queue'[k].age = queue[k].age + 1
      BY <2>1 DEF Delayed, Event
    <3>3. ASSUME NEW k \in 1..Len(queue)
          PROVE  queue'[k].age <= Wait(QueueCap - k) + (busy + 1)
      <4>1. queue[k].age <= Wait(QueueCap - k) + busy
        BY <2>3 DEF LateInv
      <4>2. queue[k].age \in Nat /\ Wait(QueueCap - k) \in Nat /\ busy \in Nat
        BY LateTypes
      <4>3. QED
        BY <3>2, <4>1, <4>2
    <3>4. event'.age <= Wait(QueueCap) + (busy + 1)
      BY <2>3, <3>1, LateTypes DEF LateInv
    <3>5. QED
      BY <2>1, <2>3, <3>3, <3>4 DEF LateInv, InHand
  <2>4. QED
    BY <2>2, <2>3
<1>10. QED
  BY <1>1, <1>2, <1>3, <1>4, <1>5, <1>6, <1>7, <1>8, <1>9
  DEF Next, Handle, vars, SwitchRule, PassHour, RefreshRules, RefreshFails

\* A count that goes on for rule r.
Counting(r) == first[r] # NotCounting /\ last[r] <= Gap

\* A detection still to be tried was published after the count began, or the
\* presence it belongs to was.
Fits(e, r) ==
  r \in e.rules =>
    quiet[r] <= e.age /\ (Counting(r) => e.span[r] + e.age >= first[r])

\* The presence at the camera began before the count.
SpanInv(r) ==
  /\ \A k \in 1..Len(queue) : Fits(queue[k], r)
  /\ at = "capture" \/ (at \in {"rules", "act"} /\ r \in todo) => Fits(event, r)
  /\ Counting(r) => quiet[r] <= last[r] + MaxLate /\ span[r] >= first[r]

LEMMA SpanTypes ==
  ASSUME TypeOK, NEW r \in Rule
  PROVE  /\ first[r] \in Nat \cup {NotCounting} /\ last[r] \in 0..GapCap
         /\ quiet[r] \in 0..LullCap /\ span[r] \in Nat /\ event.age \in Nat /\ event.span[r] \in Nat
         /\ \A k \in 1..Len(queue) : queue[k].age \in Nat /\ queue[k].span[r] \in Nat
         /\ MinDuration[r] \in Nat
<1>1. \A k \in 1..Len(queue) : queue[k] \in Event
  BY DEF TypeOK
<1>2. \A k \in 1..Len(queue) : queue[k].age \in Nat /\ queue[k].span[r] \in Nat
  BY <1>1 DEF Event
<1>3. event.age \in Nat /\ event.span[r] \in Nat
  BY DEF TypeOK, Event
<1>4. /\ first[r] \in Nat \cup {NotCounting} /\ last[r] \in 0..GapCap
      /\ quiet[r] \in 0..LullCap /\ span[r] \in Nat
  BY DEF TypeOK
<1>5. QED
  BY <1>2, <1>3, <1>4, RuleAssumption

\* A step that changes neither the events nor what the camera and the bridge
\* know of the rule, except that the rule may have been tried.
LEMMA SpanUntouched ==
  ASSUME NEW r \in Rule, SpanInv(r),
         UNCHANGED <<queue, event, quiet, span>>, first'[r] = first[r], last'[r] = last[r],
         at' = at \/ (at \in {"rules", "act"} /\ at' \in {"rules", "act"}),
         r \in todo' => r \in todo
  PROVE  SpanInv(r)'
<1>1. \A e : Fits(e, r)' <=> Fits(e, r)
  BY DEF Fits, Counting
<1>2. QED
  BY <1>1 DEF SpanInv, Counting, Fits

\* An event in hand is not later than MaxLate.
LEMMA HandLate ==
  ASSUME TypeOK, LateInv, InHand
  PROVE  event.age <= MaxLate
<1>1. at # "deaf"
  BY DEF InHand
<1>2. event.age <= Wait(QueueCap) + busy /\ busy <= MaxBusy
  BY <1>1, LateTypes DEF LateInv
<1>3. QED
  BY <1>2, LateTypes, LateBound

\* The detection that a rule is tried for ends the silence.
LEMMA SpanTried ==
  ASSUME TypeOK, LateInv, NEW r \in Rule, SpanInv(r), Passes(r),
         UNCHANGED <<queue, event, quiet, span>>, last'[r] = 0, last[r] <= Gap,
         first'[r] = first[r], at' \in {"rules", "act"}
  PROVE  SpanInv(r)'
<1>1. at = "rules" /\ r \in todo /\ r \in event.rules
  BY DEF Passes, Trying
<1>2. quiet[r] <= event.age /\ event.age <= MaxLate /\ Fits(event, r)
  BY <1>1, HandLate DEF SpanInv, Fits, InHand
<1>3. quiet[r] <= 0 + MaxLate
  BY <1>2, SpanTypes, CapsTyped
<1>4. Counting(r)' <=> Counting(r)
  BY CapsTyped DEF Counting
<1>5. \A e : Fits(e, r) => Fits(e, r)'
  BY <1>4 DEF Fits
<1>6. QED
  BY <1>2, <1>3, <1>4, <1>5 DEF SpanInv

\* A count that starts has lasted no time.
LEMMA SpanStarted ==
  ASSUME TypeOK, LateInv, NEW r \in Rule, SpanInv(r), StartCount(r)
  PROVE  SpanInv(r)'
<1>1. /\ at = "rules" /\ r \in todo /\ r \in event.rules /\ at' = at /\ r \notin todo'
      /\ first'[r] = 0 /\ last'[r] = 0 /\ UNCHANGED <<queue, event, quiet, span>>
  BY DEF StartCount, Passes, Trying, NextRule, cameraVars, TypeOK
<1>2. quiet[r] <= event.age /\ event.age <= MaxLate
  BY <1>1, HandLate DEF SpanInv, Fits, InHand
<1>3. quiet[r] <= 0 + MaxLate
  BY <1>2, SpanTypes, CapsTyped
<1>4. ASSUME NEW k \in 1..Len(queue)
      PROVE  Fits(queue[k], r)'
  <2>1. r \in queue[k].rules => quiet[r] <= queue[k].age
    BY DEF SpanInv, Fits
  <2>2. queue[k].span[r] + queue[k].age >= 0
    BY SpanTypes
  <2>3. QED
    BY <1>1, <2>1, <2>2 DEF Fits
<1>5. span[r] >= 0
  BY SpanTypes
<1>6. QED
  BY <1>1, <1>3, <1>4, <1>5 DEF SpanInv

\* A count that is not there is not shorter than anything.
LEMMA SpanForgotten ==
  ASSUME NEW r \in Rule, SpanInv(r), UNCHANGED <<queue, event, quiet, span>>,
         first'[r] = NotCounting, r \notin todo', at' = "rules"
  PROVE  SpanInv(r)'
<1>1. \A e : Fits(e, r) => Fits(e, r)'
  BY DEF Fits, Counting
<1>2. QED
  BY <1>1 DEF SpanInv, Counting

\* The loop tries one rule and leaves the others alone.
LEMMA SpanLoop ==
  ASSUME TypeOK, LateInv, NEW r \in Rule, SpanInv(r), NEW s \in Rule, TryRule(s) \/ FailRule(s)
  PROVE  SpanInv(r)'
<1>1. /\ at \in {"rules", "act"} /\ at' \in {"rules", "act"}
      /\ UNCHANGED <<queue, event, quiet, span>> /\ (r \in todo' => r \in todo)
  BY DEF TryRule, SkipRule, StartCount, KeepCounting, Cool, Fire, FireUnchecked, Deliver,
         FailRule, Trying, Passes, Due, Acting, NextRule, cameraVars
<1>2. CASE r # s
  <2>1. first'[r] = first[r] /\ last'[r] = last[r]
    BY <1>2
    DEF TypeOK, TryRule, SkipRule, StartCount, KeepCounting, Cool, Fire, FireUnchecked, Deliver,
        FailRule, Seen, countVars
  <2>2. QED
    BY <1>1, <2>1, SpanUntouched
<1>3. CASE r = s
  <2>1. CASE SkipRule(r) \/ FailRule(r)
    BY <1>1, <2>1, SpanUntouched DEF SkipRule, FailRule, countVars
  <2>2. CASE StartCount(r)
    BY <2>2, SpanStarted
  <2>3. CASE KeepCounting(r) \/ Cool(r) \/ Fire(r) \/ FireUnchecked(r)
    <3>1. Passes(r) /\ first' = first /\ Seen(r) /\ (MinDuration[r] > 0 => last[r] <= Gap)
      BY <2>3 DEF KeepCounting, Cool, Fire, FireUnchecked, Due
    <3>2. CASE MinDuration[r] > 0
      <4>1. last'[r] = 0
        BY <3>1, <3>2 DEF Seen, TypeOK
      <4>2. QED
        BY <1>1, <3>1, <3>2, <4>1, SpanTried
    <3>3. CASE ~(MinDuration[r] > 0)
      <4>1. last' = last
        BY <3>1, <3>3 DEF Seen
      <4>2. QED
        BY <1>1, <3>1, <4>1, SpanUntouched
    <3>4. QED
      BY <3>2, <3>3
  <2>4. CASE Deliver(r)
    <3>1. r \notin todo' /\ at' = "rules" /\ last' = last
      BY <2>4 DEF Deliver, NextRule
    <3>2. CASE r \in Immediate
      <4>1. first'[r] = NotCounting
        BY <2>4, <3>2 DEF Deliver, TypeOK
      <4>2. QED
        BY <1>1, <3>1, <4>1, SpanForgotten
    <3>3. CASE r \notin Immediate
      <4>1. first' = first
        BY <2>4, <3>3 DEF Deliver
      <4>2. QED
        BY <1>1, <3>1, <4>1, SpanUntouched
    <3>4. QED
      BY <3>2, <3>3
  <2>5. QED
    BY <1>3, <2>1, <2>2, <2>3, <2>4 DEF TryRule
<1>4. QED
  BY <1>2, <1>3

\* A detection that is published goes on with the presence.
LEMMA SpanPublished ==
  ASSUME TypeOK, LateInv, NEW r \in Rule, SpanInv(r), Publish
  PROVE  SpanInv(r)'
<1>0. PICK matched \in SUBSET Rule :
        /\ queue' = IF at = "deaf" THEN queue
                    ELSE Append(queue, [rules |-> matched, age |-> 0, span |->
                           [q \in Rule |-> IF q \in matched THEN span[q] ELSE 0]])
        /\ quiet' = [q \in Rule |-> IF q \in matched THEN 0 ELSE quiet[q]]
  BY DEF Publish
<1>1. PICK e :
        /\ e = [rules |-> matched, age |-> 0, span |->
                 [q \in Rule |-> IF q \in matched THEN span[q] ELSE 0]]
        /\ queue' = IF at = "deaf" THEN queue ELSE Append(queue, e)
  BY <1>0
<1>2. UNCHANGED <<span, at, event, todo, first, last>> /\ (Counting(r)' <=> Counting(r))
  BY DEF Publish, countVars, Counting
<1>3. quiet'[r] <= quiet[r] /\ quiet'[r] \in Nat /\ (r \in matched => quiet'[r] = 0)
  BY <1>0, SpanTypes DEF TypeOK
<1>4. ASSUME NEW f \in Event, Fits(f, r)
      PROVE  Fits(f, r)'
  <2>1. r \in f.rules => quiet'[r] <= f.age
    BY <1>3, <1>4, SpanTypes DEF Fits, Event
  <2>2. QED
    BY <1>2, <1>4, <2>1 DEF Fits
<1>5. PICK f : f = e
  OBVIOUS
<1>6. Fits(f, r)'
  <2>1. r \in f.rules => r \in matched /\ f.span[r] = span[r] /\ f.age = 0
    BY <1>1, <1>5
  <2>2. Counting(r) => span[r] + 0 >= first[r]
    BY SpanTypes DEF SpanInv, Counting
  <2>3. QED
    BY <1>2, <1>3, <2>1, <2>2 DEF Fits
<1>7. ASSUME NEW k \in 1..Len(queue')
      PROVE  \E g : g = queue'[k] /\ Fits(g, r)'
  <2>1. queue \in Seq(Event)
    BY DEF TypeOK
  <2>2. (k \in 1..Len(queue) /\ queue'[k] = queue[k]) \/ queue'[k] = f
    BY <1>1, <1>5, <2>1
  <2>3. CASE k \in 1..Len(queue) /\ queue'[k] = queue[k]
    <3>1. PICK g : g = queue[k]
      OBVIOUS
    <3>2. g \in Event /\ Fits(g, r)
      BY <2>1, <2>3, <3>1 DEF SpanInv
    <3>3. QED
      BY <1>4, <2>3, <3>1, <3>2
  <2>4. CASE queue'[k] = f
    BY <1>6, <2>4
  <2>5. QED
    BY <2>2, <2>3, <2>4
<1>8. Counting(r) => quiet'[r] <= last[r] + MaxLate /\ span[r] >= first[r]
  <2>1. Counting(r) => quiet[r] <= last[r] + MaxLate /\ span[r] >= first[r]
    BY DEF SpanInv
  <2>2. last[r] + MaxLate \in Int
    BY SpanTypes, CapsTyped
  <2>3. QED
    BY <1>3, <2>1, <2>2, SpanTypes
<1>9. \E g : g = event' /\ (at = "capture" \/ (at \in {"rules", "act"} /\ r \in todo) => Fits(g, r)')
  <2>1. PICK g : g = event
    OBVIOUS
  <2>2. g \in Event /\ event' = g
    BY <1>2, <2>1 DEF TypeOK
  <2>3. QED
    BY <1>4, <2>1, <2>2 DEF SpanInv
<1>10. QED
  BY <1>2, <1>7, <1>8, <1>9 DEF SpanInv

\* The bridge takes the detection that has waited longest.
LEMMA SpanTaken ==
  ASSUME TypeOK, NEW r \in Rule, SpanInv(r), TakeEvent
  PROVE  SpanInv(r)'
<1>1. /\ queue' = Tail(queue) /\ event' = queue[1] /\ at' = "capture" /\ queue # <<>>
      /\ UNCHANGED <<quiet, span, first, last>>
  BY DEF TakeEvent, cameraVars, countVars, TypeOK
<1>2. Len(queue) >= 1 /\ Len(queue') = Len(queue) - 1 /\ Len(queue) \in Nat
      /\ \A k \in 1..Len(queue') : queue'[k] = queue[k + 1]
  BY <1>1 DEF TypeOK
<1>3. \A e : Fits(e, r)' <=> Fits(e, r)
  BY <1>1 DEF Fits, Counting
<1>4. Fits(queue[1], r) /\ \A k \in 1..Len(queue') : Fits(queue[k + 1], r)
  BY <1>2 DEF SpanInv
<1>5. QED
  BY <1>1, <1>2, <1>3, <1>4 DEF SpanInv, Counting

\* Time makes the detections later, the silences and the counts longer, and the
\* presence too as long as the silence is not.
LEMMA SpanTick ==
  ASSUME TypeOK, LateInv, NEW r \in Rule, SpanInv(r), Tick
  PROVE  SpanInv(r)'
<1>1. /\ quiet'[r] = Older(quiet[r], LullCap) /\ last'[r] = Older(last[r], GapCap)
      /\ span'[r] = IF quiet[r] < Lull THEN Older(span[r], MinDuration[r]) ELSE 0
      /\ first'[r] = IF first[r] = NotCounting THEN NotCounting ELSE Older(first[r], MinDuration[r])
      /\ UNCHANGED <<at, todo>>
  BY DEF Tick
<1>2. quiet'[r] <= quiet[r] + 1 /\ quiet'[r] \in Nat
  BY <1>1, SpanTypes, CapsTyped DEF Older
<1>3. ASSUME Counting(r)'
      PROVE  /\ Counting(r) /\ first[r] \in Nat /\ last'[r] = last[r] + 1
             /\ first'[r] = Older(first[r], MinDuration[r])
  BY <1>1, <1>3, SpanTypes, CapsTyped DEF Counting, Older, GapCap, NotCounting
<1>4. ASSUME NEW f \in Event, Fits(f, r)
      PROVE  Fits(Delayed(f), r)'
  <2>1. /\ Delayed(f).rules = f.rules /\ Delayed(f).span = f.span /\ Delayed(f).age = f.age + 1
        /\ f.age \in Nat /\ f.span[r] \in Nat
    BY DEF Delayed, Event
  <2>2. ASSUME r \in f.rules
        PROVE  quiet'[r] <= f.age + 1
    BY <1>2, <1>4, <2>1, <2>2, SpanTypes DEF Fits
  <2>3. ASSUME r \in f.rules, Counting(r)'
        PROVE  f.span[r] + (f.age + 1) >= first'[r]
    <3>1. f.span[r] + f.age >= first[r] /\ first[r] \in Nat
      BY <1>3, <1>4, <2>3 DEF Fits
    <3>2. first'[r] <= first[r] + 1 /\ first'[r] \in Nat
      BY <1>3, <2>3, SpanTypes DEF Older
    <3>3. QED
      BY <2>1, <3>1, <3>2
  <2>4. QED
    BY <2>1, <2>2, <2>3 DEF Fits
<1>5. /\ Len(queue') = Len(queue)
      /\ \A k \in 1..Len(queue) : queue[k] \in Event /\ queue'[k] = Delayed(queue[k])
  BY QueueDelayed DEF Tick
<1>6. InHand => event' = Delayed(event) /\ event \in Event
  BY DEF Tick, InHand, TypeOK
<1>7. ASSUME Counting(r)'
      PROVE  quiet'[r] <= last'[r] + MaxLate /\ span'[r] >= first'[r]
  <2>1. /\ quiet[r] <= last[r] + MaxLate /\ span[r] >= first[r] /\ first[r] \in Nat
        /\ last'[r] = last[r] + 1 /\ last'[r] <= Gap
        /\ first'[r] = Older(first[r], MinDuration[r])
    BY <1>3, <1>7 DEF SpanInv, Counting
  <2>2. quiet[r] < Lull
    BY <2>1, SpanTypes, CapsTyped DEF Lull
  <2>3. span'[r] = Older(span[r], MinDuration[r])
    BY <1>1, <2>2
  <2>4. Older(first[r], MinDuration[r]) <= Older(span[r], MinDuration[r])
    BY <2>1, SpanTypes DEF Older
  <2>5. span'[r] >= first'[r]
    <3>1. Older(first[r], MinDuration[r]) \in Nat /\ Older(span[r], MinDuration[r]) \in Nat
      BY <2>1, SpanTypes DEF Older
    <3>2. QED
      BY <2>1, <2>3, <2>4, <3>1
  <2>6. quiet'[r] <= last'[r] + MaxLate
    BY <1>2, <2>1, SpanTypes, CapsTyped
  <2>7. QED
    BY <2>5, <2>6
<1>8. ASSUME NEW k \in 1..Len(queue')
      PROVE  \E g : g = queue'[k] /\ Fits(g, r)'
  <2>1. PICK f : f = queue[k]
    OBVIOUS
  <2>2. f \in Event /\ Fits(f, r) /\ queue'[k] = Delayed(f)
    BY <1>5, <2>1 DEF SpanInv
  <2>3. PICK g : g = Delayed(f)
    OBVIOUS
  <2>4. Fits(g, r)'
    BY <1>4, <2>2, <2>3
  <2>5. QED
    BY <2>2, <2>3, <2>4
<1>9. \E g : g = event' /\ (at = "capture" \/ (at \in {"rules", "act"} /\ r \in todo) => Fits(g, r)')
  <2>1. CASE at = "capture" \/ (at \in {"rules", "act"} /\ r \in todo)
    <3>1. PICK f : f = event
      OBVIOUS
    <3>2. f \in Event /\ Fits(f, r) /\ event' = Delayed(f)
      BY <1>6, <2>1, <3>1 DEF SpanInv, InHand
    <3>3. PICK g : g = Delayed(f)
      OBVIOUS
    <3>4. QED
      BY <1>4, <3>2, <3>3
  <2>2. QED
    BY <2>1
<1>10. QED
  BY <1>1, <1>7, <1>8, <1>9 DEF SpanInv

\* Every step keeps to it.
LEMMA SpanStep ==
  ASSUME TypeOK, LateInv, NEW r \in Rule, SpanInv(r), [Next]_vars
  PROVE  SpanInv(r)'
<1>1. CASE Publish
  BY <1>1, SpanPublished
<1>2. CASE TakeEvent
  BY <1>2, SpanTaken
<1>3. CASE EndCapture
  <2>1. UNCHANGED <<queue, event, quiet, span, first, last>> /\ at = "capture" /\ at' = "rules"
    BY <1>3 DEF EndCapture, cameraVars, countVars
  <2>2. \A e : Fits(e, r)' <=> Fits(e, r)
    BY <2>1 DEF Fits, Counting
  <2>3. QED
    BY <2>1, <2>2 DEF SpanInv, Counting
<1>4. ASSUME NEW s \in Rule, TryRule(s) \/ FailRule(s)
      PROVE  SpanInv(r)'
  BY <1>4, SpanLoop
<1>5. CASE EndEvent \/ Reconnect
  <2>1. UNCHANGED <<queue, quiet, span, first, last>> /\ at' = "idle"
    BY <1>5 DEF EndEvent, Reconnect, cameraVars, countVars
  <2>2. \A e : Fits(e, r)' <=> Fits(e, r)
    BY <2>1 DEF Fits, Counting
  <2>3. QED
    BY <2>1, <2>2 DEF SpanInv, Counting
<1>6. CASE LoseConnection
  <2>1. queue' = <<>> /\ UNCHANGED <<quiet, span, first, last>> /\ at' = "deaf"
    BY <1>6 DEF LoseConnection, cameraVars, countVars
  <2>2. QED
    BY <2>1 DEF SpanInv, Counting
<1>7. CASE Restart
  <2>1. queue' = <<>> /\ first'[r] = NotCounting /\ at' = "idle"
    BY <1>7 DEF Restart
  <2>2. QED
    BY <2>1 DEF SpanInv, Counting
<1>8. CASE Tick
  BY <1>8, SpanTick
<1>9. CASE UNCHANGED <<queue, quiet, span, first, last, at, event, todo>>
  BY <1>9, SpanUntouched
<1>10. QED
  BY <1>1, <1>2, <1>3, <1>4, <1>5, <1>6, <1>7, <1>8, <1>9
  DEF Next, Handle, vars, SwitchRule, PassHour, RefreshRules, RefreshFails, cameraVars, countVars

PresenceInv == TypeOK /\ LateInv /\ \A r \in Rule : SpanInv(r)

LEMMA PresenceStep == PresenceInv /\ [Next]_vars => PresenceInv'
BY RulesStep, LateStep, SpanStep DEF PresenceInv

\* At the start nothing is waiting and nothing is counted.
LEMMA PresenceInit == Init => PresenceInv
<1>1. Init => LateInv
  BY DEF Init, LateInv, InHand
<1>2. Init => \A r \in Rule : SpanInv(r)
  BY DEF Init, SpanInv, Counting
<1>3. QED
  BY <1>1, <1>2, RulesInit DEF PresenceInv

\* For every rule, whatever the photos, failures, lost connections and restarts:
\* a rule fires only when detections that match it have been published for its
\* minimum duration, less what the latest may be late, and without a silence
\* longer than the bridge may take for one of Gap.
THEOREM FiresOnlyAfterPresence == Spec => FiresAfterPresence
<1>1. ASSUME PresenceInv, NEW r \in Rule, Due(r)
      PROVE  event.span[r] + MaxLate >= MinDuration[r]
  <2>1. TypeOK /\ LateInv /\ SpanInv(r)
    BY <1>1 DEF PresenceInv
  <2>2. at = "rules" /\ r \in todo /\ r \in event.rules
    BY <1>1 DEF Due, Passes, Trying
  <2>3. event.age <= MaxLate /\ event.age \in Nat /\ event.span[r] \in Nat
        /\ MaxLate \in Nat /\ MinDuration[r] \in Nat
    BY <2>1, <2>2, HandLate, SpanTypes, CapsTyped DEF InHand
  <2>4. CASE MinDuration[r] > 0
    <3>1. last[r] <= Gap /\ Counted(r) >= MinDuration[r]
      BY <1>1, <2>4 DEF Due
    <3>2. first[r] # NotCounting /\ first[r] >= MinDuration[r]
      BY <2>3, <2>4, <3>1 DEF Counted
    <3>3. event.span[r] + event.age >= first[r]
      BY <2>1, <2>2, <3>1, <3>2 DEF SpanInv, Fits, Counting
    <3>4. first[r] \in Nat
      BY <2>1, <3>2, SpanTypes
    <3>5. QED
      BY <2>3, <3>2, <3>3, <3>4
  <2>5. CASE ~(MinDuration[r] > 0)
    BY <2>3, <2>5
  <2>6. QED
    BY <2>4, <2>5
<1>2. ASSUME PresenceInv, NEW r \in Rule, Fire(r) \/ FireUnchecked(r)
      PROVE  event.span[r] + MaxLate >= MinDuration[r]
  BY <1>1, <1>2 DEF Fire, FireUnchecked
<1>3. PresenceInv =>
        [\A r \in Rule : Fire(r) \/ FireUnchecked(r) =>
           event.span[r] + MaxLate >= MinDuration[r]]_vars
  BY <1>2
<1>4. QED
  BY <1>3, PresenceInit, PresenceStep, PTL DEF Spec, FiresAfterPresence
=============================================================================
