----------------------------- MODULE RuleEngine -----------------------------
(***************************************************************************)
(* The notification bridge: one thread that takes the events of a device   *)
(* from Redis, one at a time, captures a photo, and tries every cached     *)
(* notification rule in turn; and a thread that refreshes the cache.       *)
(* What a rule that fires does to incidents is the module Incidents.       *)
(*                                                                         *)
(* Timestamps are represented by the time elapsed since them, saturated    *)
(* where no comparison tells more; a Redis key with a TTL by the time it   *)
(* has left.  The time of day runs on its own, slower, clock.              *)
(***************************************************************************)
EXTENDS Integers, Sequences

CONSTANTS
  NumRules,       \* number of notification rules, in the order of their names
  MinDuration,    \* min_duration_seconds of each rule (0 = none)
  Cooldown,       \* cooldown_seconds of each rule (0 = none)
  Immediate,      \* the rules with send_immediate
  Validity,       \* the first and last hours between valid_from and valid_until
  Timetabled,     \* the rules with a schedule
  Blocks,         \* the <<start, end>> blocks of each rule on each day
  Days,           \* bound on the days
  DayLength,      \* hours of a day
  Gap,            \* the silence that ends a presence (3 s)
  RefreshPeriod,  \* period of the refresh of the rule cache (30 s)
  MaxBusy,        \* bound on the time an event is worked on
  QueueCap,       \* bound on the events waiting
  Retry,          \* the pause after an error of the connection to Redis (5 s)
  MaxFaults       \* bound on the failures and restarts

Rule == 1..NumRules
Hour == 0..(Days * DayLength - 1)
Block == (0..DayLength) \X (0..DayLength)

ASSUME RuleAssumption ==
  /\ NumRules \in Nat \ {0}
  /\ MinDuration \in [Rule -> Nat] /\ Cooldown \in [Rule -> Nat]
  /\ Immediate \subseteq Rule /\ Timetabled \subseteq Rule

ASSUME TimeAssumption ==
  /\ Days \in Nat \ {0} /\ DayLength \in Nat \ {0}
  /\ Validity \in [Rule -> Hour \X Hour]
  /\ Blocks \in [Rule -> [0..(Days - 1) -> SUBSET Block]]
  /\ Gap \in Nat /\ RefreshPeriod \in Nat \ {0} /\ MaxBusy \in Nat
  /\ QueueCap \in Nat \ {0} /\ MaxFaults \in Nat /\ Retry \in Nat

NotCounting == -1

\* The longest a detection can wait until its rules have been tried: for the
\* events before it in the queue, and for itself.
MaxLate == (QueueCap + 1) * MaxBusy

\* The longest silence of the camera that the bridge may take for one of Gap.
Lull == Gap + MaxLate

\* Bounds of the elapsed times: one more than what they are compared with.
GapCap == Gap + 1
LullCap == Lull + 1
StaleBound == (1 + MaxFaults) * RefreshPeriod + MaxBusy
StaleCap == StaleBound + 1
Older(age, cap) == IF age < cap THEN age + 1 ELSE age

-----------------------------------------------------------------------------

VARIABLES
  active,         \* the rules with is_active, in the database
  offFor,         \* time since a rule was switched off
  cached,         \* _rules_cache
  sinceRefresh,   \* time since the cache was refreshed
  hour,           \* the time of the day, counted from the first day
  queue,          \* events published and not yet taken
  quiet,          \* time since the camera published an event that matches each rule
  span,           \* length of the presence each rule sees at the camera: of the
                  \* detections published without a silence longer than Lull
  at,             \* where the bridge is in _handle_event
  event,          \* the event it works on
  todo,           \* the rules left to try for it
  busy,           \* time spent on it, or on the pause
  first,          \* _duration_first_seen: the time since it, or NotCounting
  last,           \* _duration_last_seen: the time since it
  cooling,        \* notif:cooldown: what is left of the key's TTL
  faults          \* failures and restarts so far

ruleVars == <<active, offFor, cached, sinceRefresh>>
cameraVars == <<hour, quiet, span>>
countVars == <<first, last, cooling>>
vars == <<active, offFor, cached, sinceRefresh, hour, queue, quiet, span, at, event, todo,
          busy, first, last, cooling, faults>>

\* An event is the set of rules whose device, code, trigger, object count and
\* confidence it meets, with the presence it is the latest detection of and the
\* time since it was published.
Event == [rules : SUBSET Rule, span : [Rule -> Nat], age : Nat]
NoEvent == [rules |-> {}, span |-> [r \in Rule |-> 0], age |-> 0]

Init ==
  /\ active \in SUBSET Rule /\ cached = active
  /\ offFor = [r \in Rule |-> IF r \in active THEN 0 ELSE StaleCap]
  /\ sinceRefresh = 0
  /\ hour = 0
  /\ queue = <<>>
  /\ quiet = [r \in Rule |-> LullCap] /\ span = [r \in Rule |-> 0]
  /\ at = "idle" /\ event = NoEvent /\ todo = {} /\ busy = 0
  /\ first = [r \in Rule |-> NotCounting]
  /\ last = [r \in Rule |-> GapCap]
  /\ cooling = [r \in Rule |-> 0]
  /\ faults = 0

-----------------------------------------------------------------------------
(* The camera, the administrator, and the refresh of the cache.            *)

\* Nobody listens while the bridge is deaf: what is published then is lost.
Publish ==
  /\ at = "deaf" \/ Len(queue) < QueueCap
  /\ \E matched \in SUBSET Rule :
        /\ queue' = IF at = "deaf" THEN queue
                    ELSE Append(queue,
                           [rules |-> matched, age |-> 0, span |->
                             [r \in Rule |-> IF r \in matched THEN span[r] ELSE 0]])
        /\ quiet' = [r \in Rule |-> IF r \in matched THEN 0 ELSE quiet[r]]
  /\ UNCHANGED <<ruleVars, hour, span, at, event, todo, busy, countVars, faults>>

SwitchRule(r) ==
  /\ active' = IF r \in active THEN active \ {r} ELSE active \cup {r}
  /\ offFor' = [offFor EXCEPT ![r] = 0]
  /\ UNCHANGED <<cached, sinceRefresh, cameraVars, queue, at, event, todo, busy,
                 countVars, faults>>

\* Slips: the loop sleeps twice; rules are added to the cache and never leave it.
RefreshRulesLate ==
  /\ sinceRefresh = RefreshPeriod
  /\ cached' = active /\ sinceRefresh' = -RefreshPeriod
  /\ UNCHANGED <<active, offFor, cameraVars, queue, at, event, todo, busy, countVars, faults>>

RefreshRulesAdding ==
  /\ sinceRefresh = RefreshPeriod
  /\ cached' = cached \cup active /\ sinceRefresh' = 0
  /\ UNCHANGED <<active, offFor, cameraVars, queue, at, event, todo, busy, countVars, faults>>

RefreshRules ==
  /\ sinceRefresh = RefreshPeriod
  /\ cached' = active /\ sinceRefresh' = 0
  /\ UNCHANGED <<active, offFor, cameraVars, queue, at, event, todo, busy, countVars, faults>>

\* The query fails: the old cache stays until the next period.
RefreshFails ==
  /\ sinceRefresh = RefreshPeriod /\ faults < MaxFaults
  /\ faults' = faults + 1 /\ sinceRefresh' = 0
  /\ UNCHANGED <<active, offFor, cached, cameraVars, queue, at, event, todo, busy, countVars>>

-----------------------------------------------------------------------------
(* _handle_event *)

\* The photo is captured from the camera's RTSP stream for every event,
\* before any rule is tried.
TakeEvent ==
  /\ at = "idle" /\ queue # <<>>
  /\ event' = Head(queue) /\ queue' = Tail(queue)
  /\ at' = "capture"
  /\ UNCHANGED <<ruleVars, cameraVars, todo, busy, countVars, faults>>

\* The loop runs over the list that is the cache at this moment.
EndCapture ==
  /\ at = "capture"
  /\ at' = "rules" /\ todo' = cached
  /\ UNCHANGED <<ruleVars, cameraVars, queue, event, busy, countVars, faults>>

Trying(r) == at = "rules" /\ r \in todo /\ \A s \in todo : r <= s
NextRule(r) == todo' = todo \ {r}

InBlock(b, t) == b[1] <= t /\ t < b[2]

\* is_rule_active_now; is_active itself is true of every cached instance.
ActiveNow(r) ==
  /\ Validity[r][1] <= hour /\ hour <= Validity[r][2]
  /\ r \in Timetabled =>
       \E b \in Blocks[r][hour \div DayLength] : InBlock(b, hour % DayLength)

Passes(r) == Trying(r) /\ ActiveNow(r) /\ r \in event.rules

SkipRule(r) ==
  /\ Trying(r) /\ ~(ActiveNow(r) /\ r \in event.rules)
  /\ NextRule(r)
  /\ UNCHANGED <<ruleVars, cameraVars, queue, at, event, busy, countVars, faults>>

\* Slip: a count that runs is not started again after a silence.
StartCountOnce(r) ==
  /\ Passes(r) /\ MinDuration[r] > 0 /\ last[r] > Gap
  /\ first' = [first EXCEPT ![r] = IF @ = NotCounting THEN 0 ELSE @]
  /\ last' = [last EXCEPT ![r] = 0]
  /\ NextRule(r)
  /\ UNCHANGED <<ruleVars, cameraVars, queue, at, event, busy, cooling, faults>>

\* _check_min_duration: after a silence the count starts.
StartCount(r) ==
  /\ Passes(r) /\ MinDuration[r] > 0 /\ last[r] > Gap
  /\ first' = [first EXCEPT ![r] = 0]
  /\ last' = [last EXCEPT ![r] = 0]
  /\ NextRule(r)
  /\ UNCHANGED <<ruleVars, cameraVars, queue, at, event, busy, cooling, faults>>

\* A missing entry reads as now.
Counted(r) == IF first[r] = NotCounting THEN 0 ELSE first[r]

Due(r) ==
  /\ Passes(r)
  /\ MinDuration[r] > 0 => last[r] <= Gap /\ Counted(r) >= MinDuration[r]

Seen(r) == last' = IF MinDuration[r] > 0 THEN [last EXCEPT ![r] = 0] ELSE last

\* Slip: every detection starts the count.
KeepCountingAfresh(r) ==
  /\ Passes(r) /\ MinDuration[r] > 0
  /\ last[r] <= Gap /\ Counted(r) < MinDuration[r]
  /\ Seen(r) /\ first' = [first EXCEPT ![r] = 0]
  /\ NextRule(r)
  /\ UNCHANGED <<ruleVars, cameraVars, queue, at, event, busy, cooling, faults>>

KeepCounting(r) ==
  /\ Passes(r) /\ MinDuration[r] > 0
  /\ last[r] <= Gap /\ Counted(r) < MinDuration[r]
  /\ Seen(r)
  /\ NextRule(r)
  /\ UNCHANGED <<ruleVars, cameraVars, queue, at, event, busy, first, cooling, faults>>

\* _check_cooldown: the key of an earlier notification is still there.
Cool(r) ==
  /\ Due(r) /\ cooling[r] > 0
  /\ Seen(r)
  /\ NextRule(r)
  /\ UNCHANGED <<ruleVars, cameraVars, queue, at, event, busy, first, cooling, faults>>

\* The key is set as the rule fires, before anything is sent.
Fire(r) ==
  /\ Due(r) /\ cooling[r] = 0
  /\ Seen(r)
  /\ cooling' = [cooling EXCEPT ![r] = Cooldown[r]]
  /\ at' = "act"
  /\ UNCHANGED <<ruleVars, cameraVars, queue, event, todo, busy, first, faults>>

\* Redis does not answer: the rule fires as if it had no cooldown.
FireUnchecked(r) ==
  /\ Due(r) /\ Cooldown[r] > 0 /\ faults < MaxFaults
  /\ Seen(r)
  /\ faults' = faults + 1
  /\ at' = "act"
  /\ UNCHANGED <<ruleVars, cameraVars, queue, event, todo, busy, first, cooling>>

Acting(r) == at = "act" /\ r \in todo /\ \A s \in todo : r <= s

\* The incident is created, the message sent, and the count forgotten, whether
\* or not the channel accepted the message.
Deliver(r) ==
  /\ Acting(r)
  /\ first' = IF r \in Immediate THEN [first EXCEPT ![r] = NotCounting] ELSE first
  /\ at' = "rules" /\ NextRule(r)
  /\ UNCHANGED <<ruleVars, cameraVars, queue, event, busy, last, cooling, faults>>

\* A query that fails while a rule is matched only ends that rule.
FailRule(r) ==
  /\ Trying(r) /\ faults < MaxFaults
  /\ faults' = faults + 1
  /\ NextRule(r)
  /\ UNCHANGED <<ruleVars, cameraVars, queue, at, event, busy, countVars>>

EndEvent ==
  /\ at = "rules" /\ todo = {}
  /\ at' = "idle" /\ event' = NoEvent /\ busy' = 0
  /\ UNCHANGED <<ruleVars, cameraVars, queue, todo, countVars, faults>>

\* The process starts again: what it kept in memory, and the events that
\* waited for it, are lost; the cooldown keys are in Redis.
Restart ==
  /\ faults < MaxFaults /\ faults' = faults + 1
  /\ cached' = active /\ sinceRefresh' = 0
  /\ queue' = <<>>
  /\ at' = "idle" /\ event' = NoEvent /\ todo' = {} /\ busy' = 0
  /\ first' = [r \in Rule |-> NotCounting]
  /\ last' = [r \in Rule |-> GapCap]
  /\ UNCHANGED <<active, offFor, cameraVars, cooling>>

\* The subscription, the query before the rules or the new connection raises:
\* what was waiting is lost, the counts are kept, and nobody listens for Retry.
LoseConnection ==
  /\ at \in {"idle", "capture"} \/ (at = "deaf" /\ busy = Retry)
  /\ faults < MaxFaults /\ faults' = faults + 1
  /\ queue' = <<>>
  /\ at' = "deaf" /\ event' = NoEvent /\ busy' = 0
  /\ UNCHANGED <<ruleVars, cameraVars, todo, countVars>>

Reconnect ==
  /\ at = "deaf" /\ busy = Retry
  /\ at' = "idle" /\ busy' = 0
  /\ UNCHANGED <<ruleVars, cameraVars, queue, event, todo, countVars, faults>>

-----------------------------------------------------------------------------
(* Time.  An idle bridge takes a waiting event, and a refresh takes place,  *)
(* before time goes on; no event is worked on for longer than MaxBusy.      *)

Delayed(e) == [e EXCEPT !.age = @ + 1]

Tick ==
  /\ sinceRefresh < RefreshPeriod
  /\ CASE at = "idle" -> queue = <<>>
       [] at = "deaf" -> busy < Retry
       [] OTHER -> busy < MaxBusy
  /\ sinceRefresh' = sinceRefresh + 1
  /\ busy' = IF at = "idle" THEN 0 ELSE busy + 1
  /\ event' = IF at \in {"idle", "deaf"} THEN event ELSE Delayed(event)
  /\ queue' = [k \in DOMAIN queue |-> Delayed(queue[k])]
  /\ offFor' = [r \in Rule |-> IF r \in active THEN 0 ELSE Older(offFor[r], StaleCap)]
  /\ quiet' = [r \in Rule |-> Older(quiet[r], LullCap)]
  /\ span' = [r \in Rule |-> IF quiet[r] < Lull THEN Older(span[r], MinDuration[r]) ELSE 0]
  /\ first' = [r \in Rule |-> IF first[r] = NotCounting THEN NotCounting
                              ELSE Older(first[r], MinDuration[r])]
  /\ last' = [r \in Rule |-> Older(last[r], GapCap)]
  /\ cooling' = [r \in Rule |-> IF cooling[r] > 0 THEN cooling[r] - 1 ELSE 0]
  /\ UNCHANGED <<active, cached, hour, at, todo, faults>>

PassHour ==
  /\ hour + 1 \in Hour
  /\ hour' = hour + 1
  /\ UNCHANGED <<ruleVars, queue, quiet, span, at, event, todo, busy, countVars, faults>>

-----------------------------------------------------------------------------

TryRule(r) ==
  \/ SkipRule(r) \/ StartCount(r) \/ KeepCounting(r) \/ Cool(r)
  \/ Fire(r) \/ FireUnchecked(r) \/ Deliver(r)

Handle ==
  TakeEvent \/ EndCapture \/ (\E r \in Rule : TryRule(r)) \/ EndEvent \/ Reconnect

Next ==
  \/ Publish \/ (\E r \in Rule : SwitchRule(r)) \/ PassHour
  \/ RefreshRules \/ RefreshFails
  \/ Handle \/ (\E r \in Rule : FailRule(r)) \/ Restart \/ LoseConnection
  \/ Tick

Spec == Init /\ [][Next]_vars

\* Both threads of the bridge run.  Time passes: no infinity of events is
\* worked on at one moment, though each of them, while it waits, holds Tick up.
FairSpec == Spec /\ WF_vars(Handle) /\ WF_vars(RefreshRules) /\ SF_vars(Tick)

-----------------------------------------------------------------------------
(* Properties *)

\* The cache, the counts, the cooldowns and the events hold values of their
\* types: in particular the refresh is never later than its period, and an
\* event is never worked on for longer than MaxBusy.
TypeOK ==
  /\ active \in SUBSET Rule /\ cached \in SUBSET Rule /\ todo \in SUBSET Rule
  /\ offFor \in [Rule -> 0..StaleCap]
  /\ sinceRefresh \in 0..RefreshPeriod /\ hour \in Hour
  /\ busy \in 0..(IF at = "deaf" THEN Retry ELSE MaxBusy)
  /\ queue \in Seq(Event) /\ Len(queue) <= QueueCap
  /\ quiet \in [Rule -> 0..LullCap] /\ span \in [Rule -> Nat]
  /\ at \in {"deaf", "idle", "capture", "rules", "act"}
  /\ event \in Event
  /\ first \in [Rule -> Nat \cup {NotCounting}]
  /\ last \in [Rule -> 0..GapCap]
  /\ cooling \in [Rule -> Nat]
  /\ faults \in 0..MaxFaults

\* A rule with a minimum duration fires only when the camera has gone on
\* publishing detections that match it for that duration, less what the latest
\* of them may have been late, and without a silence longer than Lull: photos
\* that delay the bridge, detections it never got and restarts stretch or cut
\* a presence by no more than that.
FiresAfterPresence ==
  [][\A r \in Rule : Fire(r) \/ FireUnchecked(r) =>
       event.span[r] + MaxLate >= MinDuration[r]]_vars

\* A rule that was switched off fires no later than the refreshes that could
\* miss it, and the event being worked on, allow.
FiresWhileFresh ==
  [][\A r \in Rule : Fire(r) \/ FireUnchecked(r) =>
       r \in active \/ offFor[r] <= (1 + faults) * RefreshPeriod + MaxBusy]_vars

\* Somebody who stays is noticed: a count that runs ends with a notification,
\* or with a silence, whatever the cooldown.
PresenceNoticed ==
  \A r \in Immediate :
    first[r] # NotCounting /\ last[r] <= Gap ~> first[r] = NotCounting \/ last[r] > Gap

-----------------------------------------------------------------------------
(* What the documentation says, and the code does not do. *)

\* README: a rule fires only once the presence has lasted min_duration_seconds
\* from the first detection.  The clock is read when the bridge gets to an
\* event: a short burst that it works through slowly lasts long enough.
LongPresencesOnly ==
  [][\A r \in Rule : Fire(r) \/ FireUnchecked(r) => event.span[r] >= MinDuration[r]]_vars

\* README: after a notification the count is reset.  It is forgotten instead:
\* as long as detections go on, none of them starts another.
CountsAgain ==
  [][\A r \in Rule : KeepCounting(r) => first[r] # NotCounting]_vars
=============================================================================
