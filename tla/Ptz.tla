-------------------------------- MODULE Ptz --------------------------------
(***************************************************************************)
(* One PTZ camera with its presets.  Runs of patrol_controller, asked for  *)
(* every ten seconds, turn it from preset to preset under the camera's     *)
(* lock in Redis, which expires; operators turn it too, without the lock,  *)
(* save and remove presets and draw their regions.  The orchestrator       *)
(* publishes the preset the camera seems to be at, and the live bridge     *)
(* keeps of every event only the regions of the preset it has read.        *)
(***************************************************************************)
EXTENDS Naturals, Sequences, Functions

CONSTANTS
  Runs,          \* runs of patrol_controller that may overlap
  Presets,       \* preset tokens, in the order the camera and the rows have
  Orders,        \* the preset_order a patrol may be given
  AtFirst,       \* the presets the camera may hold at first
  Elsewhere,     \* a position that is no preset's
  None,
  MaxChanges,    \* bound: requests of operators, and ends of the patrol's hours
  MaxFaults      \* bound: link changes, deaths, answers lost, locks and keys that lapse

ASSUME PresetsNumbered == Presets \subseteq Nat /\ None \notin Presets \union Runs
ASSUME OrdersNamePresets == Orders \subseteq Seq(Presets) \ {<<>>}
ASSUME PresetsAtFirst == AtFirst \subseteq SUBSET Presets

VARIABLES
  patrol, order, inHours,   \* the Patrol row: is_active, preset_order, schedule
  index, waiting, lock,     \* patrol:*:index, :next_move in the future; and
                            \* patrol:lock:*, the camera's
  job,                      \* the runs
  link,                     \* the camera answers: "up", only to a connection: "mute", or "down"
  head, goal,               \* where it is, and where it has been told to go
  saved,                    \* the presets it holds
  row,                      \* ptz_position of the AnalyticsPreset rows
  published, cache,         \* device:*:active_preset, and the bridge's copy
  last,                     \* history: the last preset a patrol sent, its order, and
                            \* whether the index has been saved since
  disturbed,                \* history: what two runs past the lock may have mixed up
  changes, faults

patrols == <<patrol, order, inHours>>
keys    == <<index, waiting, lock>>
camera  == <<link, head, goal, saved>>
vars    == <<patrols, keys, job, camera, row, published, cache, last, disturbed,
             changes, faults>>

Idle == [pc |-> "idle", order |-> <<>>, cur |-> 0]
Past(r) == job[r].pc \notin {"idle", "try", "forget"}      \* past the lock

\* A run out of hours has forgotten the index under a run past the lock, or the
\* lock has lapsed under one; until no run is past it.
Disturbance == {"no", "forgot", "lapsed"}

\* A row may be missing, lack a position, or have that of an older preset.
Positions == {"none", "bare", "placed", "astray"}

TypeOK ==
  /\ patrol \in {"on", "off", "gone"} /\ order \in Orders /\ inHours \in BOOLEAN
  /\ index \in Nat /\ waiting \in BOOLEAN /\ lock \in Runs \union {None}
  /\ job \in [Runs -> {Idle} \union
       [pc : {"try", "forget", "ask", "go", "save"}, order : Orders, cur : Nat]]
  /\ link \in {"up", "mute", "down"} /\ saved \subseteq Presets
  /\ head \in Presets \union {Elsewhere} /\ goal \in Presets \union {Elsewhere, None}
  /\ row \in [Presets -> Positions]
  /\ {published, cache} \subseteq Presets \union {None}
  /\ disturbed \in Disturbance /\ changes \in 0 .. MaxChanges /\ faults \in 0 .. MaxFaults

\* Presets may have been saved on the camera itself: they have no row.
Init ==
  /\ patrol = "on" /\ order \in Orders /\ inHours = TRUE
  /\ index = 0 /\ waiting = FALSE /\ lock = None /\ job = [r \in Runs |-> Idle]
  /\ link = "up" /\ head = Elsewhere /\ goal = Elsewhere /\ saved \in AtFirst
  /\ row \in [Presets -> {"none", "placed"}]
  /\ published = None /\ cache = None /\ last = None /\ disturbed = "no"
  /\ changes = 0 /\ faults = 0

Request == changes < MaxChanges /\ changes' = changes + 1 /\ UNCHANGED faults
Fault   == faults < MaxFaults /\ faults' = faults + 1 /\ UNCHANGED changes
Free    == UNCHANGED <<changes, faults>>

----------------------------------------------------------------------------
\* The camera.

Moving == goal # head

Turn(p) == /\ goal' = p
           /\ head' = IF head = p THEN p ELSE Elsewhere

\* A move without a goal ends at the limit of the mechanism.
Arrive ==
  /\ Moving
  /\ head' = IF goal = None THEN Elsewhere ELSE goal
  /\ goal' = head' /\ Free
  /\ UNCHANGED <<patrols, keys, job, link, saved, row, published, cache, last, disturbed>>

LinkChanges ==
  /\ link' \in {"up", "mute", "down"} \ {link} /\ Fault
  /\ UNCHANGED <<patrols, keys, job, head, goal, saved, row, published, cache, last, disturbed>>

\* is_moving: an exception is "no".
SaysMoving == IF Moving /\ link = "up" THEN BOOLEAN ELSE {FALSE}

----------------------------------------------------------------------------
\* patrol_controller.

\* The rows of the patrols are read, with the time, when the task starts.
Read(r) ==
  /\ job[r] = Idle /\ patrol = "on"
  /\ job' = [job EXCEPT ![r] = [pc |-> IF inHours THEN "try" ELSE "forget",
                                order |-> order, cur |-> 0]]
  /\ Free
  /\ UNCHANGED <<patrols, keys, camera, row, published, cache, last, disturbed>>

\* Out of hours a run forgets where the patrol was, with the lock or without.
OutOfHours(r) ==
  /\ job[r].pc = "forget"
  /\ index' = 0 /\ last' = None
  /\ job' = [job EXCEPT ![r] = Idle]
  /\ disturbed' = IF disturbed = "no" /\ (\E s \in Runs : Past(s)) THEN "forgot" ELSE disturbed
  /\ Free
  /\ UNCHANGED <<patrols, waiting, lock, camera, row, published, cache>>

TakeLockSlip(r) ==   \* Slip: the finally clause also serves a run without the lock.
  /\ job[r].pc = "try"
  /\ IF lock = None
     THEN lock' = r /\ job' = [job EXCEPT ![r].pc = "ask"]
     ELSE lock' = None /\ job' = [job EXCEPT ![r] = Idle]
  /\ Free
  /\ UNCHANGED <<patrols, index, waiting, camera, row, published, cache, last, disturbed>>

\* SET NX: a run that finds the lock leaves the camera to the other.
TakeLock(r) ==
  /\ job[r].pc = "try"
  /\ IF lock = None
     THEN lock' = r /\ job' = [job EXCEPT ![r].pc = "ask"]
     ELSE UNCHANGED lock /\ job' = [job EXCEPT ![r] = Idle]
  /\ Free
  /\ UNCHANGED <<patrols, index, waiting, camera, row, published, cache, last, disturbed>>

End(r) ==
  /\ job' = [job EXCEPT ![r] = Idle]
  /\ disturbed' = IF \E s \in Runs \ {r} : Past(s) THEN disturbed ELSE "no"

\* The finally clause deletes the lock, whoever holds it by then.
Release(r) == lock' = None /\ End(r)

\* Connects, asks whether the camera moves, and then reads the keys.
Ask(r) ==
  /\ job[r].pc = "ask"
  /\ \/ /\ link = "down" \/ waiting \/ TRUE \in SaysMoving
        /\ Release(r)
     \/ /\ link # "down" /\ ~waiting /\ FALSE \in SaysMoving
        /\ job' = [job EXCEPT ![r].pc = "go", ![r].cur = index % Len(job[r].order)]
        /\ UNCHANGED <<lock, disturbed>>
  /\ Free
  /\ UNCHANGED <<patrols, index, waiting, camera, row, published, cache, last>>

Target(r) == job[r].order[job[r].cur + 1]

\* The history begins anew while two runs may have mixed up the keys.
Sent(r) ==
  last' = IF disturbed = "no"
          THEN [order |-> job[r].order, cur |-> job[r].cur, noted |-> FALSE] ELSE None
Noted == last' = IF disturbed = "no" /\ last # None THEN [last EXCEPT !.noted = TRUE] ELSE None

GoSlip(r) ==   \* Slip: the index is saved before the camera is asked.
  /\ job[r].pc = "go"
  /\ index' = (job[r].cur + 1) % Len(job[r].order)
  /\ IF link = "up" /\ Target(r) \in saved
     THEN /\ Turn(Target(r)) /\ Sent(r)
          /\ job' = [job EXCEPT ![r].pc = "save"] /\ UNCHANGED <<lock, disturbed>>
     ELSE Release(r) /\ UNCHANGED <<head, goal, last>>
  /\ Free
  /\ UNCHANGED <<patrols, waiting, link, saved, row, published, cache>>

\* A preset the camera no longer holds raises, and the index stays.
Go(r) ==
  /\ job[r].pc = "go"
  /\ IF link = "up" /\ Target(r) \in saved
     THEN /\ Turn(Target(r)) /\ Sent(r)
          /\ job' = [job EXCEPT ![r].pc = "save"] /\ UNCHANGED <<lock, disturbed>>
     ELSE Release(r) /\ UNCHANGED <<head, goal, last>>
  /\ Free
  /\ UNCHANGED <<patrols, index, waiting, link, saved, row, published, cache>>

\* The camera turns and its answer gets lost: the index stays.
GoUnanswered(r) ==
  /\ job[r].pc = "go" /\ link = "up" /\ Target(r) \in saved
  /\ Turn(Target(r)) /\ Sent(r)
  /\ Release(r) /\ Fault
  /\ UNCHANGED <<patrols, index, waiting, link, saved, row, published, cache>>

SaveIndexSlip(r) ==   \* Slip: the index of the preset just sent.
  /\ job[r].pc = "save"
  /\ index' = job[r].cur /\ Noted
  /\ waiting' = TRUE
  /\ Release(r) /\ Free
  /\ UNCHANGED <<patrols, camera, row, published, cache>>

SaveIndex(r) ==
  /\ job[r].pc = "save"
  /\ index' = (job[r].cur + 1) % Len(job[r].order) /\ Noted
  /\ waiting' = TRUE
  /\ Release(r) /\ Free
  /\ UNCHANGED <<patrols, camera, row, published, cache>>

\* Redis fails before the index is saved, or after it and before the end of
\* the dwell is; it may fail again when the lock is to be deleted.
SaveIndexFails(r) ==
  /\ job[r].pc = "save"
  /\ \/ UNCHANGED <<index, last>>
     \/ index' = (job[r].cur + 1) % Len(job[r].order) /\ Noted
  /\ lock' \in {lock, None} /\ End(r) /\ Fault
  /\ UNCHANGED <<patrols, waiting, camera, row, published, cache>>

DwellOver ==
  /\ waiting /\ waiting' = FALSE /\ Free
  /\ UNCHANGED <<patrols, index, lock, job, camera, row, published, cache, last, disturbed>>

\* The worker is killed: the lock stays until it expires.
Die(r) ==
  /\ Past(r) /\ End(r) /\ Fault
  /\ UNCHANGED <<patrols, keys, camera, row, published, cache, last>>

Orphaned == lock # None /\ ~Past(lock)

\* After 15 s: the holder is dead, or its camera answers late.
Expire ==
  /\ lock # None /\ lock' = None
  /\ IF Orphaned THEN Free /\ UNCHANGED disturbed ELSE Fault /\ disturbed' = "lapsed"
  /\ UNCHANGED <<patrols, index, waiting, job, camera, row, published, cache, last>>

----------------------------------------------------------------------------
\* Operators.  Their requests to the camera fail unless it answers.

Operators == UNCHANGED <<keys, job, published, cache, last, disturbed>>

\* An absolute move is over when it is seen again; a continuous one goes on.
AbsoluteMove   == head' = Elsewhere /\ goal' = Elsewhere
ContinuousMove == head' = Elsewhere /\ goal' = None

Move ==
  /\ link = "up" /\ (AbsoluteMove \/ ContinuousMove) /\ Request /\ Operators
  /\ UNCHANGED <<patrols, link, saved, row>>

Stop ==
  /\ link = "up" /\ Moving /\ goal' = head /\ Request /\ Operators
  /\ UNCHANGED <<patrols, link, head, saved, row>>

GotoPreset(p) ==
  /\ link = "up" /\ p \in saved /\ Turn(p) /\ Request /\ Operators
  /\ UNCHANGED <<patrols, link, saved, row>>

\* The row of a new preset: the position may not be read, and without a
\* snapshot the row stays what it was, that of an older preset perhaps.
NewRow(p) == {"bare", "placed", IF row[p] = "none" THEN "none" ELSE "astray"}

\* The camera at rest calls where it is p.
SetPreset(p) ==
  /\ link = "up" /\ head = Elsewhere /\ ~Moving /\ p \notin saved
  /\ saved' = saved \union {p} /\ head' = p /\ goal' = p
  /\ \E new \in NewRow(p) : row' = [row EXCEPT ![p] = new]
  /\ Request /\ Operators /\ UNCHANGED <<patrols, link>>

RemovePreset(p) ==
  /\ link = "up" /\ p \in saved /\ saved' = saved \ {p}
  /\ Request /\ Operators /\ UNCHANGED <<patrols, link, head, goal, row>>

\* Regions can be drawn for what the camera lists and for every row.
Listed == CASE link = "up"   -> saved \union {p \in Presets : row[p] # "none"}
            [] link = "mute" -> {p \in Presets : row[p] # "none"}
            [] OTHER         -> {}

\* A row that the page or the snapshot creates has no position.
WithRow(p) == row' = [row EXCEPT ![p] = IF @ = "none" THEN "bare" ELSE @]

SaveShapes(p) ==
  /\ p \in Listed /\ WithRow(p)
  /\ Request /\ Operators /\ UNCHANGED <<patrols, camera>>

CaptureSnapshot(p) ==
  /\ p \in Listed /\ link # "down" /\ WithRow(p)
  /\ Request /\ Operators /\ UNCHANGED <<patrols, camera>>

GotoAndApply(p) ==
  /\ link = "up" /\ p \in saved /\ Turn(p)
  /\ WithRow(p) \/ UNCHANGED row
  /\ Request /\ Operators /\ UNCHANGED <<patrols, link, saved>>

\* The form offers the presets the camera lists, and keeps those it had.
Offered == Range(order) \union IF link = "up" THEN saved ELSE {}

SavePatrol ==
  /\ patrol # "gone" /\ patrol' \in {"on", "off"}
  /\ order' \in {o \in Orders : Range(o) \subseteq Offered}
  /\ Request /\ Operators /\ UNCHANGED <<inHours, camera, row>>

TogglePatrol ==
  /\ patrol # "gone" /\ patrol' = IF patrol = "on" THEN "off" ELSE "on"
  /\ Request /\ Operators /\ UNCHANGED <<order, inHours, camera, row>>

DeletePatrol ==
  /\ patrol # "gone" /\ patrol' = "gone"
  /\ Request /\ Operators /\ UNCHANGED <<order, inHours, camera, row>>

ScheduleTurns ==
  /\ inHours' = ~inHours
  /\ IF inHours THEN Request ELSE Free
  /\ Operators /\ UNCHANGED <<patrol, order, camera, row>>

----------------------------------------------------------------------------
\* The active preset.

First(S) == CHOOSE p \in S : \A q \in S : p <= q

\* A row without a position is at no distance from anywhere.
Here(p) == row[p] = "bare" \/ (row[p] = "placed" /\ head = p)

\* get_active_preset_for_device: the nearest of the camera's presets with a
\* row, the first of the nearest, the first row if there is none.
ActivePreset ==
  LET withRow == {p \in Presets : row[p] # "none"}
      near    == IF link = "up" THEN withRow \intersect saved ELSE {}
      here    == {p \in near : Here(p)}
  IN CASE link = "down" \/ withRow = {} -> {None}
       [] OTHER -> IF near = {} THEN {First(withRow)}
                   ELSE IF here = {} THEN near ELSE {First(here)}

Publish ==
  /\ published' \in ActivePreset /\ Free
  /\ UNCHANGED <<patrols, keys, job, camera, row, cache, last, disturbed>>

\* 120 s without the orchestrator.
Lapse ==
  /\ published # None /\ published' = None /\ Fault
  /\ UNCHANGED <<patrols, keys, job, camera, row, cache, last, disturbed>>

RefreshPresetsSlip ==   \* Slip: a preset already known is kept.
  /\ cache' = (IF cache = None THEN published ELSE cache) /\ Free
  /\ UNCHANGED <<patrols, keys, job, camera, row, published, last, disturbed>>

\* The bridge replaces its copy unless Redis is away.
RefreshPresets ==
  /\ cache' = published /\ Free
  /\ UNCHANGED <<patrols, keys, job, camera, row, published, last, disturbed>>

\* _filter_ivs_event: the presets whose regions an event may still name.
Passed == IF cache = None THEN Presets ELSE {cache}

----------------------------------------------------------------------------
RunSteps(r) == OutOfHours(r) \/ TakeLock(r) \/ Ask(r) \/ Go(r) \/ SaveIndex(r)
Failures(r) == GoUnanswered(r) \/ SaveIndexFails(r) \/ Die(r)

OfPreset(p) == \/ GotoPreset(p) \/ SetPreset(p) \/ RemovePreset(p)
               \/ SaveShapes(p) \/ CaptureSnapshot(p) \/ GotoAndApply(p)

Next ==
  \/ Arrive \/ LinkChanges \/ DwellOver \/ Expire
  \/ \E r \in Runs : Read(r) \/ RunSteps(r) \/ Failures(r)
  \/ Move \/ Stop \/ \E p \in Presets : OfPreset(p)
  \/ SavePatrol \/ TogglePatrol \/ DeletePatrol \/ ScheduleTurns
  \/ Publish \/ Lapse \/ RefreshPresets

Spec == Init /\ [][Next]_vars

\* Beat, the worker and the bridge's thread go on; heads arrive, dwell ends,
\* and the lock of a dead run expires.
Fairness ==
  /\ WF_vars(Arrive) /\ WF_vars(DwellOver) /\ WF_vars(Orphaned /\ Expire)
  /\ WF_vars(\E r \in Runs : Read(r))
  /\ \A r \in Runs : WF_vars(RunSteps(r))
  /\ WF_vars(Publish) /\ WF_vars(RefreshPresets)

FairSpec == Spec /\ Fairness

----------------------------------------------------------------------------
\* One run at a time turns the camera, from the time a lock lapsed under a live
\* run until none is left on.
OneMover ==
  disturbed = "lapsed" \/ \A r, s \in Runs : Past(r) /\ Past(s) => r = s

Sends(r) == job[r].pc = "go" /\ (Go(r) \/ GoUnanswered(r)) /\ goal' = Target(r)

Successor(l) == (l.cur + 1) % Len(l.order)
Expected(l)  == IF l.noted THEN Successor(l) ELSE l.cur

\* A patrol turns the camera to each preset after the one before it and skips
\* none, through calls that fail, pauses and edits of the row; it sends the same
\* one again only if the index was not saved after it, because the answer got
\* lost, Redis failed or the run died, and then it does.
PatrolInOrder ==
  [][\A r \in Runs :
       /\ Sends(r) /\ disturbed = "no"
       /\ last # None /\ last.order = job[r].order
       => job[r].cur = Expected(last)]_vars

\* A patrol that stays on, in its hours, on a camera that answers and holds
\* the presets, sends it to each of them again and again.
Steady == patrol = "on" /\ inHours /\ link = "up" /\ Range(order) \subseteq saved

EveryPresetVisited ==
  <>[]Steady => \A p \in Presets : <>[](p \in Range(order)) => []<>(goal = p)

\* A camera that comes to rest at a preset whose row knows the position has,
\* when no row lacks one, in the end only this preset's regions passed on.
RestsAt(p) ==
  /\ link = "up" /\ head = p /\ goal = p /\ p \in saved /\ row[p] = "placed"
  /\ \A q \in saved : row[q] # "bare"

SettlesOnPreset ==
  \A p \in Presets : <>[]RestsAt(p) => <>[](Passed = {p})
=============================================================================
