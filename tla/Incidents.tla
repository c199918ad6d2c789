----------------------------- MODULE Incidents -----------------------------
(***************************************************************************)
(* The incidents of one device and one incident type, and every process    *)
(* that reads or writes their rows: the notification bridge that creates   *)
(* them, the passes of the Celery task incident_manager, the REST          *)
(* acknowledgement, the Telegram poller, the snapshot receiver, and the    *)
(* administrator who edits the site's escalation ladder.                   *)
(*                                                                         *)
(* The database runs in autocommit: a process reads a row into an instance *)
(* and saves it later, and every save is one step of its own.  A save with *)
(* update_fields writes those columns only; a save without writes the      *)
(* whole, possibly stale, instance.                                        *)
(*                                                                         *)
(* A timestamp is represented by the time elapsed since it, which grows by *)
(* one at each Tick and saturates at AgeCap, a bound no comparison exceeds.*)
(***************************************************************************)
EXTENDS Integers, FiniteSets

CONSTANTS
  MaxIncidents,   \* bound on the number of rows created
  MaxLevel,       \* largest escalation level a site can configure
  Timeout,        \* timeout_seconds of each level
  AutoResolve,    \* auto_resolve_seconds of the incident type (0 = never)
  DedupWindow,    \* dedup_window_seconds of the incident type (0 = none)
  AgeCap,         \* bound of the elapsed times
  Ladders,        \* the sets of levels an administrator can give the site
  Worker,         \* executions of incident_manager that may overlap
  Operator,       \* requests to the acknowledgement endpoint
  Poller,         \* the Telegram poller (at most one process)
  Receiver,       \* the snapshot receiver (at most one process)
  Photos,         \* whether the bridge may obtain a photo: a set of Booleans
  MaxEdits,       \* bound on the administrator's changes
  MaxFaults,      \* bound on the failures of passes and edits
  Nobody          \* the empty acknowledged_by

Incident == 1..MaxIncidents
Level == 1..MaxLevel
Age == 0..AgeCap
Human == Operator \cup Poller

ASSUME BoundAssumption ==
  /\ MaxIncidents \in Nat \ {0} /\ MaxLevel \in Nat \ {0}
  /\ AgeCap \in Nat /\ MaxEdits \in Nat /\ MaxFaults \in Nat

ASSUME TimeAssumption ==
  /\ Timeout \in [Level -> Age]
  /\ AutoResolve \in Age
  /\ DedupWindow \in Age /\ (DedupWindow > 0 => DedupWindow < AgeCap)

ASSUME SiteAssumption == Ladders \subseteq SUBSET Level

ASSUME ProcessAssumption ==
  /\ Operator \cap Poller = {}
  /\ Nobody \notin Human
  /\ \A r, q \in Receiver : r = q
  /\ Photos \subseteq BOOLEAN

-----------------------------------------------------------------------------

VARIABLES
  row,        \* table incidents_incident
  born,       \* time since created_at of each row
  log,        \* table incidents_incidentlog: the entries of each incident
  notices,    \* times each level was sent its notification, up to MaxNotices
  frames,     \* frames stored for each incident so far
  disturbed,  \* incidents two passes held at once, a whole save took back a
              \* level of, or a pass left between the decision and the entry
  levels,     \* the site's escalation levels
  adding,     \* levels a running edit of the site has still to create
  assigned,   \* whether the device has a site
  edits,      \* changes made by the administrator
  at,         \* where each incident_manager pass is
  todo,       \* rows of its list the pass has not finished with
  copy,       \* the instances of those rows, as the pass holds them
  faults,     \* failures of passes and edits so far
  bridge,     \* the notification bridge: where it is and its incident
  human,      \* each acknowledgement request and the poller
  receiver    \* the snapshot receiver: where it is and its instance

historyVars == <<frames, disturbed>>
tableVars == <<row, born, log, notices, historyVars>>
siteVars == <<levels, adding, assigned, edits>>
workerVars == <<at, todo, copy, faults>>
vars == <<row, born, log, notices, frames, disturbed, levels, adding,
          assigned, edits, at, todo, copy, faults, bridge, human, receiver>>

Status == {"none", "active", "acknowledged", "resolved", "expired"}
Closed == {"acknowledged", "resolved", "expired"}
Action == {"created", "notified", "escalated", "acknowledged", "resolved", "expired"}
\* by is acknowledged_by with acknowledged_at: Nobody while they are empty.
\* stamped says that resolved_at is set; snap numbers the frame the row names,
\* in the order the incident's frames were stored, and is 0 without one.
Row == [status : Status, level : Level, age : Age, by : Human \cup {Nobody},
        stamped : BOOLEAN, snap : Nat]
Instance == [level : Level, age : Age, site : BOOLEAN]
\* The level of an "escalated" entry is the one its detail calls to_level;
\* "notified" also stands for notified_user, and for the entry of a failure.
Entry == [action : Action, level : Level]

NoRow == [status |-> "none", level |-> 1, age |-> 0, by |-> Nobody,
          stamped |-> FALSE, snap |-> 0]
Blank == [level |-> 1, age |-> 0, site |-> FALSE]

\* Notices are counted up to two: the properties only tell one from several.
MaxNotices == 2
OneMore(n) == IF n < MaxNotices THEN n + 1 ELSE n

Active == {i \in Incident : row[i].status = "active"}
Logged(i, action) == \E l \in Level : [action |-> action, level |-> l] \in log[i]
WriteLog(i, action, l) ==
  log' = [log EXCEPT ![i] = @ \cup {[action |-> action, level |-> l]}]

\* Both list queries are ordered by -created_at: the newest row comes first.
Newest(S) == CHOOSE i \in S : \A j \in S : j <= i

Older(a) == IF a < AgeCap THEN a + 1 ELSE a
Aged(r) == [r EXCEPT !.age = Older(r.age)]

Init ==
  /\ row = [i \in Incident |-> NoRow]
  /\ born = [i \in Incident |-> 0]
  /\ log = [i \in Incident |-> {}]
  /\ notices = [i \in Incident |-> [l \in Level |-> 0]]
  /\ frames = [i \in Incident |-> 0] /\ disturbed = {}
  /\ levels \in Ladders /\ adding = {} /\ assigned \in BOOLEAN /\ edits = 0
  /\ at = [w \in Worker |-> "idle"]
  /\ todo = [w \in Worker |-> {}]
  /\ copy = [w \in Worker |-> [i \in Incident |-> Blank]]
  /\ faults = 0
  /\ bridge = [at |-> "idle", inc |-> 1]
  /\ human = [h \in Human |-> [at |-> "idle", inc |-> 1, level |-> 1]]
  /\ receiver = [r \in Receiver |-> [at |-> "idle", inc |-> 1, row |-> NoRow]]

-----------------------------------------------------------------------------
(* The notification bridge: one thread, so one event at a time.            *)

\* An active incident created within the window absorbs the event.
Duplicate == DedupWindow > 0 /\ \E i \in Active : born[i] <= DedupWindow

\* A rule fires and no incident absorbs it: a row will be created.
DecideToCreate ==
  /\ bridge.at = "idle" /\ ~Duplicate
  /\ \E i \in Incident :
        /\ row[i].status = "none"
        /\ \A j \in 1..(i - 1) : row[j].status # "none"
        /\ bridge' = [at |-> "create", inc |-> i]
  /\ UNCHANGED <<tableVars, siteVars, workerVars, human, receiver>>

CreateIncident ==
  /\ bridge.at = "create"
  /\ row' = [row EXCEPT ![bridge.inc] = [NoRow EXCEPT !.status = "active"]]
  /\ WriteLog(bridge.inc, "created", 1)
  /\ \E photo \in Photos :
        bridge' = [bridge EXCEPT !.at = IF photo THEN "photo" ELSE "idle"]
  /\ UNCHANGED <<born, notices, historyVars, siteVars, workerVars, human, receiver>>

\* The file is stored, then every column of an instance saved, whichever
\* level the row has reached since the instance was read.
SaveWhole(i, instance) ==
  /\ frames' = [frames EXCEPT ![i] = @ + 1]
  /\ row' = [row EXCEPT ![i] = [instance EXCEPT !.snap = frames[i] + 1]]
  /\ disturbed' = IF instance.level < row[i].level THEN disturbed \cup {i} ELSE disturbed

\* The bridge saves the instance it created, whose level began when the
\* incident did.
SaveBridgePhoto ==
  /\ bridge.at = "photo"
  /\ SaveWhole(bridge.inc, [NoRow EXCEPT !.status = "active", !.age = born[bridge.inc]])
  /\ bridge' = [bridge EXCEPT !.at = "idle"]
  /\ UNCHANGED <<born, log, notices, siteVars, workerVars, human, receiver>>

-----------------------------------------------------------------------------
(* incident_manager: the list of active rows is read once, with each       *)
(* device's site; the instances are then processed one after the other.    *)

\* The pass is going through its list: _auto_resolve has one of its own.
Scanning(w) == at[w] \notin {"idle", "resolve", "logResolved"}
Shared == {i \in Active : \E v \in Worker : Scanning(v) /\ i \in todo[v]}

StartPass(w) ==
  /\ at[w] = "idle"
  /\ at' = [at EXCEPT ![w] = "scan"]
  /\ todo' = [todo EXCEPT ![w] = Active]
  /\ copy' = [copy EXCEPT ![w] = [i \in Incident |->
                IF i \in Active
                THEN [level |-> row[i].level, age |-> row[i].age, site |-> assigned]
                ELSE Blank]]
  /\ disturbed' = disturbed \cup Shared
  /\ UNCHANGED <<row, born, log, notices, frames, siteVars, faults, bridge, human, receiver>>

Current(w) == Newest(todo[w])
Held(w) == copy[w][Current(w)]
Ready(w, place) == at[w] = place /\ todo[w] # {}
GoTo(w, place) == at' = [at EXCEPT ![w] = place]

\* Done with the current incident: on to the rest of the list.
NextItem(w, place) ==
  /\ GoTo(w, place)
  /\ todo' = [todo EXCEPT ![w] = @ \ {Current(w)}]
  /\ copy' = [copy EXCEPT ![w][Current(w)] = Blank]

\* Slip: any other level counts as the next one.
HigherOrLower(l) == levels \ {l}

Higher(l) == {k \in levels : k > l}
NextLevel(l) == CHOOSE k \in Higher(l) : \A m \in Higher(l) : k <= m

\* Slip: a level missing from the ladder is kept.
OutlivedListed(c) == c.level \in levels /\ c.age >= Timeout[c.level]

\* The level's time is over, or the ladder no longer has it.
Outlived(c) == c.level \notin levels \/ c.age >= Timeout[c.level]
MustExpire(c) == ~c.site \/ (Outlived(c) /\ Higher(c.level) = {})
MustEscalate(c) == c.site /\ Outlived(c) /\ Higher(c.level) # {}
\* Slip: the entry looked up is the one of the escalation.
AlreadyNotifiedEscalated(i, l) == [action |-> "escalated", level |-> l] \in log[i]

AlreadyNotified(i, l) == [action |-> "notified", level |-> l] \in log[i]

DecideToExpire(w) ==
  /\ Ready(w, "scan") /\ MustExpire(Held(w))
  /\ GoTo(w, "expire")
  /\ UNCHANGED <<tableVars, siteVars, todo, copy, faults, bridge, human, receiver>>

\* Slips: a misspelt status; resolved_at missing from the saved columns.
ExpireIncidentMisspelt(w) ==
  /\ Ready(w, "expire")
  /\ row' = [row EXCEPT ![Current(w)] = [@ EXCEPT !.status = "expire", !.stamped = TRUE]]
  /\ GoTo(w, "logExpired")
  /\ UNCHANGED <<born, log, notices, historyVars, siteVars, todo, copy, faults, bridge, human, receiver>>

ExpireIncidentUnstamped(w) ==
  /\ Ready(w, "expire")
  /\ row' = [row EXCEPT ![Current(w)].status = "expired"]
  /\ GoTo(w, "logExpired")
  /\ UNCHANGED <<born, log, notices, historyVars, siteVars, todo, copy, faults, bridge, human, receiver>>

ExpireIncident(w) ==
  /\ Ready(w, "expire")
  /\ row' = [row EXCEPT ![Current(w)] = [@ EXCEPT !.status = "expired", !.stamped = TRUE]]
  /\ GoTo(w, "logExpired")
  /\ UNCHANGED <<born, log, notices, historyVars, siteVars, todo, copy, faults, bridge, human, receiver>>

LogExpired(w) ==
  /\ Ready(w, "logExpired")
  /\ WriteLog(Current(w), "expired", Held(w).level)
  /\ NextItem(w, "scan")
  /\ UNCHANGED <<row, born, notices, historyVars, siteVars, faults, bridge, human, receiver>>

\* Slip: the entry names the level the incident leaves.
DecideToEscalateFrom(w) ==
  /\ Ready(w, "scan") /\ MustEscalate(Held(w))
  /\ WriteLog(Current(w), "escalated", Held(w).level)
  /\ copy' = [copy EXCEPT ![w][Current(w)] =
                [@ EXCEPT !.level = NextLevel(Held(w).level), !.age = 0]]
  /\ GoTo(w, "raise")
  /\ UNCHANGED <<row, born, notices, historyVars, siteVars, todo, faults, bridge, human, receiver>>

\* The escalation is logged before the instance, then the row, moves up.
DecideToEscalate(w) ==
  /\ Ready(w, "scan") /\ MustEscalate(Held(w))
  /\ LET next == NextLevel(Held(w).level) IN
        /\ WriteLog(Current(w), "escalated", next)
        /\ copy' = [copy EXCEPT ![w][Current(w)] = [@ EXCEPT !.level = next, !.age = 0]]
  /\ GoTo(w, "raise")
  /\ UNCHANGED <<row, born, notices, historyVars, siteVars, todo, faults, bridge, human, receiver>>

\* Slip: the new level is left to the next pass.
SaveLevelSilent(w) ==
  /\ Ready(w, "raise")
  /\ row' = [row EXCEPT ![Current(w)] =
               [@ EXCEPT !.level = Held(w).level, !.age = Held(w).age]]
  /\ NextItem(w, "scan")
  /\ UNCHANGED <<born, log, notices, historyVars, siteVars, faults, bridge, human, receiver>>

SaveLevel(w) ==
  /\ Ready(w, "raise")
  /\ row' = [row EXCEPT ![Current(w)] =
               [@ EXCEPT !.level = Held(w).level, !.age = Held(w).age]]
  /\ GoTo(w, "notify")
  /\ UNCHANGED <<born, log, notices, historyVars, siteVars, todo, copy, faults, bridge, human, receiver>>

NotifyIfNeeded(w) ==
  /\ Ready(w, "scan") /\ ~MustExpire(Held(w)) /\ ~MustEscalate(Held(w))
  /\ IF AlreadyNotified(Current(w), Held(w).level)
     THEN NextItem(w, "scan")
     ELSE GoTo(w, "notify") /\ UNCHANGED <<todo, copy>>
  /\ UNCHANGED <<tableVars, siteVars, faults, bridge, human, receiver>>

\* The level's messages go out; only then is an entry written, whether or not
\* any channel accepted them.
SendNotices(w) ==
  /\ Ready(w, "notify")
  /\ notices' = [notices EXCEPT ![Current(w)][Held(w).level] = OneMore(@)]
  /\ GoTo(w, "logNotified")
  /\ UNCHANGED <<row, born, log, historyVars, siteVars, todo, copy, faults, bridge, human, receiver>>

LogNotified(w) ==
  /\ Ready(w, "logNotified")
  /\ WriteLog(Current(w), "notified", Held(w).level)
  /\ NextItem(w, "scan")
  /\ UNCHANGED <<row, born, notices, historyVars, siteVars, faults, bridge, human, receiver>>

\* The list is over; _auto_resolve reads the active rows again and keeps
\* those old enough.
Overdue == {i \in Active : AutoResolve > 0 /\ born[i] >= AutoResolve}

StartAutoResolve(w) ==
  /\ at[w] = "scan" /\ todo[w] = {}
  /\ todo' = [todo EXCEPT ![w] = Overdue]
  /\ copy' = [copy EXCEPT ![w] = [i \in Incident |->
                IF i \in Overdue THEN [Blank EXCEPT !.level = row[i].level] ELSE Blank]]
  /\ GoTo(w, IF Overdue = {} THEN "idle" ELSE "resolve")
  /\ UNCHANGED <<tableVars, siteVars, faults, bridge, human, receiver>>

\* Slip: the resolution is not logged.
ResolveOverdueUnlogged(w) ==
  /\ Ready(w, "resolve")
  /\ row' = [row EXCEPT ![Current(w)] = [@ EXCEPT !.status = "resolved", !.stamped = TRUE]]
  /\ NextItem(w, IF todo[w] = {Current(w)} THEN "idle" ELSE "resolve")
  /\ UNCHANGED <<born, log, notices, historyVars, siteVars, faults, bridge, human, receiver>>

ResolveOverdue(w) ==
  /\ Ready(w, "resolve")
  /\ row' = [row EXCEPT ![Current(w)] = [@ EXCEPT !.status = "resolved", !.stamped = TRUE]]
  /\ GoTo(w, "logResolved")
  /\ UNCHANGED <<born, log, notices, historyVars, siteVars, todo, copy, faults, bridge, human, receiver>>

LogResolved(w) ==
  /\ Ready(w, "logResolved")
  /\ WriteLog(Current(w), "resolved", Held(w).level)
  /\ NextItem(w, IF todo[w] = {Current(w)} THEN "idle" ELSE "resolve")
  /\ UNCHANGED <<row, born, notices, historyVars, siteVars, faults, bridge, human, receiver>>

\* The pass stops in the middle of an escalation or of a notification.
LeftHalfway(w) ==
  disturbed' = IF Ready(w, "raise") \/ Ready(w, "notify") \/ Ready(w, "logNotified")
               THEN disturbed \cup {Current(w)} ELSE disturbed

\* An exception is caught around each incident of the list, and around the
\* whole of the pass once _auto_resolve runs.
SkipIncident(w) ==
  /\ Scanning(w) /\ todo[w] # {} /\ faults < MaxFaults
  /\ faults' = faults + 1
  /\ LeftHalfway(w)
  /\ NextItem(w, "scan")
  /\ UNCHANGED <<row, born, log, notices, frames, siteVars, bridge, human, receiver>>

\* The worker dies, or _auto_resolve raises: Celery does not run the task again.
AbandonPass(w) ==
  /\ at[w] # "idle" /\ faults < MaxFaults
  /\ faults' = faults + 1
  /\ LeftHalfway(w)
  /\ GoTo(w, "idle")
  /\ todo' = [todo EXCEPT ![w] = {}]
  /\ copy' = [copy EXCEPT ![w] = [i \in Incident |-> Blank]]
  /\ UNCHANGED <<row, born, log, notices, frames, siteVars, bridge, human, receiver>>

-----------------------------------------------------------------------------
(* Acknowledgements: a REST request, or a button of a Telegram message.    *)
(* Both check that the row is active, and save it in a later step.         *)

Serve(h, place, i) ==
  human' = [human EXCEPT ![h] = [at |-> place, inc |-> i, level |-> row[i].level]]
HumanGoTo(h, place) == human' = [human EXCEPT ![h].at = place]
SaveClosure(i, status, h) ==
  row' = [row EXCEPT ![i] = [@ EXCEPT !.status = status, !.by = h, !.stamped = TRUE]]

RequestAck(o, i) ==
  /\ human[o].at = "idle" /\ i \in Active
  /\ Serve(o, "save", i)
  /\ UNCHANGED <<tableVars, siteVars, workerVars, bridge, receiver>>

SaveAck(o) ==
  /\ human[o].at = "save"
  /\ SaveClosure(human[o].inc, "acknowledged", o)
  /\ HumanGoTo(o, "log")
  /\ UNCHANGED <<born, log, notices, historyVars, siteVars, workerVars, bridge, receiver>>

LogAck(o) ==
  /\ human[o].at = "log"
  /\ WriteLog(human[o].inc, "acknowledged", human[o].level)
  /\ HumanGoTo(o, "idle")
  /\ UNCHANGED <<row, born, notices, historyVars, siteVars, workerVars, bridge, receiver>>

\* A message with buttons has been sent for the incident.
HasButtons(i) == \E l \in Level : notices[i][l] > 0

\* select_for_update outside a transaction raises before any row is read; the
\* exception is caught and the press is answered as if the alert were over.
PressAck(p, i) ==
  /\ human[p].at = "idle" /\ HasButtons(i)
  /\ Serve(p, "refuse", i)
  /\ UNCHANGED <<tableVars, siteVars, workerVars, bridge, receiver>>

PressFalseAlarm(p, i) ==
  /\ human[p].at = "idle" /\ HasButtons(i)
  /\ Serve(p, IF i \in Active THEN "save" ELSE "refuse", i)
  /\ UNCHANGED <<tableVars, siteVars, workerVars, bridge, receiver>>

SaveFalseAlarm(p) ==
  /\ human[p].at = "save"
  /\ SaveClosure(human[p].inc, "resolved", p)
  /\ HumanGoTo(p, "log")
  /\ UNCHANGED <<born, log, notices, historyVars, siteVars, workerVars, bridge, receiver>>

LogFalseAlarm(p) ==
  /\ human[p].at = "log"
  /\ WriteLog(human[p].inc, "resolved", human[p].level)
  /\ HumanGoTo(p, "accept")
  /\ UNCHANGED <<row, born, notices, historyVars, siteVars, workerVars, bridge, receiver>>

Answer(p) ==
  /\ human[p].at \in {"accept", "refuse"}
  /\ HumanGoTo(p, "idle")
  /\ UNCHANGED <<tableVars, siteVars, workerVars, bridge, receiver>>

-----------------------------------------------------------------------------
(* The snapshot receiver: the newest active incident gets the frame.       *)

Match(r) ==
  receiver' = [receiver EXCEPT ![r] =
    [at |-> "save", inc |-> Newest(Active), row |-> row[Newest(Active)]]]

\* Slip: an incident that has its frame gets the next one too.
MatchSnapshotAgain(r) ==
  /\ receiver[r].at = "idle" /\ Active # {}
  /\ Match(r)
  /\ UNCHANGED <<tableVars, siteVars, workerVars, bridge, human>>

MatchSnapshot(r) ==
  /\ receiver[r].at = "idle" /\ Active # {} /\ row[Newest(Active)].snap = 0
  /\ Match(r)
  /\ UNCHANGED <<tableVars, siteVars, workerVars, bridge, human>>

\* After the file is written, every column of the instance is saved.
SaveSnapshot(r) ==
  /\ receiver[r].at = "save"
  /\ SaveWhole(receiver[r].inc, receiver[r].row)
  /\ receiver' = [receiver EXCEPT ![r] = [at |-> "idle", inc |-> 1, row |-> NoRow]]
  /\ UNCHANGED <<born, log, notices, siteVars, workerVars, bridge, human>>

-----------------------------------------------------------------------------
(* The administrator, and time.                                            *)

\* The form's levels replace the site's: all are deleted, then created again.
ClearLadder ==
  /\ adding = {} /\ edits < MaxEdits
  /\ levels' = {} /\ adding' \in Ladders
  /\ edits' = edits + 1
  /\ UNCHANGED <<assigned, tableVars, workerVars, bridge, human, receiver>>

AddLevel ==
  /\ \E l \in adding :
        /\ levels' = levels \cup {l}
        /\ adding' = adding \ {l}
  /\ UNCHANGED <<assigned, edits, tableVars, workerVars, bridge, human, receiver>>

\* The request fails half way, for instance on a level the form lists twice:
\* what was deleted and created stays.
CutEdit ==
  /\ adding # {} /\ faults < MaxFaults
  /\ adding' = {} /\ faults' = faults + 1
  /\ UNCHANGED <<levels, assigned, edits, tableVars, at, todo, copy, bridge, human, receiver>>

AssignSite ==
  /\ edits < MaxEdits
  /\ assigned' = ~assigned
  /\ edits' = edits + 1
  /\ UNCHANGED <<levels, adding, tableVars, workerVars, bridge, human, receiver>>

Tick ==
  /\ row' = [i \in Incident |-> IF row[i].status = "none" THEN row[i]
                                ELSE Aged(row[i])]
  /\ born' = [i \in Incident |-> IF row[i].status = "none" THEN born[i] ELSE Older(born[i])]
  /\ copy' = [w \in Worker |-> [i \in Incident |->
                IF i \in todo[w] THEN Aged(copy[w][i]) ELSE copy[w][i]]]
  /\ receiver' = [r \in Receiver |->
                    IF receiver[r].at = "idle" THEN receiver[r]
                    ELSE [receiver[r] EXCEPT !.row = Aged(@)]]
  /\ UNCHANGED <<log, notices, historyVars, siteVars, at, todo, faults, bridge, human>>

-----------------------------------------------------------------------------

Bridge == DecideToCreate \/ CreateIncident \/ SaveBridgePhoto

Pass(w) ==
  \/ StartPass(w) \/ DecideToExpire(w) \/ ExpireIncident(w) \/ LogExpired(w)
  \/ DecideToEscalate(w) \/ SaveLevel(w) \/ NotifyIfNeeded(w)
  \/ SendNotices(w) \/ LogNotified(w)
  \/ StartAutoResolve(w) \/ ResolveOverdue(w) \/ LogResolved(w)

Fault(w) == SkipIncident(w) \/ AbandonPass(w)

Rest(o) == (\E i \in Incident : RequestAck(o, i)) \/ SaveAck(o) \/ LogAck(o)

Telegram(p) ==
  \/ \E i \in Incident : PressAck(p, i) \/ PressFalseAlarm(p, i)
  \/ SaveFalseAlarm(p) \/ LogFalseAlarm(p) \/ Answer(p)

Snapshots(r) == MatchSnapshot(r) \/ SaveSnapshot(r)

Admin == ClearLadder \/ AddLevel \/ CutEdit \/ AssignSite

Next ==
  \/ Bridge \/ Admin \/ Tick
  \/ \E w \in Worker : Pass(w) \/ Fault(w)
  \/ \E o \in Operator : Rest(o)
  \/ \E p \in Poller : Telegram(p)
  \/ \E r \in Receiver : Snapshots(r)

Spec == Init /\ [][Next]_vars

(* Celery beat queues a pass every five seconds and the workers take what   *)
(* is queued; an edit request that began runs to its end.                  *)
Fairness == WF_vars(Tick) /\ WF_vars(AddLevel) /\ \A w \in Worker : WF_vars(Pass(w))

FairSpec == Spec /\ Fairness

-----------------------------------------------------------------------------
(* Properties *)

\* Every table and every process holds values of its type.
TypeOK ==
  /\ row \in [Incident -> Row]
  /\ born \in [Incident -> Age]
  /\ log \in [Incident -> SUBSET Entry]
  /\ notices \in [Incident -> [Level -> 0..MaxNotices]]
  /\ frames \in [Incident -> Nat] /\ disturbed \in SUBSET Incident
  /\ levels \in SUBSET Level /\ adding \in SUBSET Level
  /\ assigned \in BOOLEAN /\ edits \in 0..MaxEdits
  /\ at \in [Worker -> {"idle", "scan", "expire", "logExpired", "raise", "notify",
                        "logNotified", "resolve", "logResolved"}]
  /\ todo \in [Worker -> SUBSET Incident]
  /\ copy \in [Worker -> [Incident -> Instance]]
  /\ faults \in 0..MaxFaults
  /\ bridge \in [at : {"idle", "create", "photo"}, inc : Incident]
  /\ human \in [Human -> [at : {"idle", "save", "log", "accept", "refuse"},
                          inc : Incident, level : Level]]
  /\ receiver \in [Receiver -> [at : {"idle", "save"}, inc : Incident, row : Row]]

Consistent(r) ==
  /\ r.status \in {"none", "active"} => ~r.stamped /\ r.by = Nobody
  /\ r.status \in Closed => r.stamped
  /\ r.status = "acknowledged" => r.by # Nobody

\* Whatever saves race, the columns of a row agree: an active row has neither
\* a resolution time nor an acknowledger, a closed row has a resolution time,
\* and an acknowledged row names who attended it.  No save writes only a part
\* of them, and no stale instance mixes two moments of the row.
RowConsistent == \A i \in Incident : Consistent(row[i])

Explained(i, l) == l > 1 => [action |-> "escalated", level |-> l] \in log[i]

\* The audit trail explains the level a row is at, whatever passes overlap or
\* die: above level 1 there is an entry of the escalation to that level,
\* because the entry is written before the row.
LevelExplained == \A i \in Incident : Explained(i, row[i].level)

\* Without failures, the audit trail explains how a row was closed, or the
\* process that closed it is about to write the entry.
ClosureExplained ==
  \A i \in Incident :
    /\ row[i].status = "expired" =>
         Logged(i, "expired") \/ \E w \in Worker : Ready(w, "logExpired") /\ Current(w) = i
    /\ row[i].status = "acknowledged" =>
         Logged(i, "acknowledged") \/ \E o \in Operator : human[o].at = "log" /\ human[o].inc = i
    /\ row[i].status = "resolved" =>
         \/ Logged(i, "resolved")
         \/ \E w \in Worker : Ready(w, "logResolved") /\ Current(w) = i
         \/ \E p \in Poller : human[p].at = "log" /\ human[p].inc = i

\* Whatever saves race, the row of an incident names the last frame that was
\* stored for it: no stale save brings back an older one or none at all.  And
\* the receiver and the bridge together replace a stored frame at most once.
SnapshotKept == \A i \in Incident : row[i].snap = frames[i] /\ frames[i] <= 2

\* A level is notified a second time only when two passes went through their
\* lists with the incident in both, when a photo saved with the whole row took
\* back the level the incident had reached, or when a pass failed or died
\* between the messages and their entry: an edited ladder, an operator, a
\* failure elsewhere or a photo that takes back nothing never lead to it.
NotifiedOnce ==
  \A i \in Incident : \A l \in Level : notices[i][l] > 1 => i \in disturbed

\* An incident that left a level it was escalated to, or expired at it, was
\* notified at that level, although the row moves up before the messages are
\* sent: again with the exception of these three disturbances.
EnteredLevelNotified ==
  \A i \in Incident : \A l \in Level :
    /\ [action |-> "escalated", level |-> l] \in log[i]
    /\ row[i].level > l \/ row[i].status = "expired"
    => notices[i][l] >= 1 \/ i \in disturbed

\* The step is a save of the whole row.
Rewritten(i) ==
  \/ bridge.at = "photo" /\ bridge.inc = i /\ bridge'.at = "idle"
  \/ \E r \in Receiver :
        receiver[r].at = "save" /\ receiver[r].inc = i /\ receiver'[r].at = "idle"

Opens(i) == row[i].status = "none" /\ row'[i].status = "active" /\ row'[i].level = 1
Climbs(i) == row'[i].status = row[i].status /\ row'[i].level > row[i].level
Closes(i) ==
  row[i].status # "none" /\ row'[i].status \in Closed /\ row'[i].level = row[i].level

\* An incident opens once, climbs level by level and stays closed, whatever
\* ladders, failures and saves of columns interleave.  Only the save of a whole
\* row opens it again or takes back its level, and only once it is disturbed do
\* the passes write a level below the one it has.
LifecycleKept ==
  [][\A i \in Incident :
       \/ Opens(i) \/ Climbs(i) \/ Closes(i)
       \/ row'[i].status = row[i].status /\ row'[i].level = row[i].level
       \/ Rewritten(i)
       \/ row'[i].status = row[i].status /\ i \in disturbed]_row

\* No incident stays open for ever, whatever passes overlap or die and however
\* the ladder is edited: it has an end, and the passes climb it.
EventuallyClosed ==
  \A i \in Incident : row[i].status = "active" ~> row[i].status # "active"

\* One pass at a time, and no save of whole rows, implement the lifecycle: an
\* operator and the pass may race to close an incident, but it climbs level by
\* level, is closed, and stays closed.
Lifecycle == INSTANCE IncidentLifecycle WITH
  state <- [i \in Incident |-> CASE row[i].status = "none" -> "none"
                                 [] row[i].status = "active" -> "open"
                                 [] OTHER -> "closed"],
  level <- [i \in Incident |-> row[i].level]

ImplementsLifecycle == Lifecycle!LifecycleSpec

-----------------------------------------------------------------------------
(* What the documentation says, and the code does not do. *)

\* README: an incident expires on a timeout "sin ack", so one that somebody
\* attended does not end up expired.  The pass saves the status it decided on
\* from an instance read before the acknowledgement.
ExpiredUnattended == \A i \in Incident : row[i].status = "expired" => row[i].by = Nobody

\* README: the status goes from active to acknowledged to resolved or expired;
\* nothing leads back to active.  A snapshot saved from an instance read
\* before the incident was closed writes its old status.
NeverReopened ==
  [][\A i \in Incident : row[i].status \in Closed => row'[i].status # "active"]_row

\* The poller tells the operator that the alert "ya fue atendida o expiro" only
\* when it is no longer active.
RefusedOnlyIfOver ==
  [][\A p \in Poller : human[p].at # "refuse" /\ human'[p].at = "refuse" =>
       human'[p].inc \notin Active]_human

\* README: an incident of a device with a site expires when the time of its
\* level is over and there are no more levels; saving the site's form with the
\* same ladder does not close it.
ExpiresOnTimeout ==
  [][\A i \in Incident : row[i].status = "active" /\ row'[i].status = "expired" =>
       \/ row[i].age >= Timeout[row[i].level]
       \/ \E w \in Worker : Ready(w, "expire") /\ Current(w) = i /\ ~Held(w).site]_row
=============================================================================
