----------------------------- MODULE NodeStatus -----------------------------
(***************************************************************************)
(* The status the central keeps of one node, and the alerts it raises      *)
(* about it (django/central): the telemetry view, which saves what a node  *)
(* reports and derives its status, against central_check, the Celery task  *)
(* that marks a node without telemetry as offline.  A view runs as a       *)
(* series of database statements, in one of several workers, and a node    *)
(* that gives up after 10 s leaves its request running; a run of the task  *)
(* may take longer than its period.                                        *)
(***************************************************************************)
EXTENDS Integers, FiniteSets

CONSTANTS
  Request,    \* the telemetry requests that can be in flight together
  Run,        \* the runs of central_check that can be at work together
  OffAfter,   \* NODE_OFFLINE_AFTER_SECONDS, in periods of central_check
  AlertCap,   \* alerts of a kind are counted up to here
  Troubles,   \* the sets of signs a node can be in (subsets of Sign)
  MaxFaults   \* bound on the requests and runs killed

ASSUME OffAfterAssumption == OffAfter \in Nat \ {0}
ASSUME AlertCapAssumption == AlertCap \in Nat \ {0}
ASSUME MaxFaultsAssumption == MaxFaults \in Nat

VARIABLES
  node,     \* the columns of Node, with the age of last_seen
  alerts,   \* the active alerts of each kind
  req,      \* what each request has read and where it stands
  check,    \* where each run of central_check stands
  faults,   \* requests and runs killed so far
  trust     \* history: how the last change of the status went

vars == <<node, alerts, req, check, faults, trust>>

\* "kept": it ran alone to its end.  "doubtful": it was cut short, or overlapped
\* another.  "mixed": two of the writers at work have overlapped.
Trust == {"kept", "doubtful", "mixed"}

Status == {"online", "degraded", "offline"}
Kind == {"nodo_offline", "nodo_degradado"}
Step == {"free", "sent", "read", "seen", "stored", "alert"}

----------------------------------------------------------------------------
(* What a node reports *)

\* The signs derive_status looks for, and the collector each one comes from.
Sign == {"camera_down", "fps_low", "gpu_full", "disk_full", "pipeline_stalled"}
Collector == {"devices", "redis", "system", "deepstream"}
FailsWith(collector) ==
  CASE collector = "devices"    -> {"camera_down", "fps_low"}
    [] collector = "redis"      -> {"fps_low"}
    [] collector = "system"     -> {"gpu_full", "disk_full"}
    [] collector = "deepstream" -> {"pipeline_stalled"}

\* A collector that fails is left out of the report without a trace.
Collected(trouble, failed) == trouble \ UNION {FailsWith(c) : c \in failed}

DeriveStatus(signs) == IF signs = {} THEN "online" ELSE "degraded"

----------------------------------------------------------------------------

Idle == [pc |-> "free", was |-> "online", verdict |-> "online"]

TypeOK ==
  /\ node \in [status : Status, reported : BOOLEAN, silence : 0..OffAfter + 1,
               summary : {"online", "degraded"}]
  /\ alerts \in [Kind -> 0..AlertCap]
  /\ req \in [Request -> [pc : Step, was : Status, verdict : {"online", "degraded"}]]
  /\ check \in [Run -> {"idle", "mark", "alert"}]
  /\ faults \in 0..MaxFaults
  /\ trust \in Trust

Init ==
  /\ node = [status |-> "offline", reported |-> FALSE, silence |-> 0,
             summary |-> "online"]
  /\ alerts = [k \in Kind |-> 0]
  /\ req = [r \in Request |-> Idle]
  /\ check = [c \in Run |-> "idle"]
  /\ faults = 0
  /\ trust = "kept"

\* A request that has read the node works on what it read.
Working(r) == req[r].pc \in {"read", "seen", "stored", "alert"}
Quiet == (\A c \in Run : check[c] = "idle") /\ (\A r \in Request : ~Working(r))

\* What a writer that starts, and one that ends, does to the trust.
Starts == trust' = IF Quiet THEN trust ELSE "mixed"
Ends(outcome) ==
  trust' = IF trust # "mixed" THEN outcome ELSE IF Quiet' THEN "doubtful" ELSE "mixed"

Capped(n) == IF n < AlertCap THEN n + 1 ELSE n

\* The alert statement gone wrong: only the alert of the other kind is resolved.
AlertsAfterSlip(status) ==
  CASE status = "offline"  -> [alerts EXCEPT !["nodo_offline"] = Capped(@)]
    [] status = "degraded" -> [alerts EXCEPT !["nodo_degradado"] = Capped(@)]
    [] status = "online"   -> [alerts EXCEPT !["nodo_degradado"] = 0]

\* update_node_status raises an alert when a node gets worse and resolves
\* every active one when it comes back to online.
AlertsAfter(status) ==
  CASE status = "offline"  -> [alerts EXCEPT !["nodo_offline"] = Capped(@)]
    [] status = "degraded" -> [alerts EXCEPT !["nodo_degradado"] = Capped(@)]
    [] status = "online"   -> [k \in Kind |-> 0]

----------------------------------------------------------------------------
(* Telemetry *)

\* The node collects and posts its report; the one before may still be running.
SendTelemetry(r) ==
  /\ req[r].pc = "free"
  /\ \E trouble \in Troubles, failed \in SUBSET Collector :
       req' = [req EXCEPT ![r] =
                 [Idle EXCEPT !.pc = "sent",
                              !.verdict = DeriveStatus(Collected(trouble, failed))]]
  /\ UNCHANGED <<node, alerts, check, faults, trust>>

\* The request is lost, or refused: unknown or inactive node, wrong signature,
\* a clock more than 300 s apart, a token issued anew.
Refuse(r) ==
  /\ req[r].pc = "sent"
  /\ req' = [req EXCEPT ![r] = Idle]
  /\ UNCHANGED <<node, alerts, check, faults, trust>>

\* _get_node: the whole row is read once, the status with it.
ReadNode(r) ==
  /\ req[r].pc = "sent"
  /\ req' = [req EXCEPT ![r].pc = "read", ![r].was = node.status]
  /\ Starts
  /\ UNCHANGED <<node, alerts, check, faults>>

SaveSeen(r) ==
  /\ req[r].pc = "read"
  /\ node' = [node EXCEPT !.reported = TRUE, !.silence = 0]
  /\ req' = [req EXCEPT ![r].pc = "seen"]
  /\ UNCHANGED <<alerts, check, faults, trust>>

\* The rows of NodeMetric, which _prune keeps at 300 a source, and the summary.
StoreReport(r) ==
  /\ req[r].pc = "seen"
  /\ node' = [node EXCEPT !.summary = req[r].verdict]
  /\ req' = [req EXCEPT ![r].pc = "stored"]
  /\ UNCHANGED <<alerts, check, faults, trust>>

\* The status gone wrong: a node that is offline is left to central_check.
SaveStatusSlip(r) ==
  /\ req[r].pc = "stored" /\ UNCHANGED <<alerts, check, faults>>
  /\ IF req[r].was \in {req[r].verdict, "offline"}
     THEN /\ req' = [req EXCEPT ![r] = Idle]
          /\ UNCHANGED node
          /\ Ends(trust)
     ELSE /\ req' = [req EXCEPT ![r].pc = "alert"]
          /\ node' = [node EXCEPT !.status = req[r].verdict]
          /\ UNCHANGED trust

\* update_node_status compares with the status this request has read.
SaveStatus(r) ==
  /\ req[r].pc = "stored" /\ UNCHANGED <<alerts, check, faults>>
  /\ IF req[r].was = req[r].verdict
     THEN /\ req' = [req EXCEPT ![r] = Idle]
          /\ UNCHANGED node
          /\ Ends(trust)
     ELSE /\ req' = [req EXCEPT ![r].pc = "alert"]
          /\ node' = [node EXCEPT !.status = req[r].verdict]
          /\ UNCHANGED trust

RaiseAlert(r) ==
  /\ req[r].pc = "alert"
  /\ alerts' = AlertsAfter(req[r].verdict)
  /\ req' = [req EXCEPT ![r] = Idle]
  /\ UNCHANGED <<node, check, faults>>
  /\ Ends("kept")

\* The alert cannot be saved: its message, made of the reasons and the names of
\* the cameras, is longer than the column, or the database fails.  The status
\* is saved already, and the next report finds it as it should be.
RaiseAlertFails(r) ==
  /\ req[r].pc = "alert"
  /\ req' = [req EXCEPT ![r] = Idle]
  /\ UNCHANGED <<node, alerts, check, faults>>
  /\ Ends("doubtful")

\* A worker is killed in the middle of a request.
Kill(r) ==
  /\ Working(r)
  /\ faults < MaxFaults
  /\ faults' = faults + 1
  /\ req' = [req EXCEPT ![r] = Idle]
  /\ UNCHANGED <<node, alerts, check>>
  /\ Ends("doubtful")

----------------------------------------------------------------------------
(* central_check *)

Silent == node.reported /\ node.silence > OffAfter

\* mark_offline_nodes reads the rows in one query.
ReadNodes(c) ==
  /\ check[c] = "idle"
  /\ Silent /\ node.status # "offline"
  /\ check' = [check EXCEPT ![c] = "mark"]
  /\ Starts
  /\ UNCHANGED <<node, alerts, req, faults>>

\* The task gone wrong: a node that has an active alert is taken as marked.
MarkOfflineSlip(c) ==
  /\ check[c] = "mark"
  /\ IF alerts["nodo_offline"] > 0
     THEN /\ check' = [check EXCEPT ![c] = "idle"]
          /\ UNCHANGED node
     ELSE /\ check' = [check EXCEPT ![c] = "alert"]
          /\ node' = [node EXCEPT !.status = "offline"]
  /\ UNCHANGED <<alerts, req, faults, trust>>

MarkOffline(c) ==
  /\ check[c] = "mark"
  /\ node' = [node EXCEPT !.status = "offline"]
  /\ check' = [check EXCEPT ![c] = "alert"]
  /\ UNCHANGED <<alerts, req, faults, trust>>

AlertOffline(c) ==
  /\ check[c] = "alert"
  /\ alerts' = AlertsAfter("offline")
  /\ check' = [check EXCEPT ![c] = "idle"]
  /\ UNCHANGED <<node, req, faults>>
  /\ Ends("kept")

AlertOfflineFails(c) ==
  /\ check[c] = "alert"
  /\ check' = [check EXCEPT ![c] = "idle"]
  /\ UNCHANGED <<node, alerts, req, faults>>
  /\ Ends("doubtful")

\* The worker is killed, or the save of a node before this one raises.
KillCheck(c) ==
  /\ check[c] # "idle"
  /\ faults < MaxFaults
  /\ faults' = faults + 1
  /\ check' = [check EXCEPT ![c] = "idle"]
  /\ UNCHANGED <<node, alerts, req>>
  /\ Ends("doubtful")

Tick ==
  /\ node.silence <= OffAfter
  /\ node' = [node EXCEPT !.silence = @ + 1]
  /\ UNCHANGED <<alerts, req, check, faults, trust>>

----------------------------------------------------------------------------

Handle(r) ==
  ReadNode(r) \/ SaveSeen(r) \/ StoreReport(r) \/ SaveStatus(r)
  \/ RaiseAlert(r) \/ RaiseAlertFails(r)
Check(c) == ReadNodes(c) \/ MarkOffline(c) \/ AlertOffline(c) \/ AlertOfflineFails(c)

Next ==
  \/ \E r \in Request : SendTelemetry(r) \/ Refuse(r) \/ Handle(r) \/ Kill(r)
  \/ \E c \in Run : Check(c) \/ KillCheck(c)
  \/ Tick

Spec == Init /\ [][Next]_vars

\* A request that has been read runs to its end, and Celery beat starts
\* central_check every 30 s; nothing makes a node send or a report arrive.
Fairness ==
  /\ \A r \in Request : WF_vars(Working(r) /\ Handle(r))
  /\ \A c \in Run : WF_vars(Check(c))
  /\ WF_vars(Tick)

FairSpec == Spec /\ Fairness

----------------------------------------------------------------------------
(* Properties *)

\* Whenever the last change of a node's status ran alone to its end, the status
\* and the active alerts say the same: none while the node is online, one of its
\* kind while it is degraded or, having reported once, offline.  Changes before
\* it may have overlapped, been killed or failed to raise their alert: it makes
\* up for them, and until it comes nothing does (update_node_status).
AlertsMatchStatus ==
  trust = "kept" /\ Quiet =>
    /\ node.status = "online" => \A k \in Kind : alerts[k] = 0
    /\ node.status = "degraded" => alerts["nodo_degradado"] > 0
    /\ node.status = "offline" /\ node.reported => alerts["nodo_offline"] > 0

\* A node that has fallen silent for good is marked offline for good, whatever
\* late requests and killed workers have left behind (mark_offline_nodes).
SilentGoesOffline ==
  (<>[](node.reported /\ node.silence > OffAfter)) => <>[](node.status = "offline")

\* A node that keeps reporting in time does not stay offline, although a
\* request compares its verdict with a status read before central_check wrote
\* (telemetry).
ReportingLeavesOffline ==
  (<>[](node.reported /\ node.silence <= OffAfter) /\ []<>(node.silence > 0)) =>
    <>[](node.status # "offline")
=============================================================================
