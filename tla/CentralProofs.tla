---------------------------- MODULE CentralProofs ----------------------------
(***************************************************************************)
(* The central and its nodes.  First, the status of a node and its alerts  *)
(* agree whenever the last change of the status ran alone to its end, for  *)
(* any number of requests and runs of the check, any limits and any        *)
(* troubles.  Then the commands of one node, for any number of commands,   *)
(* of polls in flight and of losses, and any limit of a poll.              *)
(***************************************************************************)
EXTENDS NodeStatus, NodeCommands, FiniteSetTheorems, SequenceTheorems,
        WellFoundedInduction, TLAPS

----------------------------------------------------------------------------
(* NodeStatus *)

Requests == [pc : Step, was : Status, verdict : {"online", "degraded"}]

\* What TypeOK says of the variables the argument needs.
Typed ==
  /\ node \in [status : Status, reported : BOOLEAN, silence : Int,
               summary : {"online", "degraded"}]
  /\ alerts \in [Kind -> 0..AlertCap]
  /\ req \in [Request -> Requests]
  /\ check \in [Run -> {"idle", "mark", "alert"}]
  /\ trust \in Trust

\* One writer at a time.
Alone ==
  /\ \A r, s \in Request : Working(r) /\ Working(s) => r = s
  /\ \A c, d \in Run : check[c] # "idle" /\ check[d] # "idle" => c = d
  /\ \A r \in Request, c \in Run : ~(Working(r) /\ check[c] # "idle")

OnlineMatches   == node.status = "online" => \A k \in Kind : alerts[k] = 0
DegradedMatches == node.status = "degraded" => alerts["nodo_degradado"] > 0
OfflineMatches  == node.status = "offline" /\ node.reported => alerts["nodo_offline"] > 0
Matches == OnlineMatches /\ DegradedMatches /\ OfflineMatches

\* A lone request knows the status until it saves its own, and then owes its
\* alert; the same goes for the check.
Owed ==
  /\ \A r \in Request :
       /\ req[r].pc \in {"read", "seen", "stored"} => req[r].was = node.status
       /\ req[r].pc = "alert" => node.status = req[r].verdict
  /\ \A c \in Run : check[c] = "alert" => node.status = "offline"

\* What the last change left is there until the next is saved.  A node reported
\* for the first time, or back from silence, is offline until its request has
\* saved the status.
Kept ==
  /\ \A r \in Request :
       /\ req[r].pc \in {"read", "seen", "stored"} => OnlineMatches /\ DegradedMatches
       /\ req[r].pc = "read" => OfflineMatches
  /\ Quiet \/ (\E c \in Run : check[c] = "mark") => Matches

StatusInv == Typed /\ (trust # "mixed" => Alone /\ Owed) /\ (trust = "kept" => Kept)

----------------------------------------------------------------------------
\* The alerts raised for a status are those it calls for.
LEMMA AlertsRaised ==
  ASSUME Typed, NEW status \in Status
  PROVE  /\ AlertsAfter(status) \in [Kind -> 0..AlertCap]
         /\ status = "online" => \A k \in Kind : AlertsAfter(status)[k] = 0
         /\ status = "degraded" => AlertsAfter(status)["nodo_degradado"] > 0
         /\ status = "offline" => AlertsAfter(status)["nodo_offline"] > 0
<1>1. \A n \in 0..AlertCap : Capped(n) \in 0..AlertCap /\ Capped(n) > 0
  BY AlertCapAssumption DEF Capped
<1>2. 0 \in 0..AlertCap
  BY AlertCapAssumption
<1> HIDE DEF Capped
<1>3. CASE status = "online"
  BY <1>2, <1>3 DEF AlertsAfter, Kind
<1>4. CASE status = "degraded"
  BY <1>1, <1>4 DEF AlertsAfter, Kind, Typed
<1>5. CASE status = "offline"
  BY <1>1, <1>5 DEF AlertsAfter, Kind, Typed
<1> QED
  BY <1>3, <1>4, <1>5 DEF Status

\* A request that is over.
LEMMA IdleTyped == Idle \in Requests /\ Idle.pc = "free"
BY DEF Idle, Requests, Step, Status

\* A node starts without a request and without an alert.
LEMMA StatusInit == Init => StatusInv
<1> SUFFICES ASSUME Init
             PROVE  StatusInv
  OBVIOUS
<1>1. Typed
  <2>1. alerts \in [Kind -> 0..AlertCap]
    BY AlertCapAssumption DEF Init
  <2>2. req \in [Request -> Requests]
    BY IdleTyped DEF Init
  <2>3. node \in [status : Status, reported : BOOLEAN, silence : Int,
                  summary : {"online", "degraded"}]
    BY DEF Init, Status
  <2>4. check \in [Run -> {"idle", "mark", "alert"}] /\ trust \in Trust
    BY DEF Init, Trust
  <2> QED
    BY <2>1, <2>2, <2>3, <2>4 DEF Typed
<1>2. /\ \A r \in Request : req[r].pc = "free"
      /\ \A c \in Run : check[c] = "idle"
  BY DEF Init, Idle
<1>3. Alone /\ Owed
  BY <1>2 DEF Alone, Owed, Working
<1>4. Kept
  BY <1>2 DEF Kept, Init, Matches, OnlineMatches, DegradedMatches, OfflineMatches
<1> QED
  BY <1>1, <1>3, <1>4 DEF StatusInv

\* When nobody is at work nobody owes anything.
LEMMA QuietOwes ==
  ASSUME Typed', Quiet'
  PROVE  /\ Alone' /\ Owed'
         /\ Matches' => Kept'
<1>1. /\ \A r \in Request : ~Working(r)'
      /\ \A c \in Run : check'[c] = "idle"
  BY DEF Quiet
<1>2. Alone'
  BY <1>1 DEF Alone
<1>3. Owed' /\ (Matches' => Kept')
  BY <1>1 DEF Owed, Kept, Working
<1> QED
  BY <1>2, <1>3

\* A writer that ends leaves the alerts to the outcome it ends with.
LEMMA EndKeeps ==
  ASSUME StatusInv, Typed', NEW outcome, Ends(outcome),
         trust # "mixed" => Quiet',
         trust # "mixed" /\ outcome = "kept" => Matches'
  PROVE  StatusInv'
<1>1. CASE trust = "mixed"
  <2>1. trust' # "kept" /\ (trust' # "mixed" => Quiet')
    BY <1>1 DEF Ends
  <2> QED
    BY <2>1, QuietOwes DEF StatusInv
<1>2. CASE trust # "mixed"
  <2>1. trust' = outcome
    BY <1>2 DEF Ends
  <2> QED
    BY <1>2, <2>1, QuietOwes DEF StatusInv
<1> QED
  BY <1>1, <1>2

\* A request that is alone when it ends leaves nobody at work.
LEMMA RequestEnds ==
  ASSUME StatusInv, NEW r \in Request, Working(r), trust # "mixed",
         req' = [req EXCEPT ![r] = Idle], UNCHANGED check
  PROVE  Quiet'
<1>1. /\ \A s \in Request : s # r => ~Working(s)
      /\ \A c \in Run : check[c] = "idle"
  BY DEF StatusInv, Alone
<1>2. req'[r].pc = "free" /\ \A s \in Request : s # r => req'[s] = req[s]
  BY IdleTyped DEF StatusInv, Typed
<1> QED
  BY <1>1, <1>2 DEF Quiet, Working

LEMMA RunEnds ==
  ASSUME StatusInv, NEW c \in Run, check[c] # "idle", trust # "mixed",
         check' = [check EXCEPT ![c] = "idle"], UNCHANGED req
  PROVE  Quiet'
<1>1. /\ \A r \in Request : ~Working(r)
      /\ \A d \in Run : d # c => check[d] = "idle"
  BY DEF StatusInv, Alone
<1>2. check'[c] = "idle" /\ \A d \in Run : d # c => check'[d] = check[d]
  BY DEF StatusInv, Typed
<1> QED
  BY <1>1, <1>2 DEF Quiet, Working

\* A request that does not work on the node.
LEMMA OutsideKeeps ==
  ASSUME StatusInv, NEW r \in Request, SendTelemetry(r) \/ Refuse(r)
  PROVE  StatusInv'
<1> DEFINE Sent(verdict) == [Idle EXCEPT !.pc = "sent", !.verdict = verdict]
<1>1. \A verdict \in {"online", "degraded"} :
        Sent(verdict) \in Requests /\ Sent(verdict).pc = "sent"
  BY DEF Idle, Requests, Step, Status
<1>2. \E new \in Requests :
        req' = [req EXCEPT ![r] = new] /\ new.pc \in {"free", "sent"}
  <2>1. CASE SendTelemetry(r)
    <3>1. PICK verdict \in {"online", "degraded"} : req' = [req EXCEPT ![r] = Sent(verdict)]
      BY <2>1 DEF SendTelemetry, DeriveStatus
    <3> QED
      BY <1>1, <3>1
  <2>2. CASE Refuse(r)
    BY <2>2, IdleTyped DEF Refuse
  <2> QED
    BY <2>1, <2>2
<1> HIDE DEF Sent
<1>3. Typed'
  <2>1. UNCHANGED <<node, alerts, check, trust>>
    BY DEF SendTelemetry, Refuse
  <2>2. req \in [Request -> Requests]
    BY DEF StatusInv, Typed
  <2>3. req' \in [Request -> Requests]
    BY <1>2, <2>2
  <2> QED
    BY <2>1, <2>3 DEF StatusInv, Typed
<1>4. UNCHANGED <<node, alerts, check, trust>>
  BY DEF SendTelemetry, Refuse
<1>5. \A s \in Request : s # r => req'[s] = req[s]
  BY DEF SendTelemetry, Refuse, StatusInv, Typed
<1>6. req[r].pc \in {"free", "sent"} /\ req'[r].pc \in {"free", "sent"}
  BY <1>2 DEF SendTelemetry, Refuse, StatusInv, Typed
<1>7. \A s \in Request : Working(s)' <=> Working(s)
  BY <1>5, <1>6 DEF Working
<1>8. Alone => Alone'
  BY <1>4, <1>7 DEF Alone
<1>9. Quiet' <=> Quiet
  BY <1>4, <1>7 DEF Quiet
<1>10. Matches' <=> Matches
  BY <1>4 DEF Matches, OnlineMatches, DegradedMatches, OfflineMatches
<1>11. (Owed => Owed') /\ (Kept => Kept')
  BY <1>4, <1>5, <1>6, <1>9, <1>10
  DEF Owed, Kept, OnlineMatches, DegradedMatches, OfflineMatches
<1> QED
  BY <1>3, <1>4, <1>8, <1>11 DEF StatusInv

\* A request that reads the node when nobody is at work knows the status.
LEMMA ReadNodeKeeps ==
  ASSUME StatusInv, NEW r \in Request, ReadNode(r)
  PROVE  StatusInv'
<1>1. Typed'
  BY DEF ReadNode, Starts, StatusInv, Typed, Requests, Step, Trust
<1>2. ASSUME trust' # "mixed"
      PROVE  Alone' /\ Owed' /\ (trust' = "kept" => Kept')
  <2>1. Quiet /\ trust' = trust /\ (trust = "kept" => Kept)
    BY <1>2 DEF ReadNode, Starts, StatusInv
  <2>2. \A s \in Request : s # r => req'[s] = req[s] /\ ~Working(s)
    BY <2>1 DEF ReadNode, StatusInv, Typed, Quiet
  <2>3. req'[r].pc = "read" /\ req'[r].was = node.status
    BY DEF ReadNode, StatusInv, Typed
  <2>4. UNCHANGED <<node, alerts, check>> /\ \A c \in Run : check[c] = "idle"
    BY <2>1 DEF ReadNode, Quiet
  <2>5. Alone' /\ ~Quiet'
    BY <2>2, <2>3, <2>4 DEF Alone, Working, Quiet
  <2>6. Owed'
    BY <2>2, <2>3, <2>4 DEF Owed, Working
  <2>7. trust = "kept" => Matches'
    BY <2>1, <2>4 DEF Kept, Matches, OnlineMatches, DegradedMatches, OfflineMatches
  <2>8. Matches' => Kept'
    BY <2>2, <2>3, <2>4, <2>5 DEF Kept, Matches
  <2> QED
    BY <2>1, <2>5, <2>6, <2>7, <2>8
<1> QED
  BY <1>1, <1>2 DEF StatusInv

\* What a request that works on finds: it is alone.
LEMMA WorkingAlone ==
  ASSUME StatusInv, NEW r \in Request, Working(r), trust # "mixed",
         NEW new \in Requests, new.pc \in {"seen", "stored", "alert"},
         req' = [req EXCEPT ![r] = new], UNCHANGED check
  PROVE  /\ Alone' /\ Owed /\ ~Quiet'
         /\ \A c \in Run : check[c] = "idle"
         /\ \A s \in Request : s # r => req'[s].pc \in {"free", "sent"}
         /\ req'[r] = new
<1>1. Alone /\ Owed /\ \A c \in Run : check[c] = "idle"
  BY DEF StatusInv, Alone
<1>2. req'[r] = new /\ \A s \in Request : s # r => req'[s] = req[s] /\ ~Working(s)
  BY <1>1 DEF StatusInv, Typed, Alone
<1>3. \A s \in Request : s # r => ~Working(s)' /\ req'[s].pc \in {"free", "sent"}
  BY <1>2 DEF Working, StatusInv, Typed, Requests, Step
<1>4. Working(r)'
  BY <1>2 DEF Working
<1> QED
  BY <1>1, <1>2, <1>3, <1>4 DEF Alone, Quiet

\* Taking in a report touches neither the status nor the alerts.
LEMMA ReportKeeps ==
  ASSUME StatusInv, NEW r \in Request, SaveSeen(r) \/ StoreReport(r)
  PROVE  StatusInv'
<1>1. Typed'
  <2>1. req' \in [Request -> Requests]
    BY DEF SaveSeen, StoreReport, StatusInv, Typed, Requests, Step
  <2>2. req[r].verdict \in {"online", "degraded"}
    BY DEF StatusInv, Typed, Requests
  <2>3. node' \in [status : Status, reported : BOOLEAN, silence : Int,
                   summary : {"online", "degraded"}]
    <3>1. CASE SaveSeen(r)
      <4>1. node' = [node EXCEPT !.reported = TRUE, !.silence = 0]
        BY <3>1 DEF SaveSeen
      <4>2. node \in [status : Status, reported : BOOLEAN, silence : Int,
                      summary : {"online", "degraded"}]
        BY DEF StatusInv, Typed
      <4>3. TRUE \in BOOLEAN /\ 0 \in Int
        OBVIOUS
      <4> QED
        BY <4>1, <4>2, <4>3
    <3>2. CASE StoreReport(r)
      BY <2>2, <3>2 DEF StoreReport, StatusInv, Typed
    <3> QED
      BY <3>1, <3>2
  <2> QED
    BY <2>1, <2>3 DEF SaveSeen, StoreReport, StatusInv, Typed
<1>2. ASSUME trust' # "mixed"
      PROVE  Alone' /\ Owed' /\ (trust' = "kept" => Kept')
  <2>1. PICK pc \in {"seen", "stored"} : req' = [req EXCEPT ![r].pc = pc]
    BY DEF SaveSeen, StoreReport
  <2> DEFINE new == [req[r] EXCEPT !.pc = pc]
  <2>2. req' = [req EXCEPT ![r] = new] /\ new \in Requests /\ new.pc = pc
    BY <2>1 DEF StatusInv, Typed, Requests, Step
  <2>3. Working(r) /\ trust # "mixed" /\ UNCHANGED <<check, alerts, trust>>
    BY <1>2 DEF SaveSeen, StoreReport, Working
  <2>4. /\ Alone' /\ Owed /\ ~Quiet'
        /\ \A c \in Run : check[c] = "idle"
        /\ \A s \in Request : s # r => req'[s].pc \in {"free", "sent"}
        /\ req'[r] = new
    BY <2>2, <2>3, WorkingAlone
  <2>5. req'[r].pc = pc /\ req'[r].was = req[r].was
    BY <2>2, <2>4 DEF StatusInv, Typed
  <2>6. node'.status = node.status
    BY DEF SaveSeen, StoreReport, StatusInv, Typed
  <2>7. req[r].was = node.status
    BY <2>4 DEF Owed, SaveSeen, StoreReport
  <2>8. Owed'
    BY <2>3, <2>4, <2>5, <2>6, <2>7 DEF Owed
  <2>9. trust = "kept" => OnlineMatches' /\ DegradedMatches'
    <3>1. trust = "kept" => OnlineMatches /\ DegradedMatches
      BY DEF StatusInv, Kept, SaveSeen, StoreReport
    <3> QED
      BY <2>3, <2>6, <3>1 DEF OnlineMatches, DegradedMatches
  <2>10. trust = "kept" => Kept'
    BY <2>3, <2>4, <2>5, <2>9 DEF Kept
  <2> QED
    BY <2>3, <2>4, <2>8, <2>10
<1> QED
  BY <1>1, <1>2 DEF StatusInv

\* A request that changes the status owes its alert from then on.
LEMMA SaveStatusKeeps ==
  ASSUME StatusInv, NEW r \in Request, SaveStatus(r)
  PROVE  StatusInv'
<1>1. Working(r) /\ UNCHANGED <<check, alerts>>
  BY DEF SaveStatus, Working
<1>2. CASE req[r].was = req[r].verdict
  <2>1. req' = [req EXCEPT ![r] = Idle] /\ UNCHANGED node /\ Ends(trust)
    BY <1>2 DEF SaveStatus
  <2>2. Typed'
    BY <1>1, <2>1, IdleTyped DEF Ends, StatusInv, Typed, Trust
  <2>3. ASSUME trust = "kept"
        PROVE  Matches'
    <3>1. req[r].was = node.status /\ OnlineMatches /\ DegradedMatches
      BY <2>3 DEF StatusInv, Owed, Kept, SaveStatus
    <3>2. req[r].verdict # "offline"
      BY DEF StatusInv, Typed, Requests
    <3> QED
      BY <1>1, <1>2, <2>1, <3>1, <3>2 DEF Matches, OnlineMatches, DegradedMatches, OfflineMatches
  <2> QED
    BY <1>1, <2>1, <2>2, <2>3, RequestEnds, EndKeeps
<1>3. CASE req[r].was # req[r].verdict
  <2> DEFINE new == [req[r] EXCEPT !.pc = "alert"]
  <2>1. /\ req' = [req EXCEPT ![r] = new] /\ node' = [node EXCEPT !.status = req[r].verdict]
        /\ UNCHANGED trust
    BY <1>3 DEF SaveStatus, StatusInv, Typed
  <2>2. new \in Requests /\ new.pc = "alert"
    BY DEF StatusInv, Typed, Requests, Step
  <2>3. Typed'
    BY <1>1, <2>1, <2>2 DEF StatusInv, Typed, Requests, Status
  <2>4. ASSUME trust # "mixed"
        PROVE  Alone' /\ Owed' /\ Kept'
    <3>1. /\ Alone' /\ ~Quiet'
          /\ \A c \in Run : check[c] = "idle"
          /\ \A s \in Request : s # r => req'[s].pc \in {"free", "sent"}
          /\ req'[r] = new
      BY <1>1, <2>1, <2>2, <2>4, WorkingAlone
    <3>2. req'[r].pc = "alert" /\ req'[r].verdict = node'.status
      BY <2>1, <3>1 DEF StatusInv, Typed
    <3> QED
      BY <1>1, <3>1, <3>2 DEF Owed, Kept
  <2> QED
    BY <2>1, <2>3, <2>4 DEF StatusInv
<1> QED
  BY <1>2, <1>3

\* The alert a request owes is the one of the status it saved.
LEMMA RaiseAlertKeeps ==
  ASSUME StatusInv, NEW r \in Request, RaiseAlert(r)
  PROVE  StatusInv'
<1>1. /\ req[r].verdict \in Status /\ Typed /\ Working(r) /\ UNCHANGED <<check, node>>
      /\ req' = [req EXCEPT ![r] = Idle] /\ Ends("kept")
  BY DEF RaiseAlert, StatusInv, Typed, Requests, Status, Working
<1>2. Typed'
  BY <1>1, IdleTyped, AlertsRaised DEF RaiseAlert, Ends, Typed, Trust
<1>3. ASSUME trust # "mixed"
      PROVE  Matches'
  <2>1. node.status = req[r].verdict /\ alerts' = AlertsAfter(node.status)
    BY <1>3 DEF StatusInv, Owed, RaiseAlert
  <2> QED
    BY <1>1, <2>1, AlertsRaised DEF Matches, OnlineMatches, DegradedMatches, OfflineMatches
<1> QED
  BY <1>1, <1>2, <1>3, RequestEnds, EndKeeps

\* A request that is cut short leaves the alerts in doubt.
LEMMA CutKeeps ==
  ASSUME StatusInv, NEW r \in Request, RaiseAlertFails(r) \/ Kill(r)
  PROVE  StatusInv'
<1>1. /\ Working(r) /\ UNCHANGED <<check, node, alerts>>
      /\ req' = [req EXCEPT ![r] = Idle] /\ Ends("doubtful")
  BY DEF RaiseAlertFails, Kill, Working
<1>2. Typed'
  BY <1>1, IdleTyped DEF Ends, StatusInv, Typed, Trust
<1> QED
  BY <1>1, <1>2, RequestEnds, EndKeeps

\* The steps of central_check.
LEMMA CheckKeeps ==
  ASSUME StatusInv, NEW c \in Run, Check(c) \/ KillCheck(c)
  PROVE  StatusInv'
<1>1. CASE ReadNodes(c)
  <2>1. Typed'
    BY <1>1 DEF ReadNodes, Starts, StatusInv, Typed, Trust
  <2>2. ASSUME trust' # "mixed"
        PROVE  Alone' /\ Owed' /\ (trust' = "kept" => Kept')
    <3>1. Quiet /\ trust' = trust /\ UNCHANGED <<node, alerts, req>>
      BY <1>1, <2>2 DEF ReadNodes, Starts
    <3>2. check'[c] = "mark" /\ \A d \in Run : d # c => check'[d] = "idle"
      BY <1>1, <3>1 DEF ReadNodes, Quiet, StatusInv, Typed
    <3>3. Alone'
      BY <3>1, <3>2 DEF Alone, Quiet, Working
    <3>4. Owed'
      BY <3>1, <3>2 DEF Owed, Quiet, Working
    <3>5. trust = "kept" => Matches'
      BY <3>1 DEF StatusInv, Kept, Matches, OnlineMatches, DegradedMatches, OfflineMatches
    <3>6. Matches' => Kept'
      BY <3>1 DEF Kept, Matches
    <3> QED
      BY <3>1, <3>3, <3>4, <3>5, <3>6
  <2> QED
    BY <2>1, <2>2 DEF StatusInv
<1>2. CASE MarkOffline(c)
  <2>1. Typed'
    BY <1>2 DEF MarkOffline, StatusInv, Typed, Status
  <2>2. ASSUME trust # "mixed"
        PROVE  Alone' /\ Owed' /\ Kept'
    <3>1. Alone /\ check[c] = "mark" /\ UNCHANGED req
      BY <1>2, <2>2 DEF MarkOffline, StatusInv
    <3>2. /\ check'[c] = "alert" /\ node'.status = "offline"
          /\ \A d \in Run : d # c => check'[d] = "idle"
      BY <1>2, <3>1 DEF MarkOffline, StatusInv, Typed, Alone
    <3>3. \A r \in Request : ~Working(r) /\ ~Working(r)'
      BY <3>1 DEF Alone, Working
    <3>4. Alone' /\ ~Quiet'
      BY <3>2, <3>3 DEF Alone, Quiet
    <3>5. \A r \in Request : req'[r].pc \notin {"read", "seen", "stored", "alert"}
      BY <3>3 DEF Working
    <3> QED
      BY <3>2, <3>4, <3>5 DEF Owed, Kept
  <2> QED
    BY <1>2, <2>1, <2>2 DEF MarkOffline, StatusInv
<1>3. CASE AlertOffline(c)
  <2>1. /\ check[c] = "alert" /\ UNCHANGED <<req, node>> /\ alerts' = AlertsAfter("offline")
        /\ check' = [check EXCEPT ![c] = "idle"] /\ Ends("kept")
    BY <1>3 DEF AlertOffline
  <2>2. Typed'
    BY <2>1, AlertsRaised DEF Ends, StatusInv, Typed, Status, Trust
  <2>3. ASSUME trust # "mixed"
        PROVE  Matches'
    <3>1. node'.status = "offline"
      BY <2>1, <2>3 DEF StatusInv, Owed
    <3>2. alerts'["nodo_offline"] > 0
      BY <2>1, AlertsRaised DEF StatusInv, Status
    <3> QED
      BY <3>1, <3>2 DEF Matches, OnlineMatches, DegradedMatches, OfflineMatches
  <2> QED
    BY <2>1, <2>2, <2>3, RunEnds, EndKeeps
<1>4. CASE AlertOfflineFails(c) \/ KillCheck(c)
  <2>1. /\ check[c] # "idle" /\ UNCHANGED <<req, node, alerts>>
        /\ check' = [check EXCEPT ![c] = "idle"] /\ Ends("doubtful")
    BY <1>4 DEF AlertOfflineFails, KillCheck
  <2>2. Typed'
    BY <2>1 DEF Ends, StatusInv, Typed, Trust
  <2> QED
    BY <2>1, <2>2, RunEnds, EndKeeps
<1> QED
  BY <1>1, <1>2, <1>3, <1>4 DEF Check

\* Time passes for the silence of the node only.
LEMMA TickKeeps ==
  ASSUME StatusInv, Tick
  PROVE  StatusInv'
<1>1. /\ Typed' /\ UNCHANGED <<alerts, req, check, trust>>
      /\ node'.status = node.status /\ node'.reported = node.reported
  BY DEF Tick, StatusInv, Typed
<1>2. (Quiet' <=> Quiet) /\ (Alone => Alone') /\ (Owed => Owed')
  BY <1>1 DEF Quiet, Working, Alone, Owed
<1>3. Kept => Kept'
  BY <1>1, <1>2 DEF Kept, Matches, OnlineMatches, DegradedMatches, OfflineMatches
<1> QED
  BY <1>1, <1>2, <1>3 DEF StatusInv

\* Every step of the node, its requests and the check keeps the invariant.
LEMMA StatusStep == StatusInv /\ [Next]_vars => StatusInv'
<1> SUFFICES ASSUME StatusInv, [Next]_vars
             PROVE  StatusInv'
  OBVIOUS
<1>1. ASSUME NEW r \in Request, SendTelemetry(r) \/ Refuse(r) \/ Handle(r) \/ Kill(r)
      PROVE  StatusInv'
  BY <1>1, OutsideKeeps, ReadNodeKeeps, ReportKeeps, SaveStatusKeeps, RaiseAlertKeeps, CutKeeps
     DEF Handle
<1>2. ASSUME NEW c \in Run, Check(c) \/ KillCheck(c)
      PROVE  StatusInv'
  BY <1>2, CheckKeeps
<1>3. CASE Tick
  BY <1>3, TickKeeps
<1>4. CASE UNCHANGED vars
  BY <1>4 DEF vars, StatusInv, Typed, Alone, Owed, Kept, Working, Quiet, Matches,
              OnlineMatches, DegradedMatches, OfflineMatches
<1> QED
  BY <1>1, <1>2, <1>3, <1>4 DEF Next

\* Whenever the last change of the status ran alone to its end, the status and
\* the active alerts say the same, for any number of requests and runs, and
\* whatever overlapped, was killed or failed to raise its alert before.
THEOREM AlertsMatch == Spec => []AlertsMatchStatus
<1>1. StatusInv => AlertsMatchStatus
  BY DEF StatusInv, Kept, AlertsMatchStatus, Matches, OnlineMatches, DegradedMatches,
         OfflineMatches
<1> QED
  BY <1>1, StatusInit, StatusStep, PTL DEF Spec

\* What is left of the types: the silence is counted up to its limit, and the
\* faults to their bound.
Bounds ==
  /\ node.silence \in 0..OffAfter + 1
  /\ faults \in 0..MaxFaults

\* Report starts the silence anew, Tick counts it no further than its limit.
LEMMA BoundsStep == StatusInv /\ Bounds /\ [Next]_vars => Bounds'
<1> SUFFICES ASSUME StatusInv, Bounds, [Next]_vars
             PROVE  Bounds'
  OBVIOUS
<1>1. node'.silence \in {node.silence, 0}
      \/ (node.silence <= OffAfter /\ node'.silence = node.silence + 1)
  <2> USE DEF StatusInv, Typed
  <2>1. CASE Tick
    BY <2>1 DEF Tick
  <2>2. ASSUME NEW c \in Run, Check(c) \/ KillCheck(c)
        PROVE  node'.silence = node.silence
    BY <2>2 DEF Check, ReadNodes, MarkOffline, AlertOffline, AlertOfflineFails, KillCheck
  <2>3. ASSUME NEW r \in Request, SaveSeen(r) \/ StoreReport(r) \/ SaveStatus(r)
        PROVE  node'.silence \in {node.silence, 0}
    BY <2>3 DEF SaveSeen, StoreReport, SaveStatus
  <2>4. ASSUME NEW r \in Request,
               SendTelemetry(r) \/ Refuse(r) \/ ReadNode(r) \/ RaiseAlert(r)
               \/ RaiseAlertFails(r) \/ Kill(r)
        PROVE  node' = node
    BY <2>4 DEF SendTelemetry, Refuse, ReadNode, RaiseAlert, RaiseAlertFails, Kill
  <2>5. CASE UNCHANGED vars
    BY <2>5 DEF vars
  <2> QED
    BY <2>1, <2>2, <2>3, <2>4, <2>5 DEF Next, Handle
<1>2. node'.silence \in 0..OffAfter + 1
  BY <1>1, OffAfterAssumption DEF Bounds
<1>3. faults' = faults \/ (faults < MaxFaults /\ faults' = faults + 1)
  <2>1. ASSUME NEW r \in Request,
               SendTelemetry(r) \/ Refuse(r) \/ Handle(r)
        PROVE  faults' = faults
    BY <2>1 DEF SendTelemetry, Refuse, Handle, ReadNode, SaveSeen, StoreReport, SaveStatus,
                RaiseAlert, RaiseAlertFails
  <2>2. ASSUME NEW c \in Run, Check(c)
        PROVE  faults' = faults
    BY <2>2 DEF Check, ReadNodes, MarkOffline, AlertOffline, AlertOfflineFails
  <2>3. CASE Tick \/ UNCHANGED vars
    BY <2>3 DEF Tick, vars
  <2>4. ASSUME NEW r \in Request, Kill(r)
        PROVE  faults < MaxFaults /\ faults' = faults + 1
    BY <2>4 DEF Kill
  <2>5. ASSUME NEW c \in Run, KillCheck(c)
        PROVE  faults < MaxFaults /\ faults' = faults + 1
    BY <2>5 DEF KillCheck
  <2> QED
    BY <2>1, <2>2, <2>3, <2>4, <2>5 DEF Next
<1> QED
  BY <1>2, <1>3, MaxFaultsAssumption DEF Bounds

\* The row, the alerts and the requests keep their types, whatever overlaps:
\* no status but the three of the model is ever written.
THEOREM StatusTyped == Spec => []TypeOK
<1>1. Init => Bounds
  BY OffAfterAssumption, MaxFaultsAssumption DEF Init, Bounds
<1>2. StatusInv /\ Bounds => TypeOK
  BY DEF StatusInv, Typed, Bounds, TypeOK, Requests
<1> QED
  BY <1>1, <1>2, StatusInit, StatusStep, BoundsStep, PTL DEF Spec

----------------------------------------------------------------------------
(* NodeCommands *)

\* A command that has been handed out, or whose result has come.
Settled(c) == cmd[c].status \notin {"none", "pending"}
Given(r) == Elements(poll[r].given)
Injective(s) == \A m, n \in 1..Len(s) : s[m] = s[n] => m = n

\* The agent waits exactly while there is a poll whose answer it would take,
\* and has a queue exactly while it works it off.
Turns ==
  /\ agent.pc = "wait" <=> agent.on # NoRequest
  /\ agent.on # NoRequest => poll[agent.on].pc # "free"
  /\ agent.queue = <<>> <=> agent.pc \in {"loop", "wait"}

\* A result that is told of a command follows from what became of it.
Told(c, success) ==
  cmd[c].outcome \in IF success THEN {"done", "refused", "unsent"} ELSE {"raised", "unsent"}

\* Of a command that was never handed out nothing was executed, and what the
\* table says of the others is what came of them.
RowExplained(c) ==
  /\ cmd[c].runs <= 1
  /\ cmd[c].runs = 0 <=> cmd[c].outcome = "none"
  /\ ~Settled(c) => cmd[c].runs = 0
  /\ cmd[c].status = "ok" => Told(c, TRUE)
  /\ cmd[c].status = "error" => Told(c, FALSE)
  /\ \A d \in Command : d < c /\ cmd[c].status # "none" => cmd[d].status # "none"

Rows == \A c \in Command : RowExplained(c)

\* A poll hands out commands that exist and no younger one before an older one,
\* each once; what the agent waits for has not been executed.
ListOrdered(r) ==
  /\ poll[r].pc # "mark" => poll[r].todo = {} /\ poll[r].given = <<>>
  /\ \A c \in poll[r].todo : cmd[c].status # "none"
  /\ \A c \in poll[r].todo : \A d \in Pending : d < c => d \in poll[r].todo
  /\ \A c \in Given(r) : Settled(c) /\ c \notin poll[r].todo
  /\ Injective(poll[r].given)
  /\ agent.on = r => \A c \in poll[r].todo \cup Given(r) : cmd[c].runs = 0

Lists == \A r \in PollRequest : ListOrdered(r)

\* Of its queue the agent has executed at most the head.
Queue ==
  /\ Injective(agent.queue)
  /\ \A n \in 1..Len(agent.queue) :
       /\ Settled(agent.queue[n])
       /\ cmd[agent.queue[n]].runs = IF n = 1 /\ agent.pc = "report" THEN 1 ELSE 0

\* A result on its way is that of the execution.
Posts ==
  \A p \in posts : Settled(p.id) /\ Told(p.id, p.success)

\* As long as nothing has gone wrong there is one poll, it marks what is still
\* pending, and the node has what was sent.
Calm ==
  losses = 0 =>
    /\ \A r \in PollRequest : poll[r].pc # "free" => agent.on = r
    /\ \A r \in PollRequest : poll[r].todo \subseteq Pending
    /\ \A c \in Command : cmd[c].status = "sent" => Held(c)

NodeInv == CommandsTypeOK /\ Turns /\ Rows /\ Lists /\ Queue /\ Posts /\ Calm /\ OldestFirst

----------------------------------------------------------------------------
(* Sequences and the list of a poll *)

\* The empty sequence has no element.
LEMMA NothingIn == Elements(<<>>) = {} /\ Injective(<<>>)
BY DEF Elements, Injective

\* A sequence that gets an element it has not.
LEMMA Appended ==
  ASSUME NEW s \in Seq(Command), NEW c \in Command
  PROVE  /\ Append(s, c) \in Seq(Command)
         /\ Elements(Append(s, c)) = Elements(s) \cup {c}
         /\ Injective(s) /\ c \notin Elements(s) => Injective(Append(s, c))
<1> DEFINE t == Append(s, c)
<1>1. /\ t \in Seq(Command) /\ Len(t) = Len(s) + 1 /\ Len(s) \in Nat
      /\ t[Len(s) + 1] = c
      /\ \A i \in 1..Len(s) : t[i] = s[i]
  BY AppendProperties, LenProperties
<1> HIDE DEF t
<1>2. 1..Len(t) = 1..Len(s) \cup {Len(s) + 1}
  BY <1>1
<1>3. Elements(t) = Elements(s) \cup {c}
  BY <1>1, <1>2 DEF Elements
<1>4. Injective(s) /\ c \notin Elements(s) => Injective(t)
  BY <1>1, <1>2 DEF Elements, Injective
<1> QED
  BY <1>1, <1>3, <1>4 DEF t

\* A sequence that loses its head.
LEMMA Beheaded ==
  ASSUME NEW s \in Seq(Command), s # <<>>
  PROVE  /\ Tail(s) \in Seq(Command) /\ Head(s) \in Command /\ Head(s) = s[1]
         /\ 1 \in 1..Len(s)
         /\ Elements(s) = {Head(s)} \cup Elements(Tail(s))
         /\ Tail(s) = <<>> <=> Len(s) = 1
         /\ \A n \in 1..Len(Tail(s)) : n + 1 \in 1..Len(s) /\ Tail(s)[n] = s[n + 1]
         /\ Injective(s) => Injective(Tail(s))
<1> DEFINE t == Tail(s)
<1>1. /\ t \in Seq(Command) /\ Head(s) \in Command /\ Head(s) = s[1]
      /\ Len(s) \in Nat /\ Len(s) >= 1 /\ Len(t) = Len(s) - 1
      /\ \A i \in 1..Len(t) : t[i] = s[i + 1]
  BY HeadTailProperties, LenProperties, EmptySeq
<1>2. t = <<>> <=> Len(t) = 0
  BY <1>1, EmptySeq
<1> HIDE DEF t
<1>3. \A n \in 1..Len(t) : n + 1 \in 1..Len(s)
  BY <1>1
<1>4. Elements(s) = {s[1]} \cup Elements(t)
  <2>1. ASSUME NEW n \in 1..Len(s), n # 1
        PROVE  n - 1 \in 1..Len(t) /\ t[n - 1] = s[n]
    BY <1>1, <2>1
  <2>2. Elements(s) \subseteq {s[1]} \cup Elements(t)
    BY <2>1 DEF Elements
  <2>3. {s[1]} \cup Elements(t) \subseteq Elements(s)
    BY <1>1, <1>3 DEF Elements
  <2> QED
    BY <2>2, <2>3
<1>5. Injective(s) => Injective(t)
  BY <1>1, <1>3 DEF Injective
<1> QED
  BY <1>1, <1>2, <1>3, <1>4, <1>5 DEF t

\* A command of a set of commands comes first.
LEMMA FirstIsFirst ==
  ASSUME NEW S \in SUBSET Command, S # {}
  PROVE  First(S) \in S /\ \A d \in S : First(S) <= d
<1>1. S \in SUBSET Nat
  BY MaxCommandsAssumption DEF Command
<1>2. PICK c \in S : \A d \in S : ~(<<d, c>> \in OpToRel(<, Nat))
  BY <1>1, WFMin, NatLessThanWellFounded
<1>3. \A d \in S : ~(d < c)
  BY <1>1, <1>2, Zenon DEF OpToRel
<1>4. \A d \in S : c <= d
  BY <1>1, <1>3
<1> QED
  BY <1>4 DEF First

\* The list of a poll leaves out no command older than one it has.
LEMMA OldestClosed ==
  /\ Oldest \subseteq Pending
  /\ \A c \in Oldest : \A d \in Pending : d < c => d \in Oldest
<1>1. Oldest \subseteq Pending
  BY DEF Oldest
<1>2. ASSUME NEW c \in Oldest, NEW d \in Pending, d < c
      PROVE  d \in Oldest
  <2> DEFINE Before(x) == {e \in Pending : e < x}
  <2>1. c \in Command /\ d \in Command /\ Pending \in SUBSET Command
    BY <1>1 DEF Pending
  <2>2. IsFiniteSet(Command)
    BY MaxCommandsAssumption, FS_Interval DEF Command
  <2>3. IsFiniteSet(Before(c))
    BY <2>1, <2>2, FS_Subset
  <2>4. ASSUME NEW e \in Before(d)
        PROVE  e \in Before(c)
    <3>1. e \in Pending /\ e < d /\ e \in Command
      BY <2>1
    <3>2. e \in Int /\ d \in Int /\ c \in Int
      BY <2>1, <3>1 DEF Command
    <3> QED
      BY <1>2, <3>1, <3>2
  <2>5. Cardinality(Before(d)) <= Cardinality(Before(c))
    BY <2>3, <2>4, FS_Subset
  <2>6. Cardinality(Before(d)) \in Nat /\ Cardinality(Before(c)) \in Nat
    BY <2>3, <2>4, FS_Subset, FS_CardinalityType
  <2>7. Cardinality(Before(c)) < PollLimit
    BY DEF Oldest
  <2>8. Cardinality(Before(d)) < PollLimit
    BY <2>5, <2>6, <2>7, PollLimitAssumption
  <2> QED
    BY <2>8 DEF Oldest
<1> QED
  BY <1>1, <1>2

----------------------------------------------------------------------------
(* The steps *)

\* The fields of a poll and of the agent have their types.
LEMMA FieldsTyped ==
  ASSUME CommandsTypeOK, NEW r \in PollRequest
  PROVE  /\ poll[r].pc \in {"free", "asked", "mark"}
         /\ poll[r].todo \in SUBSET Command /\ poll[r].given \in Seq(Command)
         /\ agent.pc \in {"loop", "wait", "run", "report"}
         /\ agent.on \in PollRequest \cup {NoRequest} /\ agent.queue \in Seq(Command)
         /\ r # NoRequest
BY NoRequestAssumption DEF CommandsTypeOK

\* As long as the rows stay, so does what depends on them alone.
LEMMA RowsStay ==
  ASSUME NodeInv, UNCHANGED cmd
  PROVE  Rows' /\ OldestFirst' /\ Pending' = Pending /\ \A c \in Command : Settled(c)' = Settled(c)
BY DEF NodeInv, Rows, RowExplained, OldestFirst, Pending, Settled, Told

\* A poll that stays keeps its list in order, unless the agent turns to it.
LEMMA ListStays ==
  ASSUME NodeInv, UNCHANGED cmd, NEW r \in PollRequest, poll'[r] = poll[r],
         agent'.on = r => agent.on = r
  PROVE  ListOrdered(r)'
BY DEF NodeInv, Lists, ListOrdered, Given, Settled, Pending

\* The agent asks: nobody else hands out anything, if nothing went wrong.
LEMMA PollKeeps ==
  ASSUME NodeInv, NEW r \in PollRequest, Poll(r)
  PROVE  NodeInv'
<1> USE DEF NodeInv
<1>1. /\ agent.pc = "loop" /\ poll[r].pc = "free"
      /\ poll' = [poll EXCEPT ![r] = [Free EXCEPT !.pc = "asked"]]
      /\ agent' = [agent EXCEPT !.pc = "wait", !.on = r]
      /\ UNCHANGED <<cmd, posts, losses>>
  BY DEF Poll
<1>2. /\ poll'[r] = [pc |-> "asked", todo |-> {}, given |-> <<>>]
      /\ \A q \in PollRequest : q # r => poll'[q] = poll[q]
  BY <1>1 DEF CommandsTypeOK, Free
<1>3. agent' = [pc |-> "wait", on |-> r, queue |-> agent.queue]
  BY <1>1 DEF CommandsTypeOK
<1>4. agent.on = NoRequest /\ r # NoRequest /\ agent.queue = <<>>
  BY <1>1, FieldsTyped DEF Turns
<1>5. CommandsTypeOK'
  <2>1. <<>> \in Seq(Command)
    OBVIOUS
  <2> QED
    BY <1>1, <1>3, <2>1 DEF CommandsTypeOK, Free
<1>6. Turns'
  BY <1>2, <1>3, <1>4 DEF Turns
<1>7. Lists'
  <2>1. ListOrdered(r)'
    BY <1>2, NothingIn DEF ListOrdered, Given
  <2>2. ASSUME NEW q \in PollRequest, q # r
        PROVE  ListOrdered(q)'
    BY <1>1, <1>2, <1>3, <2>2, ListStays
  <2> QED
    BY <2>1, <2>2 DEF Lists
<1>8. Queue' /\ Posts'
  BY <1>1, <1>3, <1>4 DEF Queue, Posts, Told, Settled, Injective
<1>9. Calm'
  <2> SUFFICES ASSUME losses = 0
               PROVE  /\ \A q \in PollRequest : poll'[q].pc # "free" => agent'.on = q
                      /\ \A q \in PollRequest : poll'[q].todo \subseteq Pending'
                      /\ \A c \in Command : cmd'[c].status = "sent" => Held(c)'
    BY <1>1 DEF Calm
  <2>1. \A q \in PollRequest : poll[q].pc = "free"
    BY <1>4, FieldsTyped DEF Calm
  <2>2. \A q \in PollRequest : poll'[q].todo \subseteq Pending'
    BY <1>1, <1>2 DEF Calm, Pending
  <2>3. ASSUME NEW c \in Command, cmd'[c].status = "sent"
        PROVE  Held(c)'
    <3>1. Held(c)
      BY <1>1, <2>3 DEF Calm
    <3>2. \E p \in posts : p.id = c
      BY <1>4, <3>1, FieldsTyped, NothingIn DEF Held
    <3> QED
      BY <1>1, <3>2 DEF Held
  <2> QED
    BY <1>2, <1>3, <2>1, <2>2, <2>3
<1> QED
  BY <1>1, <1>5, <1>6, <1>7, <1>8, <1>9, RowsStay

\* A poll reads its list: what is pending was never executed.
LEMMA ListKeeps ==
  ASSUME NodeInv, NEW r \in PollRequest, List(r)
  PROVE  NodeInv'
<1> USE DEF NodeInv
<1>1. /\ poll[r].pc = "asked" /\ UNCHANGED <<cmd, agent, posts, losses>>
      /\ poll' = [poll EXCEPT ![r] = [pc |-> "mark", todo |-> Oldest, given |-> <<>>]]
  BY DEF List
<1>2. /\ poll'[r] = [pc |-> "mark", todo |-> Oldest, given |-> <<>>]
      /\ \A q \in PollRequest : q # r => poll'[q] = poll[q]
  BY <1>1 DEF CommandsTypeOK
<1>3. Oldest \subseteq Pending /\ Pending \subseteq Command
  BY OldestClosed DEF Pending
<1>4. CommandsTypeOK'
  <2>1. <<>> \in Seq(Command)
    OBVIOUS
  <2> QED
    BY <1>1, <1>3, <2>1 DEF CommandsTypeOK
<1>5. Turns'
  BY <1>1, <1>2, FieldsTyped DEF Turns
<1>6. Lists'
  <2>1. \A c \in Oldest : cmd[c].runs = 0 /\ cmd[c].status # "none"
    BY <1>3 DEF Rows, RowExplained, Settled, Pending
  <2>2. Pending' = Pending
    BY <1>1 DEF Pending
  <2>3. ListOrdered(r)'
    BY <1>1, <1>2, <2>1, <2>2, NothingIn, OldestClosed DEF ListOrdered, Given
  <2>4. ASSUME NEW q \in PollRequest, q # r
        PROVE  ListOrdered(q)'
    BY <1>1, <1>2, <2>4, ListStays
  <2> QED
    BY <2>3, <2>4 DEF Lists
<1>7. Queue' /\ Posts'
  BY <1>1 DEF Queue, Posts, Told, Settled
<1>8. Calm'
  <2> SUFFICES ASSUME losses = 0
               PROVE  /\ \A q \in PollRequest : poll'[q].pc # "free" => agent'.on = q
                      /\ \A q \in PollRequest : poll'[q].todo \subseteq Pending'
                      /\ \A c \in Command : cmd'[c].status = "sent" => Held(c)'
    BY <1>1 DEF Calm
  <2>1. poll[r].given = <<>> /\ agent.on = r
    BY <1>1 DEF Lists, ListOrdered, Calm
  <2>2. \A q \in PollRequest : poll'[q].todo \subseteq Pending'
    BY <1>1, <1>2, <1>3 DEF Calm, Pending
  <2>3. ASSUME NEW c \in Command, cmd'[c].status = "sent"
        PROVE  Held(c)'
    BY <1>1, <1>2, <2>1, <2>3 DEF Calm, Held
  <2> QED
    BY <1>1, <1>2, <2>1, <2>2, <2>3 DEF Calm
<1> QED
  BY <1>1, <1>4, <1>5, <1>6, <1>7, <1>8, RowsStay

\* The oldest command of the list is marked as sent: nothing pending is older.
LEMMA MarkKeeps ==
  ASSUME NodeInv, NEW r \in PollRequest, Mark(r)
  PROVE  NodeInv'
<1> USE DEF NodeInv
<1>0. PICK m : m = First(poll[r].todo)
  OBVIOUS
<1>1. /\ poll[r].pc = "mark" /\ poll[r].todo # {} /\ UNCHANGED <<agent, posts, losses>>
      /\ cmd' = [cmd EXCEPT ![m].status = "sent"]
      /\ poll' = [poll EXCEPT ![r].todo = @ \ {m}, ![r].given = Append(@, m)]
  BY <1>0 DEF Mark
<1>2. m \in poll[r].todo /\ m \in Command /\ \A d \in poll[r].todo : m <= d
  BY <1>0, <1>1, FieldsTyped, FirstIsFirst
<1>3. /\ cmd'[m] = [cmd[m] EXCEPT !.status = "sent"]
      /\ \A c \in Command : c # m => cmd'[c] = cmd[c]
      /\ \A c \in Command : cmd'[c].runs = cmd[c].runs /\ cmd'[c].outcome = cmd[c].outcome
  BY <1>1, <1>2 DEF CommandsTypeOK
<1>4. /\ poll'[r] = [pc |-> "mark", todo |-> poll[r].todo \ {m},
                     given |-> Append(poll[r].given, m)]
      /\ \A q \in PollRequest : q # r => poll'[q] = poll[q]
  BY <1>1 DEF CommandsTypeOK
<1>5. m \notin Given(r) /\ cmd[m].status # "none"
  BY <1>2 DEF Lists, ListOrdered
<1>6. /\ Append(poll[r].given, m) \in Seq(Command)
      /\ Elements(Append(poll[r].given, m)) = Given(r) \cup {m}
      /\ Injective(Append(poll[r].given, m))
  BY <1>2, <1>5, FieldsTyped, Appended DEF Given, Lists, ListOrdered
<1>7. \A c \in Command : Settled(c)' <=> Settled(c) \/ c = m
  BY <1>2, <1>3 DEF Settled, CommandsTypeOK
<1>8. Pending' = Pending \ {m}
  BY <1>2, <1>3 DEF Pending, CommandsTypeOK
<1>9. CommandsTypeOK'
  <2>1. cmd' \in [Command -> [status : {"none", "pending", "sent", "ok", "error"},
                              runs : 0..2, outcome : Outcome]]
    BY <1>1 DEF CommandsTypeOK
  <2>2. poll'[r] \in [pc : {"free", "asked", "mark"}, todo : SUBSET Command,
                      given : Seq(Command)]
    BY <1>4, <1>6, FieldsTyped
  <2>3. poll' \in [PollRequest -> [pc : {"free", "asked", "mark"}, todo : SUBSET Command,
                               given : Seq(Command)]]
    BY <1>1, <1>4, <2>2 DEF CommandsTypeOK
  <2> QED
    BY <1>1, <2>1, <2>3 DEF CommandsTypeOK
<1>10. Turns'
  BY <1>1, <1>4 DEF Turns, CommandsTypeOK
<1>11. Rows'
  <2>1. \A c \in Command : cmd'[c].status = "none" <=> cmd[c].status = "none"
    BY <1>3, <1>5 DEF CommandsTypeOK
  <2>2. RowExplained(m)'
    BY <1>2, <1>3, <1>7, <2>1 DEF Rows, RowExplained, Told, CommandsTypeOK
  <2>3. ASSUME NEW c \in Command, c # m
        PROVE  RowExplained(c)'
    BY <1>3, <1>7, <2>1, <2>3 DEF Rows, RowExplained, Told
  <2> QED
    BY <2>2, <2>3 DEF Rows
<1>12. Lists'
  <2>1. \A c \in Command : cmd'[c].status = "none" <=> cmd[c].status = "none"
    BY <1>3, <1>5 DEF CommandsTypeOK
  <2>2. ASSUME NEW q \in PollRequest
        PROVE  /\ poll'[q].todo \subseteq poll[q].todo
               /\ poll[q].todo \subseteq Command /\ Given(q) \subseteq Command
               /\ q # r => poll'[q] = poll[q]
    BY <1>4, FieldsTyped DEF Given, Elements
  <2>3. ListOrdered(r)'
    <3>1. Given(r)' = Given(r) \cup {m} /\ poll'[r].todo = poll[r].todo \ {m}
          /\ poll'[r].pc = "mark" /\ Injective(poll'[r].given)
      BY <1>4, <1>6 DEF Given
    <3>2. \A c \in poll'[r].todo : \A d \in Pending' : d < c => d \in poll'[r].todo
      BY <1>8, <3>1 DEF Lists, ListOrdered
    <3>3. \A c \in Given(r)' : Settled(c)' /\ c \notin poll'[r].todo
      BY <1>2, <1>7, <2>2, <3>1 DEF Lists, ListOrdered
    <3>4. agent.on = r => \A c \in poll'[r].todo \cup Given(r)' : cmd'[c].runs = 0
      BY <1>2, <1>3, <2>2, <3>1 DEF Lists, ListOrdered
    <3>5. \A c \in poll'[r].todo : cmd'[c].status # "none"
      BY <2>1, <2>2 DEF Lists, ListOrdered
    <3> QED
      BY <1>1, <3>1, <3>2, <3>3, <3>4, <3>5 DEF ListOrdered
  <2>4. ASSUME NEW q \in PollRequest, q # r
        PROVE  ListOrdered(q)'
    <3>1. poll'[q] = poll[q] /\ Given(q)' = Given(q)
      BY <2>2, <2>4 DEF Given
    <3>2. \A c \in poll[q].todo : cmd'[c].status # "none"
      BY <2>1, <2>2 DEF Lists, ListOrdered
    <3>3. \A c \in poll[q].todo : \A d \in Pending' : d < c => d \in poll[q].todo
      BY <1>8 DEF Lists, ListOrdered
    <3>4. \A c \in Given(q) : Settled(c)' /\ c \notin poll[q].todo
      BY <1>7, <2>2 DEF Lists, ListOrdered
    <3>5. agent.on = q => \A c \in poll[q].todo \cup Given(q) : cmd'[c].runs = 0
      BY <1>3, <2>2 DEF Lists, ListOrdered
    <3> QED
      BY <1>1, <3>1, <3>2, <3>3, <3>4, <3>5 DEF Lists, ListOrdered
  <2> QED
    BY <2>3, <2>4 DEF Lists
<1>13. Queue'
  <2>1. \A n \in 1..Len(agent.queue) : agent.queue[n] \in Command
    BY ElementOfSeq DEF CommandsTypeOK
  <2> QED
    BY <1>1, <1>3, <1>7, <2>1 DEF Queue
<1>14. Posts'
  BY <1>1, <1>3, <1>7 DEF Posts, Told, CommandsTypeOK
<1>15. Calm'
  <2> SUFFICES ASSUME losses = 0
               PROVE  /\ \A q \in PollRequest : poll'[q].pc # "free" => agent'.on = q
                      /\ \A q \in PollRequest : poll'[q].todo \subseteq Pending'
                      /\ \A c \in Command : cmd'[c].status = "sent" => Held(c)'
    BY <1>1 DEF Calm
  <2>1. agent.on = r /\ \A q \in PollRequest : q # r => poll[q].pc = "free"
    BY <1>1 DEF Calm
  <2>2. \A q \in PollRequest : poll'[q].pc # "free" => agent'.on = q
    BY <1>1, <1>4, <2>1
  <2>3. \A q \in PollRequest : q # r => poll[q].todo = {}
    BY <2>1 DEF Lists, ListOrdered
  <2>4. \A q \in PollRequest : poll'[q].todo \subseteq Pending'
    BY <1>4, <1>8, <2>3 DEF Calm
  <2>5. ASSUME NEW c \in Command, cmd'[c].status = "sent"
        PROVE  Held(c)'
    <3>1. c = m \/ Held(c)
      BY <1>3, <2>5 DEF Calm
    <3>2. Held(c) => c \in Given(r) \/ c \in Elements(agent.queue) \/ \E p \in posts : p.id = c
      BY <2>1 DEF Held, Given
    <3>3. Elements(poll'[r].given) = Given(r) \cup {m}
      BY <1>4, <1>6
    <3> QED
      BY <1>1, <2>1, <3>1, <3>2, <3>3 DEF Held
  <2> QED
    BY <2>2, <2>4, <2>5
<1>16. OldestFirst'
  BY <1>2, <1>3, <1>7 DEF OldestFirst, Lists, ListOrdered, Pending, Settled, Command
<1> QED
  BY <1>9, <1>10, <1>11, <1>12, <1>13, <1>14, <1>15, <1>16

\* A poll that ends without an answer; only a fault loses what it gave.
LEMMA RefuseKeeps ==
  ASSUME NodeInv, NEW r \in PollRequest, RefusePoll(r) \/ KillPoll(r)
  PROVE  NodeInv'
<1> USE DEF NodeInv
<1>1. /\ poll[r].pc # "free" /\ UNCHANGED <<cmd, posts>>
      /\ poll' = [poll EXCEPT ![r] = Free]
      /\ agent' = IF agent.on = r THEN [agent EXCEPT !.pc = "loop", !.on = NoRequest]
                                  ELSE agent
      /\ \/ losses' = losses /\ poll[r].pc = "asked"
         \/ losses' # 0 /\ losses' \in 0..MaxLosses
  BY LossesAssumption DEF RefusePoll, KillPoll, Lose, CommandsTypeOK
<1>2. poll'[r] = Free /\ \A q \in PollRequest : q # r => poll'[q] = poll[q]
  BY <1>1 DEF CommandsTypeOK
<1>3. /\ agent.on = r => agent' = [pc |-> "loop", on |-> NoRequest, queue |-> agent.queue]
      /\ agent.on # r => agent' = agent
      /\ agent'.queue = agent.queue
  BY <1>1 DEF CommandsTypeOK
<1>4. CommandsTypeOK'
  <2>1. <<>> \in Seq(Command)
    OBVIOUS
  <2> QED
    BY <1>1, <2>1 DEF CommandsTypeOK, Free
<1>5. Turns'
  BY <1>1, <1>2, <1>3, FieldsTyped DEF Turns
<1>6. Lists'
  <2>1. ListOrdered(r)'
    BY <1>2, <1>3, FieldsTyped, NothingIn DEF ListOrdered, Given, Free
  <2>2. ASSUME NEW q \in PollRequest, q # r
        PROVE  ListOrdered(q)'
    BY <1>1, <1>2, <1>3, <2>2, FieldsTyped, ListStays
  <2> QED
    BY <2>1, <2>2 DEF Lists
<1>7. Queue' /\ Posts'
  <2>1. agent.on = r => agent.queue = <<>>
    BY <1>1, FieldsTyped DEF Turns
  <2>2. Len(<<>>) = 0
    OBVIOUS
  <2>3. Queue'
    <3>1. CASE agent.on = r
      BY <1>3, <2>1, <2>2, <3>1, NothingIn DEF Queue
    <3>2. CASE agent.on # r
      BY <1>1, <1>3, <3>2 DEF Queue, Settled
    <3> QED
      BY <3>1, <3>2
  <2> QED
    BY <1>1, <2>3 DEF Posts, Told, Settled
<1>8. Calm'
  <2> SUFFICES ASSUME losses' = 0
               PROVE  /\ \A q \in PollRequest : poll'[q].pc # "free" => agent'.on = q
                      /\ \A q \in PollRequest : poll'[q].todo \subseteq Pending'
                      /\ \A c \in Command : cmd'[c].status = "sent" => Held(c)'
    BY DEF Calm
  <2>1. losses = 0 /\ poll[r].given = <<>> /\ agent.on = r
    BY <1>1 DEF Lists, ListOrdered, Calm
  <2>2. \A q \in PollRequest : poll'[q].todo \subseteq Pending'
    BY <1>1, <1>2, <2>1 DEF Calm, Pending, Free
  <2>3. ASSUME NEW c \in Command, cmd'[c].status = "sent"
        PROVE  Held(c)'
    BY <1>1, <1>3, <2>1, <2>3, NothingIn DEF Calm, Held
  <2>4. \A q \in PollRequest : poll'[q].pc = "free"
    BY <1>2, <2>1 DEF Calm, Free
  <2> QED
    BY <2>2, <2>3, <2>4
<1> QED
  BY <1>1, <1>4, <1>5, <1>6, <1>7, <1>8, RowsStay

\* The agent gives its poll up, or is restarted: a fault.
LEMMA AgentLosesKeeps ==
  ASSUME NodeInv, GiveUp \/ RestartAgent
  PROVE  NodeInv'
<1> USE DEF NodeInv
<1>1. /\ UNCHANGED <<cmd, poll, posts>> /\ losses' # 0 /\ losses' \in 0..MaxLosses
      /\ agent' = [pc |-> "loop", on |-> NoRequest, queue |-> <<>>]
  <2>1. /\ UNCHANGED <<cmd, poll, posts>> /\ losses' = losses + 1 /\ losses < MaxLosses
    BY DEF GiveUp, RestartAgent, Lose
  <2>2. GiveUp => agent.queue = <<>> /\ agent' = [agent EXCEPT !.pc = "loop", !.on = NoRequest]
    BY DEF GiveUp, Turns
  <2>3. RestartAgent => agent' = [pc |-> "loop", on |-> NoRequest, queue |-> <<>>]
    BY DEF RestartAgent
  <2>4. agent' = [pc |-> "loop", on |-> NoRequest, queue |-> <<>>]
    BY <2>2, <2>3 DEF CommandsTypeOK
  <2>5. losses' # 0 /\ losses' \in 0..MaxLosses
    BY <2>1, LossesAssumption DEF CommandsTypeOK
  <2> QED
    BY <2>1, <2>4, <2>5
<1>2. CommandsTypeOK'
  <2>1. <<>> \in Seq(Command)
    OBVIOUS
  <2> QED
    BY <1>1, <2>1 DEF CommandsTypeOK
<1>3. Turns' /\ Calm'
  BY <1>1 DEF Turns, Calm
<1>4. Lists'
  BY <1>1, FieldsTyped, ListStays DEF Lists
<1>5. Queue' /\ Posts'
  <2>1. Len(<<>>) = 0
    OBVIOUS
  <2> QED
    BY <1>1, <2>1, NothingIn DEF Queue, Posts, Told, Settled
<1> QED
  BY <1>1, <1>2, <1>3, <1>4, <1>5, RowsStay

\* The answer: an agent that waits for it takes over what was handed out.
LEMMA AnswerKeeps ==
  ASSUME NodeInv, NEW r \in PollRequest, Answer(r)
  PROVE  NodeInv'
<1> USE DEF NodeInv
<1>1. /\ poll[r].pc = "mark" /\ poll[r].todo = {} /\ UNCHANGED <<cmd, posts, losses>>
      /\ poll' = [poll EXCEPT ![r] = Free]
  BY DEF Answer
<1>2. poll'[r] = Free /\ \A q \in PollRequest : q # r => poll'[q] = poll[q]
  BY <1>1 DEF CommandsTypeOK
<1>3. /\ agent.on = r => agent' = [pc |-> IF poll[r].given = <<>> THEN "loop" ELSE "run",
                                   on |-> NoRequest, queue |-> poll[r].given]
      /\ agent.on # r => agent' = agent
  BY DEF Answer
<1>4. CommandsTypeOK'
  <2>1. <<>> \in Seq(Command)
    OBVIOUS
  <2>2. agent' \in [pc : {"loop", "wait", "run", "report"}, on : PollRequest \cup {NoRequest},
                    queue : Seq(Command)]
    BY <1>3, FieldsTyped DEF CommandsTypeOK
  <2> QED
    BY <1>1, <2>1, <2>2 DEF CommandsTypeOK, Free
<1>5. Turns'
  BY <1>1, <1>2, <1>3, FieldsTyped DEF Turns
<1>6. Lists'
  <2>1. ListOrdered(r)'
    BY <1>2, <1>3, FieldsTyped, NothingIn DEF ListOrdered, Given, Free
  <2>2. ASSUME NEW q \in PollRequest, q # r
        PROVE  ListOrdered(q)'
    BY <1>1, <1>2, <1>3, <2>2, FieldsTyped, ListStays
  <2> QED
    BY <2>1, <2>2 DEF Lists
<1>7. Queue'
  <2>1. CASE agent.on = r
    <3>1. \A n \in 1..Len(poll[r].given) : poll[r].given[n] \in Given(r)
      BY DEF Given, Elements
    <3>2. \A c \in Given(r) : Settled(c) /\ cmd[c].runs = 0
      BY <2>1 DEF Lists, ListOrdered
    <3>3. Injective(poll[r].given)
      BY DEF Lists, ListOrdered
    <3>4. agent'.queue = poll[r].given /\ agent'.pc # "report"
      BY <1>3, <2>1
    <3> QED
      BY <1>1, <3>1, <3>2, <3>3, <3>4 DEF Queue, Settled
  <2>2. CASE agent.on # r
    BY <1>1, <1>3, <2>2 DEF Queue, Settled
  <2> QED
    BY <2>1, <2>2
<1>8. Posts'
  BY <1>1 DEF Posts, Told, Settled
<1>9. Calm'
  <2> SUFFICES ASSUME losses = 0
               PROVE  /\ \A q \in PollRequest : poll'[q].pc # "free" => agent'.on = q
                      /\ \A q \in PollRequest : poll'[q].todo \subseteq Pending'
                      /\ \A c \in Command : cmd'[c].status = "sent" => Held(c)'
    BY <1>1 DEF Calm
  <2>1. agent.on = r /\ agent.queue = <<>>
    BY <1>1, FieldsTyped DEF Calm, Turns
  <2>2. \A q \in PollRequest : poll'[q].todo \subseteq Pending'
    BY <1>1, <1>2, <2>1 DEF Calm, Pending, Free
  <2>3. ASSUME NEW c \in Command, cmd'[c].status = "sent"
        PROVE  Held(c)'
    <3>1. Held(c)
      BY <1>1, <2>3 DEF Calm
    <3>2. c \in Elements(poll[r].given) \/ \E p \in posts : p.id = c
      BY <2>1, <3>1, NothingIn DEF Held
    <3> QED
      BY <1>1, <1>3, <2>1, <3>2 DEF Held
  <2>4. \A q \in PollRequest : poll'[q].pc = "free"
    BY <1>2, <2>1 DEF Calm, Free
  <2> QED
    BY <2>2, <2>3, <2>4
<1> QED
  BY <1>1, <1>4, <1>5, <1>6, <1>7, <1>8, <1>9, RowsStay

\* The head of the queue is executed, for the first time.
LEMMA ExecuteKeeps ==
  ASSUME NodeInv, Execute
  PROVE  NodeInv'
<1> USE DEF NodeInv
<1>0. PICK h : h = Head(agent.queue)
  OBVIOUS
<1>1. PICK outcome \in {"done", "refused", "raised"} :
        cmd' = [cmd EXCEPT ![h] = [status |-> @.status, runs |-> @.runs + 1,
                                   outcome |-> outcome]]
  BY <1>0 DEF Execute
<1>2. /\ agent.pc = "run" /\ UNCHANGED <<poll, posts, losses>>
      /\ agent' = [agent EXCEPT !.pc = "report"]
  BY DEF Execute
<1>3. agent.queue \in Seq(Command) /\ agent.queue # <<>> /\ agent.on = NoRequest
  BY <1>2 DEF CommandsTypeOK, Turns
<1>4. h \in Command /\ h = agent.queue[1] /\ 1 \in 1..Len(agent.queue)
  BY <1>0, <1>3, Beheaded
<1>5. Settled(h) /\ cmd[h].runs = 0 /\ cmd[h].outcome = "none"
  BY <1>2, <1>4 DEF Queue, Rows, RowExplained
<1>6. /\ cmd'[h] = [status |-> cmd[h].status, runs |-> 1, outcome |-> outcome]
      /\ \A c \in Command : c # h => cmd'[c] = cmd[c]
      /\ \A c \in Command : cmd'[c].status = cmd[c].status
  <2>1. cmd[h] \in [status : {"none", "pending", "sent", "ok", "error"}, runs : 0..2,
                    outcome : Outcome]
    BY <1>4 DEF CommandsTypeOK
  <2>2. PICK k \in Int : k = cmd[h].runs + 1 /\ k = 1
    BY <1>5
  <2>3. cmd' = [cmd EXCEPT ![h] = [status |-> cmd[h].status, runs |-> k, outcome |-> outcome]]
    BY <1>1, <1>4, <2>1, <2>2 DEF CommandsTypeOK
  <2> QED
    BY <1>4, <2>2, <2>3 DEF CommandsTypeOK
<1>7. /\ \A c \in Command : Settled(c)' = Settled(c)
      /\ Pending' = Pending
  BY <1>6 DEF Settled, Pending
<1>8. agent' = [pc |-> "report", on |-> agent.on, queue |-> agent.queue]
  BY <1>2 DEF CommandsTypeOK
<1>9. cmd'[h].runs = 1 /\ cmd'[h].outcome = outcome /\ outcome \in {"done", "refused", "raised"}
  BY <1>4, <1>6 DEF CommandsTypeOK
<1>10. CommandsTypeOK'
  <2>1. cmd'[h] \in [status : {"none", "pending", "sent", "ok", "error"}, runs : 0..2,
                     outcome : Outcome]
    <3>1. cmd[h].status \in {"none", "pending", "sent", "ok", "error"}
      BY <1>4 DEF CommandsTypeOK
    <3> QED
      BY <1>6, <3>1 DEF Outcome
  <2>2. cmd' \in [Command -> [status : {"none", "pending", "sent", "ok", "error"},
                              runs : 0..2, outcome : Outcome]]
    BY <1>1, <1>4, <1>6, <2>1 DEF CommandsTypeOK
  <2> QED
    BY <1>2, <2>2 DEF CommandsTypeOK
<1>11. Turns'
  BY <1>2, <1>3, <1>8 DEF Turns
<1>12. Rows'
  <2>1. RowExplained(h)'
    BY <1>4, <1>5, <1>6, <1>7, <1>9 DEF Rows, RowExplained, Told
  <2>2. ASSUME NEW c \in Command, c # h
        PROVE  RowExplained(c)'
    BY <1>6, <1>7, <2>2 DEF Rows, RowExplained, Told
  <2> QED
    BY <2>1, <2>2 DEF Rows
<1>13. Lists'
  <2>1. ASSUME NEW q \in PollRequest
        PROVE  ListOrdered(q)'
    <3>1. agent'.on # q
      BY <1>3, <1>8, FieldsTyped
    <3>2. poll[q].todo \subseteq Command /\ Given(q) \subseteq Command
      BY FieldsTyped DEF Given, Elements
    <3> QED
      BY <1>2, <1>6, <1>7, <3>1, <3>2 DEF Lists, ListOrdered, Given
  <2> QED
    BY <2>1 DEF Lists
<1>14. Queue'
  <2>1. \A n \in 1..Len(agent.queue) : agent.queue[n] \in Command
    BY <1>3, ElementOfSeq
  <2>2. \A n \in 1..Len(agent.queue) : n # 1 => agent.queue[n] # h
    BY <1>4 DEF Queue, Injective
  <2>3. ASSUME NEW n \in 1..Len(agent.queue)
        PROVE  Settled(agent.queue[n])'
               /\ cmd'[agent.queue[n]].runs = IF n = 1 THEN 1 ELSE 0
    BY <1>2, <1>4, <1>6, <1>7, <1>8, <1>9, <2>1, <2>2 DEF Queue
  <2> QED
    BY <1>8, <2>3 DEF Queue
<1>15. Posts'
  <2>1. posts' = posts /\ \A p \in posts : p.id \in Command
    BY <1>2 DEF CommandsTypeOK
  <2>2. ASSUME NEW p \in posts
        PROVE  Settled(p.id)' /\ Told(p.id, p.success)'
    <3>1. Settled(p.id) /\ Told(p.id, p.success)
      BY DEF Posts
    <3>2. p.id # h
      BY <1>5, <3>1 DEF Told
    <3>3. cmd'[p.id] = cmd[p.id] /\ Settled(p.id)'
      BY <1>6, <1>7, <2>1, <3>1, <3>2
    <3>4. Told(p.id, p.success)'
      BY <3>1, <3>3 DEF Told
    <3> QED
      BY <3>3, <3>4
  <2> QED
    BY <2>1, <2>2 DEF Posts
<1>16. Calm'
  BY <1>2, <1>6, <1>7, <1>8 DEF Calm, Held
<1>17. OldestFirst'
  BY <1>6 DEF OldestFirst
<1> QED
  BY <1>10, <1>11, <1>12, <1>13, <1>14, <1>15, <1>16, <1>17

\* The head of the queue is reported: its result is on the way.
LEMMA ReportResultKeeps ==
  ASSUME NodeInv, Report
  PROVE  NodeInv'
<1> USE DEF NodeInv
<1>0. PICK h, t : h = Head(agent.queue) /\ t = Tail(agent.queue)
  OBVIOUS
<1>1. /\ agent.pc = "report" /\ UNCHANGED <<cmd, poll, losses>>
      /\ \E success \in BOOLEAN :
           /\ success <=> cmd[h].outcome # "raised"
           /\ posts' = posts \cup {[id |-> h, success |-> success]}
      /\ agent' = [agent EXCEPT !.pc = IF Len(agent.queue) = 1 THEN "loop" ELSE "run",
                                !.queue = t]
  BY <1>0 DEF Report, CommandsTypeOK
<1>2. agent.queue \in Seq(Command) /\ agent.queue # <<>> /\ agent.on = NoRequest
  BY <1>1 DEF CommandsTypeOK, Turns
<1>3. /\ t \in Seq(Command) /\ h \in Command /\ h = agent.queue[1]
      /\ 1 \in 1..Len(agent.queue)
      /\ Elements(agent.queue) = {h} \cup Elements(t)
      /\ t = <<>> <=> Len(agent.queue) = 1
      /\ \A n \in 1..Len(t) : n + 1 \in 1..Len(agent.queue) /\ t[n] = agent.queue[n + 1]
      /\ Injective(t)
  BY <1>0, <1>2, Beheaded DEF Queue
<1>4. agent' = [pc |-> IF t = <<>> THEN "loop" ELSE "run", on |-> NoRequest, queue |-> t]
  BY <1>1, <1>2, <1>3 DEF CommandsTypeOK
<1>5. Settled(h) /\ cmd[h].runs = 1 /\ cmd[h].outcome # "none"
  BY <1>1, <1>3 DEF Queue, Rows, RowExplained, Told
<1>21. Told(h, cmd[h].outcome # "raised")
  BY <1>3, <1>5 DEF Told, CommandsTypeOK, Outcome
<1>20. PICK success \in BOOLEAN :
          /\ success <=> cmd[h].outcome # "raised"
          /\ posts' = posts \cup {[id |-> h, success |-> success]}
  BY <1>1
<1>6. CommandsTypeOK'
  <2>1. posts' \subseteq [id : Command, success : BOOLEAN]
    BY <1>3, <1>20 DEF CommandsTypeOK
  <2> QED
    BY <1>1, <1>3, <1>4, <2>1 DEF CommandsTypeOK
<1>7. Turns'
  BY <1>3, <1>4 DEF Turns
<1>8. Lists'
  BY <1>1, <1>2, <1>4, ListStays DEF Lists
<1>9. Queue'
  <2>1. ASSUME NEW n \in 1..Len(t)
        PROVE  Settled(t[n]) /\ cmd[t[n]].runs = 0
    <3>1. n \in Nat /\ n + 1 # 1
      BY <1>3, LenProperties
    <3> QED
      BY <1>3, <3>1 DEF Queue
  <2> QED
    BY <1>1, <1>3, <1>4, <2>1 DEF Queue, Settled
<1>10. Posts'
  <2>1. \A p \in posts' : p \in posts \/ (p.id = h /\ p.success = success)
    BY <1>20
  <2>2. Told(h, success)
    BY <1>20, <1>21 DEF Told
  <2>3. \A p \in posts' : Settled(p.id) /\ Told(p.id, p.success)
    BY <1>5, <2>1, <2>2 DEF Posts
  <2> QED
    BY <1>1, <2>3 DEF Posts, Settled, Told
<1>11. Calm'
  <2>1. ASSUME NEW c \in Command, Held(c)
        PROVE  Held(c)'
    <3>1. c \in Elements(agent.queue) \/ \E p \in posts : p.id = c
      BY <1>2, <2>1, FieldsTyped DEF Held
    <3>2. [id |-> h, success |-> success].id = h
      OBVIOUS
    <3>3. \E p \in posts' : p.id = h
      BY <1>20, <3>2, Zenon
    <3> QED
      BY <1>3, <1>4, <1>20, <3>1, <3>3 DEF Held
  <2> QED
    BY <1>1, <1>2, <1>4, <2>1 DEF Calm, Pending
<1> QED
  BY <1>1, <1>6, <1>7, <1>8, <1>9, <1>10, <1>11, RowsStay

\* The report of the head raises: what is on the way says that it failed.
LEMMA ReportFailsKeeps ==
  ASSUME NodeInv, ReportFails
  PROVE  NodeInv'
<1> USE DEF NodeInv
<1>0. PICK h, t : h = Head(agent.queue) /\ t = Tail(agent.queue)
  OBVIOUS
<1>1. /\ agent.pc = "report" /\ poll' = poll /\ cmd[h].outcome # "raised"
      /\ cmd' = [cmd EXCEPT ![h].outcome = "unsent"]
      /\ agent' = [agent EXCEPT !.pc = IF Len(agent.queue) = 1 THEN "loop" ELSE "run",
                                !.queue = t]
      /\ losses' # 0 /\ losses' \in 0..MaxLosses
  BY <1>0, LossesAssumption DEF ReportFails, Lose, CommandsTypeOK
<1>2. agent.queue \in Seq(Command) /\ agent.queue # <<>> /\ agent.on = NoRequest
  BY <1>1 DEF CommandsTypeOK, Turns
<1>3. /\ t \in Seq(Command) /\ h \in Command /\ h = agent.queue[1]
      /\ 1 \in 1..Len(agent.queue)
      /\ t = <<>> <=> Len(agent.queue) = 1
      /\ \A n \in 1..Len(t) : n + 1 \in 1..Len(agent.queue) /\ t[n] = agent.queue[n + 1]
      /\ Injective(t)
  BY <1>0, <1>2, Beheaded DEF Queue
<1>4. agent' = [pc |-> IF t = <<>> THEN "loop" ELSE "run", on |-> NoRequest, queue |-> t]
  BY <1>1, <1>2, <1>3 DEF CommandsTypeOK
<1>5. Settled(h) /\ cmd[h].runs = 1 /\ cmd[h].outcome \in {"done", "refused", "unsent"}
  <2>1. Settled(h) /\ cmd[h].runs = 1 /\ cmd[h].outcome # "none"
    BY <1>1, <1>3 DEF Queue, Rows, RowExplained, Told
  <2>2. cmd[h].outcome \in Outcome
    BY <1>3 DEF CommandsTypeOK
  <2> QED
    BY <1>1, <2>1, <2>2 DEF Outcome
<1>6. PICK successes \in {{FALSE}, BOOLEAN} :
        posts' = posts \cup {[id |-> h, success |-> s] : s \in successes}
  BY <1>0 DEF ReportFails
<1>7. /\ cmd'[h] = [cmd[h] EXCEPT !.outcome = "unsent"]
      /\ \A c \in Command : c # h => cmd'[c] = cmd[c]
  BY <1>1, <1>3 DEF CommandsTypeOK
<1>8. /\ \A c \in Command : cmd'[c].runs = cmd[c].runs /\ cmd'[c].status = cmd[c].status
      /\ cmd'[h].outcome = "unsent"
  BY <1>3, <1>7 DEF CommandsTypeOK
<1>9. /\ \A c \in Command : Settled(c)' <=> Settled(c)
      /\ Pending' = Pending
  BY <1>8 DEF Settled, Pending
<1>10. \A c \in Command, s \in BOOLEAN : Told(c, s) => Told(c, s)'
  <2>1. \A s \in BOOLEAN : Told(h, s)'
    BY <1>8 DEF Told
  <2>2. \A c \in Command, s \in BOOLEAN : c # h => (Told(c, s) => Told(c, s)')
    BY <1>7 DEF Told
  <2> QED
    BY <2>1, <2>2
<1>11. CommandsTypeOK'
  <2>1. posts' \subseteq [id : Command, success : BOOLEAN]
    <3>1. posts \subseteq [id : Command, success : BOOLEAN]
      BY DEF CommandsTypeOK
    <3>2. successes \subseteq BOOLEAN
      OBVIOUS
    <3>3. \A s \in successes : [id |-> h, success |-> s] \in [id : Command, success : BOOLEAN]
      BY <1>3, <3>2
    <3> QED
      BY <1>6, <3>1, <3>3
  <2>5. "unsent" \in Outcome
    BY DEF Outcome
  <2>2. cmd[h] \in [status : {"none", "pending", "sent", "ok", "error"}, runs : 0..2,
                    outcome : Outcome]
    BY <1>3 DEF CommandsTypeOK
  <2>4. cmd'[h] \in [status : {"none", "pending", "sent", "ok", "error"}, runs : 0..2,
                     outcome : Outcome]
    <3>1. /\ cmd[h].status \in {"none", "pending", "sent", "ok", "error"}
          /\ cmd[h].runs \in 0..2
      BY <2>2
    <3>2. cmd'[h] = [status |-> cmd[h].status, runs |-> cmd[h].runs, outcome |-> "unsent"]
      BY <1>7, <2>2
    <3> QED
      BY <2>5, <3>1, <3>2
  <2>3. cmd' \in [Command -> [status : {"none", "pending", "sent", "ok", "error"},
                              runs : 0..2, outcome : Outcome]]
    BY <1>1, <1>3, <1>7, <2>4 DEF CommandsTypeOK
  <2> QED
    BY <1>1, <1>3, <1>4, <2>1, <2>3 DEF CommandsTypeOK
<1>12. Turns'
  BY <1>1, <1>3, <1>4 DEF Turns
<1>13. Rows'
  <2>1. RowExplained(h)'
    <3>1. \A d \in Command : d < h /\ cmd[h].status # "none" => cmd[d].status # "none"
      BY <1>3 DEF Rows, RowExplained
    <3> QED
      BY <1>3, <1>5, <1>8, <1>9, <3>1 DEF RowExplained, Told
  <2>2. ASSUME NEW c \in Command, c # h
        PROVE  RowExplained(c)'
    <3>1. RowExplained(c)
      BY DEF Rows
    <3> QED
      BY <1>7, <1>8, <1>9, <1>10, <2>2, <3>1 DEF RowExplained
  <2> QED
    BY <2>1, <2>2 DEF Rows
<1>14. Lists'
  <2>1. ASSUME NEW q \in PollRequest
        PROVE  ListOrdered(q)'
    <3>1. agent'.on # q
      BY <1>4, FieldsTyped
    <3>2. poll[q].todo \subseteq Command /\ Given(q) \subseteq Command
      BY FieldsTyped DEF Given, Elements
    <3> QED
      BY <1>1, <1>8, <1>9, <3>1, <3>2 DEF Lists, ListOrdered, Given
  <2> QED
    BY <2>1 DEF Lists
<1>15. Queue'
  <2>1. ASSUME NEW n \in 1..Len(t)
        PROVE  Settled(t[n]) /\ cmd[t[n]].runs = 0 /\ t[n] \in Command
    <3>1. n \in Nat /\ n + 1 # 1
      BY <1>3, LenProperties
    <3>2. t[n] \in Command
      BY <1>3, ElementOfSeq
    <3> QED
      BY <1>3, <3>1, <3>2 DEF Queue
  <2>2. \A n \in 1..Len(t) : Settled(t[n])' /\ cmd'[t[n]].runs = 0
    BY <1>8, <1>9, <2>1
  <2> QED
    BY <1>3, <1>4, <2>2 DEF Queue
<1>16. Posts'
  <2>1. \A p \in posts' : p.id \in Command /\ p.success \in BOOLEAN
    BY <1>11 DEF CommandsTypeOK
  <2>2. \A p \in posts' : p \in posts \/ p.id = h
    BY <1>6
  <2>3. \A s \in BOOLEAN : Told(h, s)'
    BY <1>8 DEF Told
  <2> QED
    BY <1>5, <1>9, <1>10, <2>1, <2>2, <2>3 DEF Posts
<1>17. Calm'
  BY <1>1 DEF Calm
<1>18. OldestFirst'
  BY <1>8 DEF OldestFirst
<1> QED
  BY <1>11, <1>12, <1>13, <1>14, <1>15, <1>16, <1>17, <1>18

\* A result gets lost: a fault.
LEMMA LoseResultKeeps ==
  ASSUME NodeInv, NEW p \in posts, LoseResult(p)
  PROVE  NodeInv'
<1> USE DEF NodeInv
<1>1. /\ UNCHANGED <<cmd, poll, agent>> /\ posts' \subseteq posts
      /\ losses' # 0 /\ losses' \in 0..MaxLosses
  BY LossesAssumption DEF LoseResult, Lose, CommandsTypeOK
<1>2. CommandsTypeOK' /\ Turns' /\ Posts' /\ Calm'
  BY <1>1 DEF CommandsTypeOK, Turns, Posts, Settled, Calm, Told
<1>3. Lists' /\ Queue'
  BY <1>1, ListStays DEF Lists, Queue, Settled
<1> QED
  BY <1>1, <1>2, <1>3, RowsStay

\* The central saves the result of a command it has handed out.
LEMMA SaveResultKeeps ==
  ASSUME NodeInv, NEW p \in posts, SaveResult(p)
  PROVE  NodeInv'
<1> USE DEF NodeInv
<1>0. PICK m, status : m = p.id /\ status = IF p.success THEN "ok" ELSE "error"
  OBVIOUS
<1>1. /\ cmd' = [cmd EXCEPT ![m].status = status] /\ UNCHANGED <<poll, agent, losses>>
      /\ posts' = posts \ {p}
  BY <1>0 DEF SaveResult
<1>2. /\ m \in Command /\ Settled(m) /\ Told(m, p.success) /\ p.success \in BOOLEAN
  BY <1>0 DEF CommandsTypeOK, Posts
<1>3. /\ cmd'[m] = [cmd[m] EXCEPT !.status = status]
      /\ \A c \in Command : c # m => cmd'[c] = cmd[c]
      /\ \A c \in Command : cmd'[c].runs = cmd[c].runs /\ cmd'[c].outcome = cmd[c].outcome
  BY <1>1, <1>2 DEF CommandsTypeOK
<1>4. cmd'[m].status = status /\ status \in {"ok", "error"}
  BY <1>0, <1>2, <1>3 DEF CommandsTypeOK
<1>5. /\ \A c \in Command : Settled(c)' <=> Settled(c)
      /\ \A c \in Command : cmd'[c].status = "none" <=> cmd[c].status = "none"
      /\ Pending' = Pending
  BY <1>2, <1>3, <1>4 DEF Settled, Pending
<1>6. CommandsTypeOK'
  BY <1>1, <1>4 DEF CommandsTypeOK
<1>7. Turns'
  BY <1>1 DEF Turns
<1>8. Rows'
  <2>1. RowExplained(m)'
    <3>1. (status = "ok" => Told(m, TRUE)) /\ (status = "error" => Told(m, FALSE))
      BY <1>0, <1>2
    <3>2. \A s \in BOOLEAN : Told(m, s)' <=> Told(m, s)
      BY <1>2, <1>3 DEF Told
    <3> QED
      BY <1>2, <1>3, <1>4, <1>5, <3>1, <3>2 DEF Rows, RowExplained
  <2>2. ASSUME NEW c \in Command, c # m
        PROVE  RowExplained(c)'
    <3>1. RowExplained(c)
      BY DEF Rows
    <3>2. /\ cmd'[c].status = cmd[c].status /\ cmd'[c].runs = cmd[c].runs
          /\ cmd'[c].outcome = cmd[c].outcome
      BY <1>3, <2>2
    <3>3. \A d \in Command : cmd'[d].status = "none" <=> cmd[d].status = "none"
      BY <1>5
    <3>4. \A d \in Command :
            d < c /\ cmd'[c].status # "none" => cmd'[d].status # "none"
      BY <3>1, <3>2, <3>3 DEF RowExplained
    <3> QED
      BY <3>1, <3>2, <3>4 DEF RowExplained, Settled, Told
  <2> QED
    BY <2>1, <2>2 DEF Rows
<1>9. Lists'
  <2>1. ASSUME NEW q \in PollRequest
        PROVE  ListOrdered(q)'
    <3>1. poll[q].todo \subseteq Command /\ Given(q) \subseteq Command
      BY FieldsTyped DEF Given, Elements
    <3> QED
      BY <1>1, <1>3, <1>5, <3>1 DEF Lists, ListOrdered, Given
  <2> QED
    BY <2>1 DEF Lists
<1>10. Queue'
  <2>1. \A n \in 1..Len(agent.queue) : agent.queue[n] \in Command
    BY ElementOfSeq DEF CommandsTypeOK
  <2> QED
    BY <1>1, <1>3, <1>5, <2>1 DEF Queue
<1>11. Posts'
  <2>1. \A c \in Command, s \in BOOLEAN : Told(c, s)' <=> Told(c, s)
    BY <1>3 DEF Told
  <2> QED
    BY <1>1, <1>5, <2>1 DEF Posts, CommandsTypeOK
<1>12. Calm'
  <2>1. ASSUME NEW c \in Command, cmd'[c].status = "sent", Held(c)
        PROVE  Held(c)'
    <3>1. c # m
      BY <1>4, <2>1
    <3> QED
      BY <1>0, <1>1, <2>1, <3>1 DEF Held
  <2> QED
    BY <1>1, <1>3, <1>4, <1>5, <2>1 DEF Calm
<1>13. OldestFirst'
  <2>1. \A c \in Command : cmd'[c].status = "pending" <=> cmd[c].status = "pending"
    BY <1>2, <1>3, <1>4 DEF Settled
  <2> QED
    BY <1>5, <2>1 DEF OldestFirst
<1> QED
  BY <1>6, <1>7, <1>8, <1>9, <1>10, <1>11, <1>12, <1>13

\* A new command is the youngest.
LEMMA CreateKeeps ==
  ASSUME NodeInv, NEW m \in Command, CreateCommand(m)
  PROVE  NodeInv'
<1> USE DEF NodeInv
<1>1. /\ cmd[m].status = "none" /\ \A d \in 1..m - 1 : cmd[d].status # "none"
      /\ cmd' = [cmd EXCEPT ![m].status = "pending"]
      /\ UNCHANGED <<poll, agent, posts, losses>>
  BY DEF CreateCommand
<1>2. /\ cmd'[m] = [cmd[m] EXCEPT !.status = "pending"] /\ cmd'[m].status = "pending"
      /\ \A c \in Command : c # m => cmd'[c] = cmd[c]
      /\ \A c \in Command : cmd'[c].runs = cmd[c].runs /\ cmd'[c].outcome = cmd[c].outcome
  BY <1>1 DEF CommandsTypeOK
<1>3. /\ \A c \in Command : Settled(c)' <=> Settled(c)
      /\ \A c \in Command : c # m => (cmd'[c].status = "none" <=> cmd[c].status = "none")
      /\ Pending' = Pending \cup {m}
  BY <1>1, <1>2 DEF Settled, Pending
<1>4. \A c \in Command : /\ c < m => cmd[c].status # "none"
                         /\ m < c => cmd[c].status = "none"
  <2>1. \A c \in Command : c < m => c \in 1..m - 1
    BY MaxCommandsAssumption DEF Command
  <2> QED
    BY <1>1, <2>1 DEF Rows, RowExplained
<1>5. CommandsTypeOK'
  BY <1>1 DEF CommandsTypeOK
<1>6. Turns'
  BY <1>1 DEF Turns
<1>7. Rows'
  <2>1. RowExplained(m)'
    <3>1. cmd[m].runs = 0 /\ cmd[m].outcome = "none"
      BY <1>1 DEF Rows, RowExplained, Settled
    <3>2. \A d \in Command : d < m => cmd'[d].status # "none"
      BY <1>2, <1>4
    <3> QED
      BY <1>2, <3>1, <3>2 DEF RowExplained
  <2>2. ASSUME NEW c \in Command, c # m
        PROVE  RowExplained(c)'
    <3>1. RowExplained(c)
      BY DEF Rows
    <3>2. /\ cmd'[c].status = cmd[c].status /\ cmd'[c].runs = cmd[c].runs
          /\ cmd'[c].outcome = cmd[c].outcome
      BY <1>2, <2>2
    <3>3. \A d \in Command : cmd[d].status # "none" => cmd'[d].status # "none"
      BY <1>2
    <3>4. \A d \in Command :
            d < c /\ cmd'[c].status # "none" => cmd'[d].status # "none"
      BY <3>1, <3>2, <3>3 DEF RowExplained
    <3> QED
      BY <3>1, <3>2, <3>4 DEF RowExplained, Told, Settled
  <2> QED
    BY <2>1, <2>2 DEF Rows
<1>8. Lists'
  <2>1. ASSUME NEW q \in PollRequest
        PROVE  ListOrdered(q)'
    <3>1. poll[q].todo \subseteq Command /\ Given(q) \subseteq Command
      BY FieldsTyped DEF Given, Elements
    <3>2. \A c \in poll[q].todo : cmd[c].status # "none" /\ cmd'[c].status # "none" /\ ~(m < c)
      BY <1>2, <1>4, <3>1 DEF Lists, ListOrdered
    <3>3. \A c \in poll[q].todo : \A d \in Pending' : d < c => d \in poll[q].todo
      BY <1>3, <3>2 DEF Lists, ListOrdered
    <3> QED
      BY <1>1, <1>2, <1>3, <3>1, <3>2, <3>3 DEF Lists, ListOrdered, Given
  <2> QED
    BY <2>1 DEF Lists
<1>9. Queue'
  <2>1. \A n \in 1..Len(agent.queue) : agent.queue[n] \in Command
    BY ElementOfSeq DEF CommandsTypeOK
  <2> QED
    BY <1>1, <1>2, <1>3, <2>1 DEF Queue
<1>10. Posts'
  BY <1>1, <1>2, <1>3 DEF Posts, Told, CommandsTypeOK
<1>11. Calm'
  BY <1>1, <1>2, <1>3 DEF Calm, Held
<1>12. OldestFirst'
  BY <1>1, <1>2, <1>4 DEF OldestFirst
<1> QED
  BY <1>5, <1>6, <1>7, <1>8, <1>9, <1>10, <1>11, <1>12

----------------------------------------------------------------------------
(* The theorems *)

\* The empty table satisfies it ...
LEMMA NodeInit == CommandsInit => NodeInv
<1> SUFFICES ASSUME CommandsInit
             PROVE  NodeInv
  OBVIOUS
<1>1. CommandsTypeOK
  <2>1. <<>> \in Seq(Command)
    OBVIOUS
  <2> QED
    BY <2>1, LossesAssumption DEF CommandsInit, CommandsTypeOK, Free, Outcome
<1>2. Turns /\ Rows /\ OldestFirst
  BY DEF CommandsInit, Turns, Rows, RowExplained, Told, Settled, OldestFirst
<1>3. Lists
  BY NothingIn, NoRequestAssumption DEF CommandsInit, Free, Lists, ListOrdered, Given
<1>4. Queue
  <2>1. Len(<<>>) = 0
    OBVIOUS
  <2> QED
    BY <2>1, NothingIn DEF CommandsInit, Queue
<1>5. Posts /\ Calm
  BY DEF CommandsInit, Posts, Calm, Free
<1> QED
  BY <1>1, <1>2, <1>3, <1>4, <1>5 DEF NodeInv

\* ... every step of the central, the node and the way between keeps it ...
LEMMA NodeStep == NodeInv /\ [CommandsNext]_commandVars => NodeInv'
<1> SUFFICES ASSUME NodeInv, [CommandsNext]_commandVars
             PROVE  NodeInv'
  OBVIOUS
<1>1. CASE UNCHANGED commandVars
  <2>1. CommandsTypeOK' /\ Turns' /\ Queue' /\ Posts' /\ Calm'
    BY <1>1 DEF NodeInv, commandVars, CommandsTypeOK, Turns, Queue, Posts, Told, Calm, Settled, Pending, Held
  <2>2. Lists'
    BY <1>1, ListStays DEF commandVars, Lists
  <2> QED
    BY <1>1, <2>1, <2>2, RowsStay DEF commandVars, NodeInv
<1> QED
  BY <1>1, PollKeeps, ListKeeps, MarkKeeps, RefuseKeeps, AgentLosesKeeps, AnswerKeeps,
     ExecuteKeeps, ReportResultKeeps, ReportFailsKeeps, LoseResultKeeps, SaveResultKeeps, CreateKeeps DEF CommandsNext

\* ... and so it always holds.
LEMMA NodeInvariant == CommandsSpec => []NodeInv
BY NodeInit, NodeStep, PTL DEF CommandsSpec

\* Every row, poll and result keeps its type; a status is never misspelt.
THEOREM CommandsTyped == CommandsSpec => []CommandsTypeOK
BY NodeInvariant, PTL DEF NodeInv

\* However many polls overlap, get lost or are given up, a command the node has
\* executed is not handed to it again.
THEOREM ExecutesAtMostOnce == CommandsSpec => []ExecutedAtMostOnce
<1>1. NodeInv => ExecutedAtMostOnce
  BY DEF NodeInv, Rows, RowExplained, ExecutedAtMostOnce
<1> QED
  BY <1>1, NodeInvariant, PTL

\* The status of a command is that of what the node did, and a command that
\* stays sent is one the node has, unless something went wrong on the way.
THEOREM StatusesExplained == CommandsSpec => []StatusExplained
<1>1. ASSUME NodeInv, NEW c \in Command
      PROVE  /\ cmd[c].status = "ok" => cmd[c].outcome \in {"done", "refused", "unsent"}
             /\ cmd[c].status = "error" => cmd[c].outcome \in {"raised", "unsent"}
             /\ cmd[c].status = "sent" => Held(c) \/ losses > 0
  <2>1. RowExplained(c)
    BY <1>1 DEF NodeInv, Rows
  <2>2. losses = 0 \/ losses > 0
    BY <1>1, LossesAssumption DEF NodeInv, CommandsTypeOK
  <2>3. losses = 0 => (cmd[c].status = "sent" => Held(c))
    BY <1>1 DEF NodeInv, Calm
  <2> QED
    BY <2>1, <2>2, <2>3 DEF RowExplained, Told
<1>2. NodeInv => StatusExplained
  BY <1>1 DEF StatusExplained
<1> QED
  BY <1>2, NodeInvariant, PTL

\* Polls that overlap hand out no command before an older one.
THEOREM HandsOutOldestFirst == CommandsSpec => []OldestFirst
BY NodeInvariant, PTL DEF NodeInv
=============================================================================
