-------------------------- MODULE IncidentsProofs --------------------------
(***************************************************************************)
(* Proofs about Incidents, for every number of incidents, levels, passes,  *)
(* requests and receivers, and every ladder and timeout: the types, the    *)
(* columns, the trail and the frames of the rows; then the lifecycle they  *)
(* implement, and that each level is notified, once.                       *)
(***************************************************************************)
EXTENDS Incidents, WellFoundedInduction, TLAPS

\* A nonempty set of naturals has a least element.
LEMMA LeastNatural ==
  ASSUME NEW T \in SUBSET Nat, T # {}
  PROVE  \E x \in T : \A y \in T : x <= y
<1>1. PICK x \in T : \A y \in T : ~(<<y, x>> \in OpToRel(<, Nat))
  BY WFMin, NatLessThanWellFounded
<1>2. \A y \in T : ~(y < x)
  BY <1>1, Zenon DEF OpToRel
<1>3. \A y \in T : x <= y
  BY <1>2
<1>4. QED
  BY <1>3

\* A nonempty set of incidents has a newest one: the head of a pass's list.
LEMMA NewestIsMember ==
  ASSUME NEW S \in SUBSET Incident, S # {}
  PROVE  Newest(S) \in S
<1> DEFINE T == {MaxIncidents - i : i \in S}
<1>1. T \in SUBSET Nat /\ T # {}
  <2>1. \A i \in S : i \in Int /\ MaxIncidents - i \in Nat
    BY BoundAssumption DEF Incident
  <2>2. PICK i \in S : TRUE
    OBVIOUS
  <2>3. MaxIncidents - i \in T
    BY <2>2
  <2>4. QED
    BY <2>1, <2>3
<1>2. PICK x \in T : \A y \in T : x <= y
  <2> HIDE DEF T
  <2>1. QED
    BY <1>1, LeastNatural
<1>3. PICK i \in S : x = MaxIncidents - i
  BY <1>2
<1>4. ASSUME NEW j \in S
      PROVE  j <= i
  <2>1. x <= MaxIncidents - j
    BY <1>2
  <2>2. i \in Int /\ j \in Int /\ MaxIncidents \in Int
    BY BoundAssumption DEF Incident
  <2>3. QED
    BY <1>3, <2>1, <2>2
<1>5. QED
  BY <1>3, <1>4 DEF Newest

\* The next configured level exists and lies above the current one.
LEMMA NextLevelIsHigher ==
  ASSUME levels \in SUBSET Level, NEW l \in Level, Higher(l) # {}
  PROVE  NextLevel(l) \in Level /\ NextLevel(l) > l
<1>1. Higher(l) \in SUBSET Nat
  <2>1. Level \subseteq Nat
    BY BoundAssumption DEF Level
  <2>2. Higher(l) \subseteq levels
    BY DEF Higher
  <2>3. QED
    BY <2>1, <2>2
<1>2. PICK x \in Higher(l) : \A y \in Higher(l) : x <= y
  BY <1>1, LeastNatural
<1>3. NextLevel(l) \in Higher(l)
  BY <1>2 DEF NextLevel
<1>4. QED
  BY <1>3 DEF Higher

-----------------------------------------------------------------------------
(* Type correctness *)

\* The incident a pass works on, and its instance of it, have their types.
LEMMA HeldType ==
  ASSUME TypeOK, NEW w \in Worker, todo[w] # {}
  PROVE  Current(w) \in Incident /\ Current(w) \in todo[w] /\ Held(w) \in Instance
<1>1. todo[w] \in SUBSET Incident
  BY DEF TypeOK
<1>2. Current(w) \in todo[w]
  BY <1>1, NewestIsMember DEF Current
<1>3. QED
  BY <1>1, <1>2 DEF TypeOK, Held

\* An elapsed time that grows by one unit stays within its bound.
LEMMA OlderType == \A a \in Age : Older(a) \in Age
  BY BoundAssumption DEF Older, Age

\* A unit of time later, a row and an instance keep their types.
LEMMA AgedType == (\A r \in Row : Aged(r) \in Row) /\ (\A c \in Instance : Aged(c) \in Instance)
<1>1. ASSUME NEW r \in Row
      PROVE  Aged(r) \in Row
  <2>1. Older(r.age) \in Age
    BY OlderType DEF Row
  <2>2. QED
    BY <2>1 DEF Aged, Row
<1>2. ASSUME NEW c \in Instance
      PROVE  Aged(c) \in Instance
  <2>1. Older(c.age) \in Age
    BY OlderType DEF Instance
  <2>2. QED
    BY <2>1 DEF Aged, Instance
<1>3. QED
  BY <1>1, <1>2

\* The empty row and the empty instance have their types.
LEMMA BlankType == Blank \in Instance /\ NoRow \in Row
<1>1. 1 \in Level /\ 0 \in Age
  BY BoundAssumption DEF Level, Age
<1>2. QED
  BY <1>1 DEF Blank, Instance, NoRow, Row, Status

\* Appending an entry keeps the type of the log.
LEMMA WriteLogType ==
  ASSUME log \in [Incident -> SUBSET Entry], NEW i \in Incident,
         NEW a \in Action, NEW l \in Level, WriteLog(i, a, l)
  PROVE  log' \in [Incident -> SUBSET Entry]
<1>1. [action |-> a, level |-> l] \in Entry
  BY DEF Entry
<1>2. QED
  BY <1>1 DEF WriteLog

\* Moving to the next item of a pass keeps the types of its state.
LEMMA NextItemType ==
  ASSUME TypeOK, NEW w \in Worker, NEW place \in {"scan", "resolve", "idle"},
         NextItem(w, place)
  PROVE  /\ at' \in [Worker -> {"idle", "scan", "expire", "logExpired", "raise", "notify",
                                "logNotified", "resolve", "logResolved"}]
         /\ todo' \in [Worker -> SUBSET Incident]
         /\ copy' \in [Worker -> [Incident -> Instance]]
<1>1. at' \in [Worker -> {"idle", "scan", "expire", "logExpired", "raise", "notify",
                          "logNotified", "resolve", "logResolved"}]
  BY DEF NextItem, GoTo, TypeOK
<1>2. todo' \in [Worker -> SUBSET Incident]
  BY DEF NextItem, TypeOK
<1>3. copy' \in [Worker -> [Incident -> Instance]]
  BY BlankType DEF NextItem, TypeOK
<1>4. QED
  BY <1>1, <1>2, <1>3

\* A request or the poller going from one place to the next.
LEMMA HumanGoToType ==
  ASSUME TypeOK, NEW h \in Human,
         NEW place \in {"idle", "save", "log", "accept", "refuse"},
         HumanGoTo(h, place)
  PROVE  human' \in [Human -> [at : {"idle", "save", "log", "accept", "refuse"},
                               inc : Incident, level : Level]]
<1>1. human \in [Human -> [at : {"idle", "save", "log", "accept", "refuse"},
                           inc : Incident, level : Level]]
  BY DEF TypeOK
<1>2. [human[h] EXCEPT !.at = place] \in [at : {"idle", "save", "log", "accept", "refuse"},
                                         inc : Incident, level : Level]
  BY <1>1
<1>3. human' = [human EXCEPT ![h] = [human[h] EXCEPT !.at = place]]
  BY DEF HumanGoTo
<1> QED
  BY <1>1, <1>2, <1>3

\* The save of a whole row keeps the types of the rows and of the history.
LEMMA SaveWholeType ==
  ASSUME TypeOK, NEW i \in Incident, NEW q \in Row, SaveWhole(i, q)
  PROVE  /\ row' \in [Incident -> Row]
         /\ frames' \in [Incident -> Nat] /\ disturbed' \in SUBSET Incident
<1>1. frames[i] + 1 \in Nat
  BY DEF TypeOK
<1>2. [q EXCEPT !.snap = frames[i] + 1] \in Row
  BY <1>1 DEF Row
<1>3. QED
  BY <1>1, <1>2 DEF SaveWhole, TypeOK

\* Every step keeps the types.
LEMMA TypeStep == TypeOK /\ [Next]_vars => TypeOK'
<1> SUFFICES ASSUME TypeOK, [Next]_vars
             PROVE  TypeOK'
  OBVIOUS
<1>1. ASSUME DecideToCreate
      PROVE  TypeOK'
  BY <1>1 DEF TypeOK, DecideToCreate, tableVars, historyVars, siteVars, workerVars
<1>2. ASSUME CreateIncident
      PROVE  TypeOK'
  <2>1. bridge.inc \in Incident /\ 1 \in Level /\ "created" \in Action
    BY <1>2, BoundAssumption DEF TypeOK, Level, Action
  <2>2. log' \in [Incident -> SUBSET Entry]
    BY <1>2, <2>1, WriteLogType DEF CreateIncident, TypeOK
  <2>3. row' \in [Incident -> Row]
    BY <1>2, <2>1, BlankType DEF CreateIncident, TypeOK, Row, Status, NoRow
  <2>4. bridge' \in [at : {"idle", "create", "photo"}, inc : Incident]
    BY <1>2 DEF CreateIncident, TypeOK
  <2>5. QED
    BY <1>2, <2>2, <2>3, <2>4 DEF CreateIncident, TypeOK, historyVars, siteVars, workerVars
<1>3. ASSUME SaveBridgePhoto
      PROVE  TypeOK'
  <2> DEFINE q == [NoRow EXCEPT !.status = "active", !.age = born[bridge.inc]]
  <2>1. bridge.inc \in Incident /\ q \in Row
    BY BlankType DEF TypeOK, Row, Status, NoRow
  <2>2. SaveWhole(bridge.inc, q)
    BY <1>3 DEF SaveBridgePhoto
  <2> HIDE DEF q
  <2>3. bridge' \in [at : {"idle", "create", "photo"}, inc : Incident]
    BY <1>3 DEF SaveBridgePhoto, TypeOK
  <2>4. QED
    BY <1>3, <2>1, <2>2, <2>3, SaveWholeType
    DEF SaveBridgePhoto, TypeOK, siteVars, workerVars
<1>4. ASSUME ClearLadder
      PROVE  TypeOK'
  BY <1>4, BoundAssumption, SiteAssumption DEF TypeOK, ClearLadder, tableVars, historyVars, workerVars
<1>5. ASSUME AddLevel
      PROVE  TypeOK'
  BY <1>5 DEF TypeOK, AddLevel, tableVars, historyVars, workerVars
<1>6. ASSUME AssignSite \/ CutEdit
      PROVE  TypeOK'
  <2>1. CASE AssignSite
    BY <2>1, BoundAssumption DEF TypeOK, AssignSite, tableVars, historyVars, workerVars
  <2>2. CASE CutEdit
    <3>1. faults' \in 0..MaxFaults /\ adding' \in SUBSET Level
      BY <2>2, BoundAssumption DEF TypeOK, CutEdit
    <3>2. QED
      BY <2>2, <3>1 DEF TypeOK, CutEdit, tableVars, historyVars
  <2>3. QED
    BY <1>6, <2>1, <2>2
<1>7. ASSUME Tick
      PROVE  TypeOK'
  <2>1. row' \in [Incident -> Row]
    BY <1>7, AgedType DEF Tick, TypeOK
  <2>2. born' \in [Incident -> Age]
    BY <1>7, OlderType DEF Tick, TypeOK
  <2>3. copy' \in [Worker -> [Incident -> Instance]]
    BY <1>7, AgedType DEF Tick, TypeOK
  <2>4. receiver' \in [Receiver -> [at : {"idle", "save"}, inc : Incident, row : Row]]
    BY <1>7, AgedType DEF Tick, TypeOK
  <2>5. QED
    BY <1>7, <2>1, <2>2, <2>3, <2>4 DEF Tick, TypeOK, historyVars, siteVars
<1>8. ASSUME NEW w \in Worker, StartPass(w)
      PROVE  TypeOK'
  <2>1. copy' \in [Worker -> [Incident -> Instance]]
    BY <1>8, BlankType DEF StartPass, TypeOK, Instance, Row
  <2>2. Shared \in SUBSET Incident
    BY DEF Shared, Active
  <2>3. QED
    BY <1>8, <2>1, <2>2 DEF StartPass, TypeOK, Active, siteVars
<1>9. ASSUME NEW w \in Worker, DecideToExpire(w)
      PROVE  TypeOK'
  BY <1>9 DEF DecideToExpire, TypeOK, GoTo, tableVars, historyVars, siteVars
<1>10. ASSUME NEW w \in Worker, ExpireIncident(w)
      PROVE  TypeOK'
  <2>1. row' \in [Incident -> Row]
    <3>1. \A r \in Row : [r EXCEPT !.status = "expired", !.stamped = TRUE] \in Row
      BY DEF Row, Status
    <3>2. QED
      BY <1>10, <3>1 DEF ExpireIncident, TypeOK
  <2>2. QED
    BY <1>10, <2>1 DEF ExpireIncident, TypeOK, GoTo, historyVars, siteVars
<1>11. ASSUME NEW w \in Worker, LogExpired(w)
      PROVE  TypeOK'
  <2>1. Current(w) \in Incident /\ Held(w).level \in Level /\ "expired" \in Action
    BY <1>11, HeldType DEF LogExpired, Ready, Instance, Action
  <2>2. log' \in [Incident -> SUBSET Entry]
    BY <1>11, <2>1, WriteLogType DEF LogExpired, TypeOK
  <2>3. QED
    BY <1>11, <2>2, NextItemType DEF LogExpired, TypeOK, historyVars, siteVars
<1>12. ASSUME NEW w \in Worker, LogNotified(w)
      PROVE  TypeOK'
  <2>1. Current(w) \in Incident /\ Held(w).level \in Level /\ "notified" \in Action
    BY <1>12, HeldType DEF LogNotified, Ready, Instance, Action
  <2>2. log' \in [Incident -> SUBSET Entry]
    BY <1>12, <2>1, WriteLogType DEF LogNotified, TypeOK
  <2>3. QED
    BY <1>12, <2>2, NextItemType DEF LogNotified, TypeOK, historyVars, siteVars
<1>13. ASSUME NEW w \in Worker, LogResolved(w)
      PROVE  TypeOK'
  <2>1. Current(w) \in Incident /\ Held(w).level \in Level /\ "resolved" \in Action
    BY <1>13, HeldType DEF LogResolved, Ready, Instance, Action
  <2>2. log' \in [Incident -> SUBSET Entry]
    BY <1>13, <2>1, WriteLogType DEF LogResolved, TypeOK
  <2>3. QED
    BY <1>13, <2>2, NextItemType DEF LogResolved, TypeOK, historyVars, siteVars
<1>14. ASSUME NEW w \in Worker, DecideToEscalate(w)
      PROVE  TypeOK'
  <2> DEFINE next == NextLevel(Held(w).level)
  <2>1. Current(w) \in Incident /\ Held(w) \in Instance /\ next \in Level
    BY <1>14, HeldType, NextLevelIsHigher
    DEF DecideToEscalate, Ready, MustEscalate, TypeOK, Instance
  <2>2. log' \in [Incident -> SUBSET Entry]
    <3>1. WriteLog(Current(w), "escalated", next) /\ "escalated" \in Action
      BY <1>14 DEF DecideToEscalate, Action
    <3>2. QED
      BY <1>14, <2>1, <3>1, WriteLogType DEF TypeOK
  <2>3. copy' \in [Worker -> [Incident -> Instance]]
    <3>1. [Held(w) EXCEPT !.level = next, !.age = 0] \in Instance
      <4>1. 0 \in Age
        BY BoundAssumption DEF Age
      <4>2. QED
        BY <2>1, <4>1 DEF Instance
    <3>2. copy' = [copy EXCEPT ![w][Current(w)] = [Held(w) EXCEPT !.level = next, !.age = 0]]
      BY <1>14, <2>1 DEF DecideToEscalate, Held, TypeOK
    <3>3. QED
      BY <1>14, <2>1, <3>1, <3>2 DEF TypeOK
  <2>4. QED
    BY <1>14, <2>2, <2>3 DEF DecideToEscalate, TypeOK, GoTo, historyVars, siteVars
<1>15. ASSUME NEW w \in Worker, SaveLevel(w)
      PROVE  TypeOK'
  <2>1. Held(w).level \in Level /\ Held(w).age \in Age
    BY <1>15, HeldType DEF SaveLevel, Ready, Instance
  <2>2. row' \in [Incident -> Row]
    <3>1. \A r \in Row :
            [r EXCEPT !.level = Held(w).level, !.age = Held(w).age] \in Row
      BY <2>1 DEF Row
    <3>2. QED
      BY <1>15, <3>1 DEF SaveLevel, TypeOK
  <2>3. QED
    BY <1>15, <2>2 DEF SaveLevel, TypeOK, GoTo, historyVars, siteVars
<1>16. ASSUME NEW w \in Worker, NotifyIfNeeded(w)
      PROVE  TypeOK'
  <2>1. CASE NextItem(w, "scan")
    BY <1>16, <2>1, NextItemType DEF NotifyIfNeeded, TypeOK, tableVars, historyVars, siteVars
  <2>2. CASE GoTo(w, "notify") /\ UNCHANGED <<todo, copy>>
    BY <1>16, <2>2 DEF NotifyIfNeeded, TypeOK, GoTo, tableVars, historyVars, siteVars
  <2>3. QED
    BY <1>16, <2>1, <2>2 DEF NotifyIfNeeded
<1>17. ASSUME NEW w \in Worker, SendNotices(w)
      PROVE  TypeOK'
  <2>1. notices' \in [Incident -> [Level -> 0..MaxNotices]]
    <3>1. \A n \in 0..MaxNotices : OneMore(n) \in 0..MaxNotices
      BY DEF OneMore, MaxNotices
    <3>2. Current(w) \in Incident /\ Held(w).level \in Level
      BY <1>17, HeldType DEF SendNotices, Ready, Instance
    <3>3. QED
      BY <1>17, <3>1, <3>2 DEF SendNotices, TypeOK
  <2>2. QED
    BY <1>17, <2>1 DEF SendNotices, TypeOK, GoTo, historyVars, siteVars
<1>18. ASSUME NEW w \in Worker, StartAutoResolve(w)
      PROVE  TypeOK'
  <2>1. copy' \in [Worker -> [Incident -> Instance]]
    BY <1>18, BlankType DEF StartAutoResolve, TypeOK, Instance, Row
  <2>2. QED
    BY <1>18, <2>1 DEF StartAutoResolve, TypeOK, GoTo, Overdue, Active, tableVars, historyVars, siteVars
<1>19. ASSUME NEW w \in Worker, ResolveOverdue(w)
      PROVE  TypeOK'
  <2>1. row' \in [Incident -> Row]
    <3>1. \A r \in Row : [r EXCEPT !.status = "resolved", !.stamped = TRUE] \in Row
      BY DEF Row, Status
    <3>2. QED
      BY <1>19, <3>1 DEF ResolveOverdue, TypeOK
  <2>2. QED
    BY <1>19, <2>1 DEF ResolveOverdue, TypeOK, GoTo, historyVars, siteVars
<1>20. ASSUME NEW w \in Worker, SkipIncident(w)
      PROVE  TypeOK'
  <2>1. disturbed' \in SUBSET Incident
    BY <1>20, HeldType DEF SkipIncident, LeftHalfway, Ready, TypeOK
  <2>2. QED
    BY <1>20, <2>1, NextItemType, BoundAssumption DEF SkipIncident, TypeOK, siteVars
<1>21. ASSUME NEW w \in Worker, AbandonPass(w)
      PROVE  TypeOK'
  <2>1. disturbed' \in SUBSET Incident
    BY <1>21, HeldType DEF AbandonPass, LeftHalfway, Ready, TypeOK
  <2>2. QED
    BY <1>21, <2>1, BlankType, BoundAssumption DEF AbandonPass, TypeOK, GoTo, siteVars
<1>22. ASSUME NEW o \in Operator, NEW i \in Incident, RequestAck(o, i)
      PROVE  TypeOK'
  BY <1>22 DEF RequestAck, Serve, TypeOK, Row, Human, tableVars, historyVars, siteVars, workerVars
<1>23. ASSUME NEW o \in Operator, SaveAck(o)
      PROVE  TypeOK'
  <2>1. row' \in [Incident -> Row]
    <3>1. \A r \in Row :
            [r EXCEPT !.status = "acknowledged", !.by = o, !.stamped = TRUE] \in Row
      BY DEF Row, Status, Human
    <3>2. QED
      BY <1>23, <3>1 DEF SaveAck, SaveClosure, TypeOK
  <2>2. o \in Human
    BY DEF Human
  <2>3. human' \in [Human -> [at : {"idle", "save", "log", "accept", "refuse"},
                               inc : Incident, level : Level]]
    BY <1>23, <2>2, HumanGoToType DEF SaveAck
  <2>4. QED
    BY <1>23, <2>1, <2>3 DEF SaveAck, TypeOK, historyVars, siteVars, workerVars
<1>24. ASSUME NEW p \in Poller, SaveFalseAlarm(p)
      PROVE  TypeOK'
  <2>1. row' \in [Incident -> Row]
    <3>1. \A r \in Row :
            [r EXCEPT !.status = "resolved", !.by = p, !.stamped = TRUE] \in Row
      BY DEF Row, Status, Human
    <3>2. QED
      BY <1>24, <3>1 DEF SaveFalseAlarm, SaveClosure, TypeOK
  <2>2. p \in Human
    BY DEF Human
  <2>3. human' \in [Human -> [at : {"idle", "save", "log", "accept", "refuse"},
                               inc : Incident, level : Level]]
    BY <1>24, <2>2, HumanGoToType DEF SaveFalseAlarm
  <2>4. QED
    BY <1>24, <2>1, <2>3 DEF SaveFalseAlarm, TypeOK, historyVars, siteVars, workerVars
<1>25. ASSUME NEW o \in Operator, LogAck(o)
      PROVE  TypeOK'
  <2>1. human[o].inc \in Incident /\ human[o].level \in Level /\ "acknowledged" \in Action
    BY <1>25 DEF TypeOK, Human, Action
  <2>2. log' \in [Incident -> SUBSET Entry]
    BY <1>25, <2>1, WriteLogType DEF LogAck, TypeOK
  <2>3. o \in Human
    BY DEF Human
  <2>4. human' \in [Human -> [at : {"idle", "save", "log", "accept", "refuse"},
                               inc : Incident, level : Level]]
    BY <1>25, <2>3, HumanGoToType DEF LogAck
  <2>5. QED
    BY <1>25, <2>2, <2>4 DEF LogAck, TypeOK, historyVars, siteVars, workerVars
<1>26. ASSUME NEW p \in Poller, LogFalseAlarm(p)
      PROVE  TypeOK'
  <2>1. human[p].inc \in Incident /\ human[p].level \in Level /\ "resolved" \in Action
    BY <1>26 DEF TypeOK, Human, Action
  <2>2. log' \in [Incident -> SUBSET Entry]
    BY <1>26, <2>1, WriteLogType DEF LogFalseAlarm, TypeOK
  <2>3. p \in Human
    BY DEF Human
  <2>4. human' \in [Human -> [at : {"idle", "save", "log", "accept", "refuse"},
                               inc : Incident, level : Level]]
    BY <1>26, <2>3, HumanGoToType DEF LogFalseAlarm
  <2>5. QED
    BY <1>26, <2>2, <2>4 DEF LogFalseAlarm, TypeOK, historyVars, siteVars, workerVars
<1>27. ASSUME NEW p \in Poller, NEW i \in Incident, PressAck(p, i)
      PROVE  TypeOK'
  BY <1>27 DEF PressAck, Serve, TypeOK, Row, Human, tableVars, historyVars, siteVars, workerVars
<1>28. ASSUME NEW p \in Poller, NEW i \in Incident, PressFalseAlarm(p, i)
      PROVE  TypeOK'
  BY <1>28 DEF PressFalseAlarm, Serve, TypeOK, Row, Human, tableVars, historyVars, siteVars, workerVars
<1>29. ASSUME NEW p \in Poller, Answer(p)
      PROVE  TypeOK'
  <2>1. p \in Human
    BY DEF Human
  <2>2. human' \in [Human -> [at : {"idle", "save", "log", "accept", "refuse"},
                               inc : Incident, level : Level]]
    BY <1>29, <2>1, HumanGoToType DEF Answer
  <2>3. QED
    BY <1>29, <2>2 DEF Answer, TypeOK, tableVars, historyVars, siteVars, workerVars
<1>30. ASSUME NEW r \in Receiver, MatchSnapshot(r)
      PROVE  TypeOK'
  <2>1. Newest(Active) \in Incident
    BY <1>30, NewestIsMember DEF MatchSnapshot, Match, Active
  <2>2. QED
    BY <1>30, <2>1 DEF MatchSnapshot, Match, TypeOK, tableVars, historyVars, siteVars, workerVars
<1>31. ASSUME NEW r \in Receiver, SaveSnapshot(r)
      PROVE  TypeOK'
  <2>1. receiver[r].inc \in Incident /\ receiver[r].row \in Row
    BY DEF TypeOK
  <2>2. receiver' \in [Receiver -> [at : {"idle", "save"}, inc : Incident, row : Row]]
    BY <1>31, BlankType, BoundAssumption DEF SaveSnapshot, TypeOK, Incident
  <2>3. QED
    BY <1>31, <2>1, <2>2, SaveWholeType DEF SaveSnapshot, TypeOK, siteVars, workerVars
<1>32. CASE UNCHANGED vars
  BY <1>32 DEF vars, historyVars, TypeOK
<1>33. QED
  BY <1>1, <1>2, <1>3, <1>4, <1>5, <1>6, <1>7, <1>8, <1>9, <1>10, <1>11, <1>12,
     <1>13, <1>14, <1>15, <1>16, <1>17, <1>18, <1>19, <1>20, <1>21, <1>22, <1>23,
     <1>24, <1>25, <1>26, <1>27, <1>28, <1>29, <1>30, <1>31, <1>32
  DEF Next, Bridge, Pass, Fault, Rest, Telegram, Snapshots, Admin

\* The initial states have their types.
LEMMA TypeInit == Init => TypeOK
<1> SUFFICES ASSUME Init PROVE TypeOK
  OBVIOUS
<1>1. 0 \in Age /\ 1 \in Level /\ 1 \in Incident
  BY BoundAssumption DEF Age, Level, Incident
<1>2. edits = 0 /\ 0 \in 0..MaxEdits /\ faults = 0 /\ 0 \in 0..MaxFaults
  BY BoundAssumption DEF Init
<1>3. notices \in [Incident -> [Level -> 0..MaxNotices]]
  BY DEF Init, MaxNotices
<1>4. row \in [Incident -> Row] /\ copy \in [Worker -> [Incident -> Instance]]
  BY BlankType DEF Init
<1>5. receiver \in [Receiver -> [at : {"idle", "save"}, inc : Incident, row : Row]]
  BY <1>1, BlankType DEF Init
<1>6. levels \in SUBSET Level
  BY SiteAssumption DEF Init
<1>7. QED
  BY <1>1, <1>2, <1>3, <1>4, <1>5, <1>6 DEF Init, TypeOK

\* Every table and every process keeps its type, whatever passes, requests,
\* snapshots, edits and failures interleave.
THEOREM TypeCorrect == Spec => []TypeOK
  BY TypeInit, TypeStep, PTL DEF Spec

-----------------------------------------------------------------------------
(* The columns of a row agree.  The receiver's stale instance is the one   *)
(* that could break it: the invariant is strengthened with what was read.  *)

ReceiverConsistent ==
  \A r \in Receiver : receiver[r].at = "save" => Consistent(receiver[r].row)

RowInv == TypeOK /\ RowConsistent /\ ReceiverConsistent

\* Time changes no column that has to agree.
LEMMA AgedConsistent ==
  ASSUME NEW q \in Row, Consistent(q)
  PROVE  Consistent(Aged(q))
BY OlderType DEF Consistent, Aged, Row

\* A step that writes neither a row nor an instance of the receiver keeps RowInv.
LEMMA RowInvUntouched ==
  ASSUME RowInv, TypeOK', UNCHANGED <<row, receiver>>
  PROVE  RowInv'
BY DEF RowInv, RowConsistent, ReceiverConsistent

\* A step that writes one row consistently, and leaves the receiver, keeps RowInv.
LEMMA RowInvWritten ==
  ASSUME RowInv, TypeOK', UNCHANGED receiver, NEW i, NEW q,
         row' = [row EXCEPT ![i] = q], i \in Incident => Consistent(q)
  PROVE  RowInv'
<1>1. \A j \in Incident : row'[j] = IF j = i THEN q ELSE row[j]
  BY DEF RowInv, TypeOK
<1>2. RowConsistent'
  BY <1>1 DEF RowInv, RowConsistent, Consistent
<1>3. ReceiverConsistent'
  BY DEF RowInv, ReceiverConsistent
<1>4. QED
  BY <1>2, <1>3 DEF RowInv

\* Every step keeps the columns of the rows, and of the receiver's instance, in
\* agreement: one step below for each action that writes either.
LEMMA RowInvStep == RowInv /\ [Next]_vars => RowInv'
<1> SUFFICES ASSUME RowInv, [Next]_vars
             PROVE  RowInv'
  OBVIOUS
<1> USE DEF RowInv
<1>0. TypeOK'
  BY TypeStep
<1>1. ASSUME CreateIncident
      PROVE  RowInv'
  <2>1. Consistent([NoRow EXCEPT !.status = "active"])
    BY DEF Consistent, NoRow, Closed
  <2>2. QED
    BY <1>0, <1>1, <2>1, RowInvWritten DEF CreateIncident
<1>2. ASSUME SaveBridgePhoto
      PROVE  RowInv'
  <2> DEFINE f == frames[bridge.inc] + 1
             q == [[NoRow EXCEPT !.status = "active", !.age = born[bridge.inc]] EXCEPT !.snap = f]
  <2>1. Consistent(q)
    BY DEF Consistent, NoRow, Closed
  <2>2. row' = [row EXCEPT ![bridge.inc] = q] /\ UNCHANGED receiver
    BY <1>2 DEF SaveBridgePhoto, SaveWhole
  <2> HIDE DEF q
  <2>3. QED
    BY <1>0, <2>1, <2>2, RowInvWritten
<1>3. ASSUME NEW w \in Worker, ExpireIncident(w)
      PROVE  RowInv'
  <2> DEFINE i == Current(w)
             q == [row[i] EXCEPT !.status = "expired", !.stamped = TRUE]
  <2>1. i \in Incident => Consistent(q)
    BY DEF TypeOK, Row, Consistent, Closed
  <2>2. row' = [row EXCEPT ![i] = q] /\ UNCHANGED receiver
    BY <1>3 DEF ExpireIncident
  <2> HIDE DEF q, i
  <2>3. QED
    BY <1>0, <2>1, <2>2, RowInvWritten
<1>4. ASSUME NEW w \in Worker, SaveLevel(w)
      PROVE  RowInv'
  <2> DEFINE i == Current(w)
             q == [row[i] EXCEPT !.level = Held(w).level, !.age = Held(w).age]
  <2>1. i \in Incident => Consistent(q)
    BY DEF TypeOK, Row, RowConsistent, Consistent
  <2>2. row' = [row EXCEPT ![i] = q] /\ UNCHANGED receiver
    BY <1>4 DEF SaveLevel
  <2> HIDE DEF q, i
  <2>3. QED
    BY <1>0, <2>1, <2>2, RowInvWritten
<1>5. ASSUME NEW w \in Worker, ResolveOverdue(w)
      PROVE  RowInv'
  <2> DEFINE i == Current(w)
             q == [row[i] EXCEPT !.status = "resolved", !.stamped = TRUE]
  <2>1. i \in Incident => Consistent(q)
    BY DEF TypeOK, Row, Consistent, Closed
  <2>2. row' = [row EXCEPT ![i] = q] /\ UNCHANGED receiver
    BY <1>5 DEF ResolveOverdue
  <2> HIDE DEF q, i
  <2>3. QED
    BY <1>0, <2>1, <2>2, RowInvWritten
<1>6. ASSUME NEW h \in Human, NEW status \in {"acknowledged", "resolved"}, NEW i \in Incident,
             SaveClosure(i, status, h), UNCHANGED receiver
      PROVE  RowInv'
  <2> DEFINE q == [row[i] EXCEPT !.status = status, !.by = h, !.stamped = TRUE]
  <2>1. Consistent(q)
    BY ProcessAssumption DEF TypeOK, Row, Consistent, Closed
  <2>2. row' = [row EXCEPT ![i] = q]
    BY <1>6 DEF SaveClosure
  <2> HIDE DEF q
  <2>3. QED
    BY <1>0, <1>6, <2>1, <2>2, RowInvWritten
<1>7. ASSUME NEW o \in Operator, SaveAck(o)
      PROVE  RowInv'
  <2>1. o \in Human /\ human[o].inc \in Incident
    BY DEF Human, TypeOK
  <2>2. QED
    BY <1>6, <1>7, <2>1 DEF SaveAck
<1>8. ASSUME NEW p \in Poller, SaveFalseAlarm(p)
      PROVE  RowInv'
  <2>1. p \in Human /\ human[p].inc \in Incident
    BY DEF Human, TypeOK
  <2>2. QED
    BY <1>6, <1>8, <2>1 DEF SaveFalseAlarm
<1>9. ASSUME NEW r \in Receiver, MatchSnapshot(r)
      PROVE  RowInv'
  <2>1. Newest(Active) \in Incident
    BY <1>9, NewestIsMember DEF MatchSnapshot, Match, Active
  <2>2. ReceiverConsistent'
    BY <1>9, <2>1 DEF MatchSnapshot, Match, TypeOK, RowConsistent, ReceiverConsistent
  <2>3. RowConsistent'
    BY <1>9 DEF MatchSnapshot, Match, tableVars, historyVars, RowConsistent
  <2>4. QED
    BY <1>0, <2>2, <2>3
<1>10. ASSUME NEW r \in Receiver, SaveSnapshot(r)
       PROVE  RowInv'
  <2> DEFINE q == [receiver[r].row EXCEPT !.snap = frames[receiver[r].inc] + 1]
  <2>1. receiver[r].row \in Row /\ Consistent(receiver[r].row)
    BY <1>10 DEF SaveSnapshot, SaveWhole, TypeOK, ReceiverConsistent
  <2>2. Consistent(q)
    BY <2>1 DEF Consistent, Row
  <2>3. \A i \in Incident : row'[i] = row[i] \/ row'[i] = q
    BY <1>10 DEF SaveSnapshot, SaveWhole, TypeOK
  <2>4. RowConsistent'
    <3> HIDE DEF q
    <3>1. \A i \in Incident : Consistent(row'[i])
      BY <2>2, <2>3 DEF RowConsistent
    <3>2. QED
      BY <3>1 DEF RowConsistent, Consistent
  <2>5. \A s \in Receiver : receiver'[s] = receiver[s] \/ receiver'[s].at = "idle"
    BY <1>10 DEF SaveSnapshot, SaveWhole, TypeOK
  <2>6. ReceiverConsistent'
    BY <2>5 DEF ReceiverConsistent, Consistent
  <2>7. QED
    BY <1>0, <2>4, <2>6
<1>11. ASSUME Tick
       PROVE  RowInv'
  <2>1. \A i \in Incident : row'[i] = row[i] \/ row'[i] = Aged(row[i])
    BY <1>11 DEF Tick
  <2>2. RowConsistent'
    <3>1. \A i \in Incident : row[i] \in Row /\ Consistent(row[i])
      BY DEF TypeOK, RowConsistent
    <3>2. \A i \in Incident : Consistent(row'[i])
      BY <2>1, <3>1, AgedConsistent
    <3>3. QED
      BY <3>2 DEF RowConsistent, Consistent
  <2>3. ASSUME NEW r \in Receiver, receiver'[r].at = "save"
        PROVE  Consistent(receiver'[r].row)
    <3>1. receiver[r] \in [at : {"idle", "save"}, inc : Incident, row : Row]
      BY DEF TypeOK
    <3>2. receiver'[r] = IF receiver[r].at = "idle" THEN receiver[r]
                         ELSE [receiver[r] EXCEPT !.row = Aged(receiver[r].row)]
      BY <1>11 DEF Tick
    <3>3. receiver[r].at = "save" /\ receiver'[r].row = Aged(receiver[r].row)
      BY <2>3, <3>1, <3>2
    <3>4. Consistent(receiver[r].row)
      BY <3>3 DEF ReceiverConsistent
    <3>5. QED
      BY <3>1, <3>3, <3>4, AgedConsistent
  <2>4. ReceiverConsistent'
    BY <2>3 DEF ReceiverConsistent, Consistent
  <2>5. QED
    BY <1>0, <2>2, <2>4
<1>12. CASE UNCHANGED vars
  BY <1>0, <1>12, RowInvUntouched DEF vars
<1>13. QED
  BY <1>0, <1>1, <1>2, <1>3, <1>4, <1>5, <1>7, <1>8, <1>9, <1>10, <1>11, <1>12, RowInvUntouched
  DEF Next, Bridge, Pass, Fault, Rest, Telegram, Snapshots, Admin, DecideToCreate,
      StartPass, DecideToExpire, LogExpired, DecideToEscalate, NotifyIfNeeded, SendNotices,
      LogNotified, StartAutoResolve, LogResolved, SkipIncident, Scanning, LeftHalfway, AbandonPass, LeftHalfway, RequestAck,
      LogAck, PressAck, PressFalseAlarm, LogFalseAlarm, Answer, ClearLadder, AddLevel,
      CutEdit, AssignSite, tableVars, historyVars

\* Whatever saves race and however stale the instances are, status, resolution
\* time and acknowledger of a row agree.
THEOREM RowsConsistent == Spec => []RowConsistent
<1>1. Init => RowInv
  <2>1. Init => TypeOK
    BY TypeInit
  <2>2. Init => RowConsistent /\ ReceiverConsistent
    BY DEF Init, RowConsistent, ReceiverConsistent, Consistent, NoRow, Closed
  <2>3. QED
    BY <2>1, <2>2 DEF RowInv
<1>2. RowInv => RowConsistent
  BY DEF RowInv
<1>3. QED
  BY <1>1, <1>2, RowInvStep, PTL DEF Spec

-----------------------------------------------------------------------------
(* The audit trail explains the level of each row.  Two processes write a  *)
(* level they read earlier: the pass, between its entry and its save, and  *)
(* the receiver; the invariant says their instances are explained as well. *)

PassExplained ==
  \A w \in Worker : Ready(w, "raise") => Explained(Current(w), Held(w).level)

ReceiverExplained ==
  \A r \in Receiver : receiver[r].at = "save" => Explained(receiver[r].inc, receiver[r].row.level)

LevelInv == TypeOK /\ LevelExplained /\ PassExplained /\ ReceiverExplained

LogGrows == \A i \in Incident : log[i] \subseteq log'[i]

\* An explanation is never lost, because entries are only added.
LEMMA ExplainedKept ==
  ASSUME LogGrows, NEW i \in Incident, NEW l, Explained(i, l)
  PROVE  Explained(i, l)'
BY DEF LogGrows, Explained

\* No step removes an entry.
LEMMA WriteLogGrows ==
  ASSUME TypeOK, NEW i, NEW a, NEW l, WriteLog(i, a, l)
  PROVE  LogGrows
BY DEF TypeOK, WriteLog, LogGrows

\* A step that leaves the audit trail alone removes no entry.
LEMMA UnchangedLogGrows ==
  ASSUME UNCHANGED log
  PROVE  LogGrows
BY DEF LogGrows

\* The levels of the rows stay explained when none of them changes.
LEMMA RowsExplained ==
  ASSUME LevelInv, LogGrows, \A i \in Incident : row'[i].level = row[i].level
  PROVE  LevelExplained'
<1>1. ASSUME NEW i \in Incident
      PROVE  Explained(i, row[i].level)'
  <2> DEFINE l == row[i].level
  <2>1. Explained(i, l)
    BY DEF LevelInv, LevelExplained
  <2>2. l > 1 => [action |-> "escalated", level |-> l] \in log'[i]
    BY <2>1 DEF LogGrows, Explained
  <2>3. row'[i].level = l
    OBVIOUS
  <2> HIDE DEF l
  <2>4. QED
    BY <2>2, <2>3 DEF Explained
<1>2. QED
  BY <1>1 DEF LevelExplained

\* The passes stay explained when none is new before its save of a level.
LEMMA PassesExplained ==
  ASSUME LevelInv, LogGrows,
         \A w \in Worker : Ready(w, "raise")' =>
           /\ Ready(w, "raise") /\ todo'[w] = todo[w]
           /\ Held(w)'.level = Held(w).level
  PROVE  PassExplained'
<1>1. ASSUME NEW w \in Worker, Ready(w, "raise")'
      PROVE  Explained(Current(w), Held(w).level)'
  <2> DEFINE i == Current(w)
             l == Held(w).level
  <2>1. i \in Incident /\ Explained(i, l)
    BY <1>1, HeldType DEF LevelInv, PassExplained, Ready
  <2>2. l > 1 => [action |-> "escalated", level |-> l] \in log'[i]
    BY <2>1 DEF LogGrows, Explained
  <2>3. Current(w)' = i /\ Held(w)'.level = l
    BY <1>1 DEF Current
  <2> HIDE DEF i, l
  <2>4. QED
    BY <2>2, <2>3 DEF Explained
<1>2. QED
  BY <1>1 DEF PassExplained

\* The receiver stays explained when no instance is read.
LEMMA ReceiversExplained ==
  ASSUME LevelInv, LogGrows,
         \A r \in Receiver : receiver'[r].at = "save" =>
           /\ receiver[r].at = "save" /\ receiver'[r].inc = receiver[r].inc
           /\ receiver'[r].row.level = receiver[r].row.level
  PROVE  ReceiverExplained'
<1>1. ASSUME NEW r \in Receiver, receiver'[r].at = "save"
      PROVE  Explained(receiver[r].inc, receiver[r].row.level)'
  <2> DEFINE i == receiver[r].inc
             l == receiver[r].row.level
  <2>1. i \in Incident /\ Explained(i, l)
    BY <1>1 DEF LevelInv, TypeOK, ReceiverExplained
  <2>2. l > 1 => [action |-> "escalated", level |-> l] \in log'[i]
    BY <2>1 DEF LogGrows, Explained
  <2>3. receiver'[r].inc = i /\ receiver'[r].row.level = l
    BY <1>1
  <2> HIDE DEF i, l
  <2>4. QED
    BY <2>2, <2>3 DEF Explained
<1>2. QED
  BY <1>1 DEF ReceiverExplained

\* A step of a pass that writes no level, and after which the pass is not
\* about to save one.
LEMMA LevelInvPass ==
  ASSUME LevelInv, TypeOK', LogGrows, UNCHANGED receiver, NEW w \in Worker,
         \A i \in Incident : row'[i].level = row[i].level,
         \A v \in Worker : v # w => /\ at'[v] = at[v] /\ todo'[v] = todo[v]
                                    /\ copy'[v] = copy[v],
         at'[w] # "raise"
  PROVE  LevelInv'
<1>1. LevelExplained'
  BY RowsExplained
<1>2. PassExplained'
  <2>1. ASSUME NEW v \in Worker, Ready(v, "raise")'
        PROVE  /\ Ready(v, "raise") /\ todo'[v] = todo[v]
               /\ Held(v)'.level = Held(v).level
    BY <2>1 DEF Ready, Held, Current
  <2>2. QED
    BY <2>1, PassesExplained
<1>3. ReceiverExplained'
  BY ReceiversExplained
<1>4. QED
  BY <1>1, <1>2, <1>3 DEF LevelInv

\* A step of somebody else that writes no level.
LEMMA LevelInvOther ==
  ASSUME LevelInv, TypeOK', LogGrows, UNCHANGED <<receiver, at, todo, copy>>,
         \A i \in Incident : row'[i].level = row[i].level
  PROVE  LevelInv'
<1>1. LevelExplained'
  BY RowsExplained
<1>2. PassExplained'
  BY PassesExplained DEF Ready, Held, Current
<1>3. ReceiverExplained'
  BY ReceiversExplained
<1>4. QED
  BY <1>1, <1>2, <1>3 DEF LevelInv

\* Saving one row at an explained level.
LEMMA LevelInvSaved ==
  ASSUME LevelInv, NEW i \in Incident, NEW q \in Row, row' = [row EXCEPT ![i] = q],
         Explained(i, q.level), LogGrows
  PROVE  LevelExplained'
<1>1. ASSUME NEW j \in Incident
      PROVE  Explained(j, row[j].level)'
  <2> DEFINE l == IF j = i THEN q.level ELSE row[j].level
  <2>1. Explained(j, l)
    BY DEF LevelInv, LevelExplained
  <2>2. l > 1 => [action |-> "escalated", level |-> l] \in log'[j]
    BY <2>1 DEF LogGrows, Explained
  <2>3. row'[j].level = l
    BY DEF LevelInv, TypeOK
  <2> HIDE DEF l
  <2>4. QED
    BY <2>2, <2>3 DEF Explained
<1>2. QED
  BY <1>1 DEF LevelExplained

\* Every step keeps the levels explained: those of the rows, of the instances a
\* pass is about to save, and of the receiver's instance.
LEMMA LevelInvStep == LevelInv /\ [Next]_vars => LevelInv'
<1> SUFFICES ASSUME LevelInv, [Next]_vars
             PROVE  LevelInv'
  OBVIOUS
<1>0. TypeOK /\ TypeOK'
  BY TypeStep DEF LevelInv
<1>1. ASSUME NEW i \in Incident, NEW q \in Row, row' = [row EXCEPT ![i] = q],
             Explained(i, q.level), LogGrows, UNCHANGED <<receiver, at, todo, copy>>
      PROVE  LevelInv'
  <2>1. LevelExplained'
    BY <1>1, LevelInvSaved
  <2>2. PassExplained'
    BY <1>1, PassesExplained DEF Ready, Held, Current
  <2>3. ReceiverExplained'
    BY <1>1, ReceiversExplained
  <2>4. QED
    BY <1>0, <2>1, <2>2, <2>3 DEF LevelInv
<1>2. ASSUME CreateIncident
      PROVE  LevelInv'
  <2> DEFINE q == [NoRow EXCEPT !.status = "active"]
  <2>1. q \in Row /\ bridge.inc \in Incident /\ q.level = 1
    BY <1>0, BlankType DEF Row, Status, TypeOK, NoRow
  <2>2. row' = [row EXCEPT ![bridge.inc] = q]
    BY <1>2 DEF CreateIncident
  <2>3. LogGrows /\ UNCHANGED <<receiver, at, todo, copy>>
    BY <1>0, <1>2, WriteLogGrows DEF CreateIncident, workerVars
  <2>4. Explained(bridge.inc, q.level)
    BY <2>1 DEF Explained
  <2> HIDE DEF q
  <2>5. QED
    BY <1>1, <2>1, <2>2, <2>3, <2>4
<1>3. ASSUME SaveBridgePhoto
      PROVE  LevelInv'
  <2> DEFINE f == frames[bridge.inc] + 1
             q == [[NoRow EXCEPT !.status = "active", !.age = born[bridge.inc]] EXCEPT !.snap = f]
  <2>1. q \in Row /\ bridge.inc \in Incident /\ q.level = 1
    <3>1. bridge.inc \in Incident /\ f \in Nat /\ born[bridge.inc] \in Age
      BY <1>0 DEF TypeOK
    <3> HIDE DEF f
    <3>2. QED
      BY <3>1, BlankType DEF Row, Status, NoRow
  <2>2. row' = [row EXCEPT ![bridge.inc] = q]
    BY <1>3 DEF SaveBridgePhoto, SaveWhole
  <2>3. LogGrows /\ UNCHANGED <<receiver, at, todo, copy>>
    BY <1>3, UnchangedLogGrows DEF SaveBridgePhoto, SaveWhole, workerVars
  <2>4. Explained(bridge.inc, q.level)
    BY <2>1 DEF Explained
  <2> HIDE DEF q
  <2>5. QED
    BY <1>1, <2>1, <2>2, <2>3, <2>4
<1>4. ASSUME NEW h \in Human, NEW status \in {"acknowledged", "resolved"}, NEW i \in Incident,
             SaveClosure(i, status, h), UNCHANGED <<log, receiver, at, todo, copy>>
      PROVE  LevelInv'
  <2>1. \A j \in Incident : row'[j].level = row[j].level
    BY <1>0, <1>4 DEF SaveClosure, TypeOK, Row
  <2>2. QED
    BY <1>0, <1>4, <2>1, UnchangedLogGrows, LevelInvOther
<1>5. ASSUME NEW o \in Operator, SaveAck(o)
      PROVE  LevelInv'
  <2>1. o \in Human /\ human[o].inc \in Incident
    BY <1>0 DEF Human, TypeOK
  <2>2. QED
    BY <1>4, <1>5, <2>1 DEF SaveAck, workerVars
<1>6. ASSUME NEW p \in Poller, SaveFalseAlarm(p)
      PROVE  LevelInv'
  <2>1. p \in Human /\ human[p].inc \in Incident
    BY <1>0 DEF Human, TypeOK
  <2>2. QED
    BY <1>4, <1>6, <2>1 DEF SaveFalseAlarm, workerVars
<1>7. ASSUME NEW o \in Operator, LogAck(o)
      PROVE  LevelInv'
  BY <1>0, <1>7, WriteLogGrows, LevelInvOther DEF LogAck, workerVars
<1>8. ASSUME NEW p \in Poller, LogFalseAlarm(p)
      PROVE  LevelInv'
  BY <1>0, <1>8, WriteLogGrows, LevelInvOther DEF LogFalseAlarm, workerVars
<1>9. ASSUME NEW w \in Worker, SaveLevel(w)
      PROVE  LevelInv'
  <2>1. Current(w) \in Incident /\ Held(w).level \in Level /\ Held(w).age \in Age
    BY <1>0, <1>9, HeldType DEF SaveLevel, Ready, Instance
  <2> DEFINE q == [row[Current(w)] EXCEPT !.level = Held(w).level, !.age = Held(w).age]
  <2>2. q \in Row /\ q.level = Held(w).level
    <3>1. row[Current(w)] \in Row
      BY <1>0, <2>1 DEF TypeOK
    <3>2. QED
      BY <2>1, <3>1 DEF Row
  <2>3. row' = [row EXCEPT ![Current(w)] = q] /\ UNCHANGED <<receiver, todo, copy, log>>
    BY <1>9 DEF SaveLevel
  <2>4. Explained(Current(w), q.level)
    BY <1>9, <2>2 DEF LevelInv, PassExplained, SaveLevel
  <2> HIDE DEF q
  <2>5. LogGrows
    BY <2>3, UnchangedLogGrows
  <2>6. LevelExplained'
    BY <2>1, <2>2, <2>3, <2>4, <2>5, LevelInvSaved
  <2>7. ASSUME NEW v \in Worker, Ready(v, "raise")'
        PROVE  Ready(v, "raise")
    BY <1>0, <1>9, <2>3, <2>7 DEF SaveLevel, Ready, GoTo, TypeOK
  <2>8. PassExplained'
    BY <2>3, <2>5, <2>7, PassesExplained DEF Held, Current
  <2>9. ReceiverExplained'
    BY <2>3, <2>5, ReceiversExplained
  <2>10. QED
    BY <1>0, <2>6, <2>8, <2>9 DEF LevelInv
<1>10. ASSUME NEW w \in Worker, DecideToEscalate(w)
       PROVE  LevelInv'
  <2> DEFINE c == Current(w)
             next == NextLevel(Held(w).level)
  <2>1. c \in Incident /\ Held(w) \in Instance /\ next \in Level
    BY <1>0, <1>10, HeldType, NextLevelIsHigher
    DEF DecideToEscalate, Ready, MustEscalate, TypeOK, Instance
  <2>2. WriteLog(c, "escalated", next)
    BY <1>10 DEF DecideToEscalate
  <2>3. LogGrows
    BY <1>0, <2>2, WriteLogGrows
  <2>4. [action |-> "escalated", level |-> next] \in log'[c]
    BY <1>0, <2>1, <2>2 DEF WriteLog, TypeOK
  <2>5. LevelExplained'
    BY <1>10, <2>3, RowsExplained DEF DecideToEscalate
  <2>6. ReceiverExplained'
    BY <1>10, <2>3, ReceiversExplained DEF DecideToEscalate
  <2>7. ASSUME NEW v \in Worker, Ready(v, "raise")'
        PROVE  Explained(Current(v), Held(v).level)'
    <3>1. Current(v)' = Current(v)
      BY <1>10 DEF DecideToEscalate, Current
    <3>2. CASE v = w
      <4>1. copy' = [copy EXCEPT ![w][c] = [Held(w) EXCEPT !.level = next, !.age = 0]]
        BY <1>0, <1>10, <2>1 DEF DecideToEscalate, Held, TypeOK
      <4>2. copy'[w][c].level = next
        BY <1>0, <2>1, <4>1 DEF TypeOK, Instance
      <4>3. Held(v)'.level = next /\ Current(v)' = c
        BY <3>1, <3>2, <4>2 DEF Held
      <4> HIDE DEF next, c
      <4>4. QED
        BY <2>4, <4>3 DEF Explained
    <3>3. CASE v # w
      <4>1. copy'[v] = copy[v] /\ at'[v] = at[v] /\ todo'[v] = todo[v]
        BY <1>0, <1>10, <3>3 DEF DecideToEscalate, GoTo, TypeOK
      <4>2. Ready(v, "raise") /\ Held(v)' = Held(v)
        BY <2>7, <3>1, <4>1 DEF Ready, Held
      <4>3. Current(v) \in Incident
        BY <1>0, <4>2, HeldType DEF Ready
      <4> DEFINE l == Held(v).level
      <4>4. l > 1 => [action |-> "escalated", level |-> l] \in log'[Current(v)]
        BY <2>3, <4>2, <4>3 DEF LevelInv, PassExplained, Explained, LogGrows
      <4>5. Held(v)'.level = l
        BY <4>2
      <4> HIDE DEF l
      <4>6. QED
        BY <3>1, <4>4, <4>5 DEF Explained
    <3>4. QED
      BY <3>2, <3>3
  <2>8. PassExplained'
    BY <2>7 DEF PassExplained
  <2>9. QED
    BY <1>0, <2>5, <2>6, <2>8 DEF LevelInv
<1>11. ASSUME NEW r \in Receiver, MatchSnapshot(r)
       PROVE  LevelInv'
  <2>1. Newest(Active) \in Incident
    BY <1>11, NewestIsMember DEF MatchSnapshot, Match, Active
  <2>2. LogGrows /\ UNCHANGED <<row, log, at, todo, copy>>
    BY <1>11, UnchangedLogGrows DEF MatchSnapshot, Match, tableVars, historyVars, workerVars
  <2>3. LevelExplained' /\ PassExplained'
    BY <2>2, RowsExplained, PassesExplained DEF Ready, Held, Current
  <2>4. ASSUME NEW s \in Receiver, receiver'[s].at = "save"
        PROVE  Explained(receiver'[s].inc, receiver'[s].row.level)
    <3>1. CASE s = r
      <4>1. receiver'[s] = [at |-> "save", inc |-> Newest(Active), row |-> row[Newest(Active)]]
        BY <1>0, <1>11, <3>1 DEF MatchSnapshot, Match, TypeOK
      <4>2. Explained(Newest(Active), row[Newest(Active)].level)
        BY <2>1 DEF LevelInv, LevelExplained
      <4>3. QED
        BY <4>1, <4>2
    <3>2. CASE s # r
      <4>1. receiver'[s] = receiver[s]
        BY <1>0, <1>11, <3>2 DEF MatchSnapshot, Match, TypeOK
      <4>2. QED
        BY <2>4, <4>1 DEF LevelInv, ReceiverExplained
    <3>3. QED
      BY <3>1, <3>2
  <2>5. ReceiverExplained'
    BY <2>2, <2>4 DEF ReceiverExplained, Explained
  <2>6. QED
    BY <1>0, <2>3, <2>5 DEF LevelInv
<1>12. ASSUME NEW r \in Receiver, SaveSnapshot(r)
       PROVE  LevelInv'
  <2> DEFINE i == receiver[r].inc
             q == [receiver[r].row EXCEPT !.snap = frames[i] + 1]
  <2>1. receiver[r] \in [at : {"idle", "save"}, inc : Incident, row : Row]
    BY <1>0 DEF TypeOK
  <2>2. i \in Incident /\ q \in Row /\ q.level = receiver[r].row.level
    <3>1. i \in Incident /\ frames[i] + 1 \in Nat /\ receiver[r].row \in Row
      BY <1>0, <2>1 DEF TypeOK
    <3>2. QED
      BY <3>1 DEF Row
  <2>3. Explained(i, q.level)
    BY <1>12, <2>2 DEF LevelInv, ReceiverExplained, SaveSnapshot, SaveWhole
  <2>4. row' = [row EXCEPT ![i] = q] /\ UNCHANGED <<log, at, todo, copy>>
    BY <1>12 DEF SaveSnapshot, SaveWhole, workerVars
  <2>5. \A s \in Receiver : receiver'[s].at = "save" => receiver'[s] = receiver[s]
    BY <1>0, <1>12 DEF SaveSnapshot, SaveWhole, TypeOK
  <2> HIDE DEF i, q
  <2>6. LogGrows
    BY <2>4, UnchangedLogGrows
  <2>7. LevelExplained'
    BY <2>2, <2>3, <2>4, <2>6, LevelInvSaved
  <2>8. PassExplained'
    BY <2>4, <2>6, PassesExplained DEF Ready, Held, Current
  <2>9. ReceiverExplained'
    BY <2>5, <2>6, ReceiversExplained
  <2>10. QED
    BY <1>0, <2>7, <2>8, <2>9 DEF LevelInv
<1>13. ASSUME Tick
       PROVE  LevelInv'
  <2>1. LogGrows /\ UNCHANGED <<log, at, todo>>
    BY <1>13, UnchangedLogGrows DEF Tick
  <2>2. \A i \in Incident : row'[i].level = row[i].level
    BY <1>0, <1>13 DEF Tick, Aged, TypeOK, Row
  <2>3. LevelExplained'
    BY <2>1, <2>2, RowsExplained
  <2>4. ASSUME NEW w \in Worker, Ready(w, "raise")'
        PROVE  Ready(w, "raise") /\ Held(w)'.level = Held(w).level
    <3>1. Ready(w, "raise") /\ Current(w)' = Current(w)
      BY <2>1, <2>4 DEF Ready, Current
    <3>2. Current(w) \in Incident /\ Current(w) \in todo[w] /\ Held(w) \in Instance
      BY <1>0, <3>1, HeldType DEF Ready
    <3>3. copy'[w][Current(w)] = Aged(Held(w))
      BY <1>13, <3>2 DEF Tick, Held
    <3>4. Aged(Held(w)).level = Held(w).level
      BY <3>2 DEF Aged, Instance
    <3>5. QED
      BY <3>1, <3>3, <3>4 DEF Held
  <2>5. PassExplained'
    BY <2>1, <2>4, PassesExplained
  <2>6. ASSUME NEW r \in Receiver, receiver'[r].at = "save"
        PROVE  /\ receiver[r].at = "save" /\ receiver'[r].inc = receiver[r].inc
               /\ receiver'[r].row.level = receiver[r].row.level
    <3>1. receiver[r] \in [at : {"idle", "save"}, inc : Incident, row : Row]
      BY <1>0 DEF TypeOK
    <3>2. receiver'[r] = IF receiver[r].at = "idle" THEN receiver[r]
                         ELSE [receiver[r] EXCEPT !.row = Aged(receiver[r].row)]
      BY <1>13 DEF Tick
    <3>3. /\ receiver[r].at = "save" /\ receiver'[r].inc = receiver[r].inc
          /\ receiver'[r].row = Aged(receiver[r].row)
      BY <2>6, <3>1, <3>2
    <3>4. Aged(receiver[r].row).level = receiver[r].row.level
      BY <3>1 DEF Aged, Row
    <3>5. QED
      BY <3>3, <3>4
  <2>7. ReceiverExplained'
    BY <2>1, <2>6, ReceiversExplained
  <2>8. QED
    BY <1>0, <2>3, <2>5, <2>7 DEF LevelInv
<1>14. ASSUME NEW w \in Worker, ExpireIncident(w) \/ ResolveOverdue(w)
       PROVE  LevelInv'
  <2>1. \A i \in Incident : row'[i].level = row[i].level
    <3>1. \A q \in Row : /\ [q EXCEPT !.status = "expired", !.stamped = TRUE].level = q.level
                        /\ [q EXCEPT !.status = "resolved", !.stamped = TRUE].level = q.level
      BY DEF Row
    <3>2. \A i \in Incident : row[i] \in Row
      BY <1>0 DEF TypeOK
    <3>3. CASE ExpireIncident(w)
      BY <1>0, <3>1, <3>2, <3>3 DEF ExpireIncident, TypeOK
    <3>4. CASE ResolveOverdue(w)
      BY <1>0, <3>1, <3>2, <3>4 DEF ResolveOverdue, TypeOK
    <3>5. QED
      BY <1>14, <3>3, <3>4
  <2>2. LogGrows /\ UNCHANGED <<log, todo, copy, receiver>>
    BY <1>14, UnchangedLogGrows DEF ExpireIncident, ResolveOverdue
  <2>3. at'[w] # "raise" /\ \A v \in Worker : v # w => at'[v] = at[v]
    BY <1>0, <1>14 DEF ExpireIncident, ResolveOverdue, GoTo, TypeOK
  <2>4. QED
    BY <1>0, <2>1, <2>2, <2>3, LevelInvPass
<1>15. ASSUME NEW w \in Worker, LogExpired(w) \/ LogNotified(w) \/ LogResolved(w)
       PROVE  LevelInv'
  <2>1. UNCHANGED <<row, receiver>> /\ LogGrows
    BY <1>0, <1>15, WriteLogGrows DEF LogExpired, LogNotified, LogResolved
  <2>2. \E place \in {"scan", "resolve", "idle"} : NextItem(w, place)
    BY <1>15 DEF LogExpired, LogNotified, LogResolved
  <2>3. /\ at'[w] # "raise"
        /\ \A v \in Worker : v # w => at'[v] = at[v] /\ todo'[v] = todo[v] /\ copy'[v] = copy[v]
    BY <1>0, <2>2 DEF NextItem, GoTo, TypeOK
  <2>4. QED
    BY <1>0, <2>1, <2>3, LevelInvPass
<1>16. ASSUME NEW w \in Worker,
              StartPass(w) \/ DecideToExpire(w) \/ NotifyIfNeeded(w) \/ SendNotices(w)
                \/ StartAutoResolve(w) \/ Fault(w)
       PROVE  LevelInv'
  <2>1. UNCHANGED <<row, log, receiver>> /\ LogGrows
    BY <1>16, UnchangedLogGrows DEF StartPass, DecideToExpire, NotifyIfNeeded, SendNotices,
       StartAutoResolve, Fault, SkipIncident, Scanning, LeftHalfway, AbandonPass, LeftHalfway, tableVars, historyVars
  <2>2. /\ at'[w] # "raise"
        /\ \A v \in Worker : v # w => at'[v] = at[v] /\ todo'[v] = todo[v] /\ copy'[v] = copy[v]
    BY <1>0, <1>16 DEF StartPass, DecideToExpire, NotifyIfNeeded, SendNotices,
       StartAutoResolve, Fault, SkipIncident, Scanning, LeftHalfway, AbandonPass, LeftHalfway, NextItem, GoTo, TypeOK
  <2>3. QED
    BY <1>0, <2>1, <2>2, LevelInvPass
<1>17. ASSUME UNCHANGED <<row, log, receiver, at, todo, copy>>
       PROVE  LevelInv'
  BY <1>0, <1>17, UnchangedLogGrows, LevelInvOther
<1>18. QED
  BY <1>2, <1>3, <1>5, <1>6, <1>7, <1>8, <1>9, <1>10, <1>11, <1>12, <1>13, <1>14, <1>15,
     <1>16, <1>17
  DEF Next, vars, Bridge, Pass, Rest, Telegram, Snapshots, Admin, DecideToCreate, RequestAck,
      PressAck, PressFalseAlarm, Answer, ClearLadder, AddLevel, CutEdit,
      AssignSite, tableVars, historyVars, workerVars

\* However many passes overlap, die or work on stale instances, the log holds
\* an entry of the escalation to the level each row is at.
THEOREM LevelsExplained == Spec => []LevelExplained
<1>1. Init => LevelInv
  <2>1. Init => TypeOK
    BY TypeInit
  <2>2. Init => LevelExplained /\ PassExplained /\ ReceiverExplained
    BY DEF Init, LevelExplained, PassExplained, ReceiverExplained, Ready, Explained, NoRow
  <2>3. QED
    BY <2>1, <2>2 DEF LevelInv
<1>2. LevelInv => LevelExplained
  BY DEF LevelInv
<1>3. QED
  BY <1>1, <1>2, LevelInvStep, PTL DEF Spec

-----------------------------------------------------------------------------
(* The audit trail explains how each row was closed, as long as nothing    *)
(* fails between a save and its entry: the process that closed the row is  *)
(* about to write it.                                                      *)

\* Who is about to write the entry of a closure.
PassOwes(i, place) == \E w \in Worker : Ready(w, place) /\ Current(w) = i
HumanOwes(i, H) == \E h \in H : human[h].at = "log" /\ human[h].inc = i

Accounted(i) ==
  /\ row[i].status = "expired" => Logged(i, "expired") \/ PassOwes(i, "logExpired")
  /\ row[i].status = "acknowledged" => Logged(i, "acknowledged") \/ HumanOwes(i, Operator)
  /\ row[i].status = "resolved" =>
       Logged(i, "resolved") \/ PassOwes(i, "logResolved") \/ HumanOwes(i, Poller)

\* The receiver's instance is of an active row: it closes nothing.
ReceiverActive == \A r \in Receiver : receiver[r].at = "save" => receiver[r].row.status = "active"

ClosureInv == TypeOK /\ ReceiverActive /\ \A i \in Incident : Accounted(i)

\* Who owes an entry does so after the step.
PassDebt(w) ==
  at[w] \in {"logExpired", "logResolved"} => at'[w] = at[w] /\ todo'[w] = todo[w]
HumanDebt(h) ==
  human[h].at = "log" => human'[h].at = "log" /\ human'[h].inc = human[h].inc
PassDebts == \A w \in Worker : PassDebt(w)
HumanDebts == \A h \in Human : HumanDebt(h)

\* An entry, once written, is there for ever.
LEMMA LoggedKept ==
  ASSUME LogGrows, NEW i \in Incident, NEW a, Logged(i, a)
  PROVE  Logged(i, a)'
BY DEF LogGrows, Logged

\* What a pass owes stays owed while the passes stay where they are.
LEMMA PassDebtsKept ==
  ASSUME PassDebts, NEW i, NEW place \in {"logExpired", "logResolved"}, PassOwes(i, place)
  PROVE  PassOwes(i, place)'
BY DEF PassDebts, PassDebt, PassOwes, Ready, Current

\* And so does what an operator or the poller owes.
LEMMA HumanDebtsKept ==
  ASSUME HumanDebts, NEW i, NEW H \in {Operator, Poller}, HumanOwes(i, H)
  PROVE  HumanOwes(i, H)'
BY DEF HumanDebts, HumanDebt, HumanOwes, Human

\* A row whose status a step leaves alone, or makes active, stays accounted for.
LEMMA AccountedKept ==
  ASSUME PassDebts, HumanDebts, LogGrows, NEW i \in Incident, Accounted(i),
         row'[i].status \in {row[i].status, "active"}
  PROVE  Accounted(i)'
BY LoggedKept, PassDebtsKept, HumanDebtsKept DEF Accounted

\* A pass closes a row: it is the one that owes the entry.
LEMMA PassCloses ==
  ASSUME ClosureInv, NEW w \in Worker, ExpireIncident(w) \/ ResolveOverdue(w)
  PROVE  \A i \in Incident : Accounted(i)'
<1> USE DEF ClosureInv
<1>0. PICK c : c = Current(w)
  OBVIOUS
<1>1. /\ c \in Incident /\ UNCHANGED <<log, human, todo>> /\ todo[w] # {}
      /\ at[w] \in {"expire", "resolve"}
  BY <1>0, HeldType DEF ExpireIncident, ResolveOverdue, Ready
<1>2. PassDebts /\ HumanDebts /\ LogGrows
  BY <1>1, UnchangedLogGrows
  DEF ExpireIncident, ResolveOverdue, GoTo, TypeOK, PassDebts, PassDebt, HumanDebts, HumanDebt
<1>3. ASSUME NEW i \in Incident, i # c
      PROVE  Accounted(i)'
  <2>1. row'[i] = row[i]
    BY <1>0, <1>3 DEF ExpireIncident, ResolveOverdue, TypeOK
  <2>2. QED
    BY <1>2, <2>1, AccountedKept
<1>4. row[c] \in Row
  BY <1>1 DEF TypeOK
<1>5. CASE ExpireIncident(w)
  <2>1. row'[c].status = "expired" /\ at'[w] = "logExpired"
    BY <1>0, <1>1, <1>4, <1>5 DEF ExpireIncident, GoTo, TypeOK, Row
  <2>2. PassOwes(c, "logExpired")'
    BY <1>0, <1>1, <2>1 DEF PassOwes, Ready, Current
  <2>3. Accounted(c)'
    BY <1>1, <2>1, <2>2 DEF Accounted
  <2>4. QED
    BY <1>1, <1>3, <2>3
<1>6. CASE ResolveOverdue(w)
  <2>1. row'[c].status = "resolved" /\ at'[w] = "logResolved"
    BY <1>0, <1>1, <1>4, <1>6 DEF ResolveOverdue, GoTo, TypeOK, Row
  <2>2. PassOwes(c, "logResolved")'
    BY <1>0, <1>1, <2>1 DEF PassOwes, Ready, Current
  <2>3. Accounted(c)'
    BY <1>1, <2>1, <2>2 DEF Accounted
  <2>4. QED
    BY <1>1, <1>3, <2>3
<1>7. QED
  BY <1>5, <1>6

\* It writes the entry, of the row it closed and of no other.
LEMMA PassLogs ==
  ASSUME ClosureInv, NEW w \in Worker, LogExpired(w) \/ LogResolved(w)
  PROVE  \A i \in Incident : Accounted(i)'
<1> USE DEF ClosureInv
<1>0. PICK c : c = Current(w)
  OBVIOUS
<1>1. /\ c \in Incident /\ Held(w).level \in Level
      /\ UNCHANGED <<row, human>>
  BY <1>0, HeldType DEF LogExpired, LogResolved, Ready, Instance
<1>2. PICK a \in {"expired", "resolved"} :
        /\ WriteLog(c, a, Held(w).level)
        /\ at[w] = IF a = "expired" THEN "logExpired" ELSE "logResolved"
  BY <1>0 DEF LogExpired, LogResolved, Ready
<1>3. LogGrows /\ Logged(c, a)'
  <2>1. LogGrows
    BY <1>2, WriteLogGrows
  <2>2. PICK l \in Level : l = Held(w).level
    BY <1>1
  <2>3. [action |-> a, level |-> l] \in log'[c]
    BY <1>1, <1>2, <2>2 DEF WriteLog, TypeOK
  <2>4. QED
    BY <2>1, <2>3 DEF Logged
<1>4. \A v \in Worker : v # w => at'[v] = at[v] /\ todo'[v] = todo[v]
  BY DEF LogExpired, LogResolved, NextItem, GoTo, TypeOK
<1>5. HumanDebts
  BY <1>1 DEF HumanDebts, HumanDebt
<1>6. ASSUME NEW i \in Incident, NEW place \in {"logExpired", "logResolved"}, PassOwes(i, place)
      PROVE  PassOwes(i, place)' \/ (place = at[w] /\ Logged(i, a)')
  <2>1. PICK v \in Worker : Ready(v, place) /\ Current(v) = i
    BY <1>6 DEF PassOwes
  <2>2. CASE v = w
    BY <1>0, <1>3, <2>1, <2>2 DEF Ready
  <2>3. CASE v # w
    BY <1>4, <2>1, <2>3 DEF PassOwes, Ready, Current
  <2>4. QED
    BY <2>2, <2>3
<1>7. QED
  BY <1>1, <1>2, <1>3, <1>5, <1>6, LoggedKept, HumanDebtsKept DEF Accounted

\* An operator, or the poller, closes a row, and owes its entry.
LEMMA HumanCloses ==
  ASSUME ClosureInv, NEW h \in Human,
         (h \in Operator /\ SaveAck(h)) \/ (h \in Poller /\ SaveFalseAlarm(h))
  PROVE  \A i \in Incident : Accounted(i)'
<1> USE DEF ClosureInv
<1>0. PICK c : c = human[h].inc
  OBVIOUS
<1>1. /\ c \in Incident /\ human[h].at = "save"
      /\ human' = [human EXCEPT ![h].at = "log"] /\ UNCHANGED <<log, at, todo>>
  BY <1>0 DEF SaveAck, SaveFalseAlarm, HumanGoTo, TypeOK, workerVars
<1>2. /\ human'[h].at = "log" /\ human'[h].inc = c
      /\ \A k \in Human \ {h} : human'[k] = human[k]
  BY <1>0, <1>1 DEF TypeOK
<1>3. PassDebts /\ HumanDebts /\ LogGrows
  BY <1>0, <1>1, <1>2, UnchangedLogGrows DEF PassDebts, PassDebt, HumanDebts, HumanDebt
<1>4. ASSUME NEW i \in Incident, i # c
      PROVE  Accounted(i)'
  <2>1. row'[i] = row[i]
    BY <1>0, <1>4 DEF SaveAck, SaveFalseAlarm, SaveClosure, TypeOK
  <2>2. QED
    BY <1>3, <2>1, AccountedKept
<1>5. row[c] \in Row
  BY <1>1 DEF TypeOK
<1>6. CASE h \in Operator /\ SaveAck(h)
  <2>1. row'[c].status = "acknowledged"
    BY <1>0, <1>1, <1>5, <1>6 DEF SaveAck, SaveClosure, TypeOK, Row
  <2>2. HumanOwes(c, Operator)'
    BY <1>2, <1>6 DEF HumanOwes
  <2>3. Accounted(c)'
    BY <1>1, <2>1, <2>2 DEF Accounted
  <2>4. QED
    BY <1>1, <1>4, <2>3
<1>7. CASE h \in Poller /\ SaveFalseAlarm(h)
  <2>1. row'[c].status = "resolved"
    BY <1>0, <1>1, <1>5, <1>7 DEF SaveFalseAlarm, SaveClosure, TypeOK, Row
  <2>2. HumanOwes(c, Poller)'
    BY <1>2, <1>7 DEF HumanOwes
  <2>3. Accounted(c)'
    BY <1>1, <2>1, <2>2 DEF Accounted
  <2>4. QED
    BY <1>1, <1>4, <2>3
<1>8. QED
  BY <1>6, <1>7

\* They write the entry.
LEMMA HumanLogs ==
  ASSUME ClosureInv, NEW h \in Human,
         (h \in Operator /\ LogAck(h)) \/ (h \in Poller /\ LogFalseAlarm(h))
  PROVE  \A i \in Incident : Accounted(i)'
<1> USE DEF ClosureInv
<1>0. PICK c, l : c = human[h].inc /\ l = human[h].level
  OBVIOUS
<1>1. c \in Incident /\ l \in Level /\ UNCHANGED <<row, at, todo>>
  BY <1>0 DEF LogAck, LogFalseAlarm, TypeOK, workerVars
<1>2. PICK a \in {"acknowledged", "resolved"} :
        /\ WriteLog(c, a, l)
        /\ a = "acknowledged" => h \in Operator
        /\ a = "resolved" => h \in Poller
  BY <1>0 DEF LogAck, LogFalseAlarm
<1>3. LogGrows /\ Logged(c, a)'
  <2>1. LogGrows
    BY <1>2, WriteLogGrows
  <2>2. [action |-> a, level |-> l] \in log'[c]
    BY <1>1, <1>2 DEF WriteLog, TypeOK
  <2>3. QED
    BY <1>1, <2>1, <2>2 DEF Logged
<1>4. \A k \in Human : k # h => human'[k] = human[k]
  BY DEF LogAck, LogFalseAlarm, HumanGoTo, TypeOK
<1>5. PassDebts
  BY <1>1 DEF PassDebts, PassDebt
<1>6. ASSUME NEW i \in Incident, NEW H \in {Operator, Poller}, HumanOwes(i, H)
      PROVE  HumanOwes(i, H)' \/ (h \in H /\ Logged(i, a)')
  <2>1. PICK k \in H : human[k].at = "log" /\ human[k].inc = i
    BY <1>6 DEF HumanOwes
  <2>2. CASE k = h
    BY <1>0, <1>3, <2>1, <2>2
  <2>3. CASE k # h
    BY <1>4, <2>1, <2>3 DEF HumanOwes, Human
  <2>4. QED
    BY <2>2, <2>3
<1>7. ~(h \in Operator /\ h \in Poller)
  BY ProcessAssumption
<1>8. QED
  BY <1>1, <1>2, <1>3, <1>5, <1>6, <1>7, LoggedKept, PassDebtsKept DEF Accounted

\* Nobody else closes a row, or forgets an entry.
LEMMA OthersAccount ==
  ASSUME ClosureInv, PassDebts, HumanDebts, LogGrows,
         \A i \in Incident : row'[i].status \in {row[i].status, "active"}
  PROVE  \A i \in Incident : Accounted(i)'
BY AccountedKept DEF ClosureInv

\* The steps of a pass that neither close a row nor write the entry of that.
LEMMA PassOtherwise ==
  ASSUME ClosureInv, NEW w \in Worker, Pass(w),
         ~(ExpireIncident(w) \/ ResolveOverdue(w) \/ LogExpired(w) \/ LogResolved(w))
  PROVE  \A i \in Incident : Accounted(i)'
<1> USE DEF ClosureInv
<1>1. /\ at[w] \notin {"logExpired", "logResolved"} /\ UNCHANGED human
      /\ \A v \in Worker : v # w => at'[v] = at[v] /\ todo'[v] = todo[v]
  BY DEF Pass, StartPass, DecideToExpire, DecideToEscalate, SaveLevel, NotifyIfNeeded,
         SendNotices, LogNotified, StartAutoResolve, Ready, NextItem, GoTo, TypeOK
<1>2. PassDebts /\ HumanDebts
  BY <1>1 DEF PassDebts, PassDebt, HumanDebts, HumanDebt
<1>3. LogGrows
  BY UnchangedLogGrows, WriteLogGrows
  DEF Pass, StartPass, DecideToExpire, DecideToEscalate, SaveLevel, NotifyIfNeeded,
      SendNotices, LogNotified, StartAutoResolve, tableVars, historyVars
<1>4. ASSUME NEW i \in Incident
      PROVE  row'[i].status = row[i].status
  <2>1. CASE SaveLevel(w)
    <3>1. row[i] \in Row /\ Current(w) \in Incident
      BY <2>1, HeldType DEF SaveLevel, Ready, TypeOK
    <3>2. QED
      BY <2>1, <3>1 DEF SaveLevel, TypeOK, Row
  <2>2. CASE UNCHANGED row
    BY <2>2
  <2>3. QED
    BY <2>1, <2>2
    DEF Pass, StartPass, DecideToExpire, DecideToEscalate, NotifyIfNeeded, SendNotices,
        LogNotified, StartAutoResolve, tableVars, historyVars
<1>5. QED
  BY <1>2, <1>3, <1>4, OthersAccount

\* The requests and the poller before they save, and after their entry.
LEMMA HumanOtherwise ==
  ASSUME ClosureInv,
         \/ \E o \in Operator : \E i \in Incident : RequestAck(o, i)
         \/ \E p \in Poller : \/ \E i \in Incident : PressAck(p, i) \/ PressFalseAlarm(p, i)
                              \/ Answer(p)
  PROVE  \A i \in Incident : Accounted(i)'
<1> USE DEF ClosureInv
<1>1. UNCHANGED <<row, log, at, todo>>
  BY DEF RequestAck, PressAck, PressFalseAlarm, Answer, tableVars, historyVars, workerVars
<1>2. PICK h \in Human : /\ human[h].at # "log"
                         /\ \A k \in Human : k # h => human'[k] = human[k]
  <2>1. ASSUME NEW h \in Human, NEW i, NEW place, human[h].at = "idle", Serve(h, place, i)
        PROVE  /\ human[h].at # "log"
               /\ \A k \in Human : k # h => human'[k] = human[k]
    BY <2>1 DEF Serve, TypeOK
  <2>2. ASSUME NEW h \in Human, Answer(h)
        PROVE  /\ human[h].at # "log"
               /\ \A k \in Human : k # h => human'[k] = human[k]
    BY <2>2 DEF Answer, HumanGoTo, TypeOK
  <2>3. CASE \E o \in Operator : \E i \in Incident : RequestAck(o, i)
    BY <2>1, <2>3 DEF RequestAck, Human
  <2>4. CASE \E p \in Poller : \E i \in Incident : PressAck(p, i) \/ PressFalseAlarm(p, i)
    BY <2>1, <2>4 DEF PressAck, PressFalseAlarm, Human
  <2>5. CASE \E p \in Poller : Answer(p)
    BY <2>2, <2>5 DEF Human
  <2>6. QED
    BY <2>3, <2>4, <2>5
<1>3. PassDebts /\ HumanDebts
  BY <1>1, <1>2 DEF PassDebts, PassDebt, HumanDebts, HumanDebt
<1>4. QED
  BY <1>1, <1>3, UnchangedLogGrows, OthersAccount

\* The bridge, the receiver, the administrator, and time.
LEMMA RestAccount ==
  ASSUME ClosureInv,
         \/ Bridge \/ Admin \/ Tick \/ UNCHANGED vars
         \/ \E r \in Receiver : Snapshots(r)
  PROVE  \A i \in Incident : Accounted(i)'
<1> USE DEF ClosureInv
<1>1. UNCHANGED <<human, at, todo>>
  BY DEF Bridge, DecideToCreate, CreateIncident, SaveBridgePhoto, SaveWhole, Admin, ClearLadder, AddLevel,
         CutEdit, AssignSite, Tick, vars, Snapshots, MatchSnapshot, Match, SaveSnapshot, SaveWhole, workerVars
<1>2. PassDebts /\ HumanDebts
  BY <1>1 DEF PassDebts, PassDebt, HumanDebts, HumanDebt
<1>3. LogGrows
  BY UnchangedLogGrows, WriteLogGrows
  DEF Bridge, DecideToCreate, CreateIncident, SaveBridgePhoto, SaveWhole, Admin, ClearLadder, AddLevel,
      CutEdit, AssignSite, Tick, vars, Snapshots, MatchSnapshot, Match, SaveSnapshot, SaveWhole, tableVars, historyVars
<1>4. ASSUME NEW i \in Incident
      PROVE  row'[i].status \in {row[i].status, "active"}
  <2>1. row[i] \in Row
    BY DEF TypeOK
  <2>2. CASE CreateIncident \/ SaveBridgePhoto
    <3>1. PICK q : row' = [row EXCEPT ![bridge.inc] = q] /\ q.status = "active"
      <4>1. [NoRow EXCEPT !.status = "active"].status = "active"
        BY DEF NoRow
      <4>2. \A b, f : [[NoRow EXCEPT !.status = "active", !.age = b]
                         EXCEPT !.snap = f].status = "active"
        BY DEF NoRow
      <4>3. CASE CreateIncident
        BY <4>1, <4>3 DEF CreateIncident
      <4>4. CASE SaveBridgePhoto
        BY <4>2, <4>4 DEF SaveBridgePhoto, SaveWhole
      <4>5. QED
        BY <2>2, <4>3, <4>4
    <3>2. QED
      BY <3>1 DEF TypeOK
  <2>3. CASE Tick
    BY <2>1, <2>3 DEF Tick, Aged, Row
  <2>4. ASSUME NEW r \in Receiver, SaveSnapshot(r)
        PROVE  row'[i].status \in {row[i].status, "active"}
    <3>1. receiver[r].row \in Row /\ receiver[r].row.status = "active"
      BY <2>4 DEF SaveSnapshot, SaveWhole, TypeOK, ReceiverActive
    <3>2. QED
      BY <2>4, <3>1 DEF SaveSnapshot, SaveWhole, TypeOK, Row
  <2>5. CASE UNCHANGED row
    BY <2>5
  <2>6. QED
    BY <2>2, <2>3, <2>4, <2>5
    DEF Bridge, DecideToCreate, Admin, ClearLadder, AddLevel, CutEdit, AssignSite, vars,
        Snapshots, MatchSnapshot, Match, tableVars, historyVars
<1>5. QED
  BY <1>2, <1>3, <1>4, OthersAccount

\* The receiver holds an active row, of those the table had.
LEMMA ReceiverActiveStep ==
  ASSUME TypeOK, ReceiverActive, [Next]_vars
  PROVE  ReceiverActive'
<1>1. CASE UNCHANGED receiver
  BY <1>1 DEF ReceiverActive
<1>2. CASE Tick
  <2>1. ASSUME NEW r \in Receiver, receiver'[r].at = "save"
        PROVE  receiver'[r].row.status = "active"
    <3>1. /\ receiver[r] \in [at : {"idle", "save"}, inc : Incident, row : Row]
          /\ receiver'[r] = IF receiver[r].at = "idle" THEN receiver[r]
                            ELSE [receiver[r] EXCEPT !.row = Aged(@)]
      BY <1>2 DEF Tick, TypeOK
    <3>2. receiver[r].at = "save" /\ receiver[r].row.status = "active"
      BY <2>1, <3>1 DEF ReceiverActive
    <3>3. QED
      BY <3>1, <3>2 DEF Aged, Row
  <2>2. QED
    BY <2>1 DEF ReceiverActive
<1>3. ASSUME NEW r \in Receiver, MatchSnapshot(r)
      PROVE  ReceiverActive'
  <2>1. Newest(Active) \in Active
    BY <1>3, NewestIsMember DEF MatchSnapshot, Match, Active
  <2>2. receiver' = [receiver EXCEPT ![r] =
          [at |-> "save", inc |-> Newest(Active), row |-> row[Newest(Active)]]]
    BY <1>3 DEF MatchSnapshot, Match
  <2>3. row[Newest(Active)].status = "active"
    BY <2>1 DEF Active
  <2>4. QED
    BY <2>2, <2>3 DEF ReceiverActive, TypeOK
<1>4. ASSUME NEW r \in Receiver, SaveSnapshot(r)
      PROVE  ReceiverActive'
  BY <1>4 DEF SaveSnapshot, SaveWhole, ReceiverActive, TypeOK
<1>5. QED
  BY <1>1, <1>2, <1>3, <1>4
  DEF Next, vars, Bridge, DecideToCreate, CreateIncident, SaveBridgePhoto, SaveWhole, Admin, ClearLadder,
      AddLevel, CutEdit, AssignSite, Pass, StartPass, DecideToExpire, ExpireIncident, LogExpired,
      DecideToEscalate, SaveLevel, NotifyIfNeeded, SendNotices, LogNotified, StartAutoResolve,
      ResolveOverdue, LogResolved, Fault, SkipIncident, Scanning, LeftHalfway, AbandonPass, Rest, RequestAck, SaveAck,
      LogAck, Telegram, PressAck, PressFalseAlarm, SaveFalseAlarm, LogFalseAlarm, Answer, Snapshots

\* Every step keeps every closure accounted for.
LEMMA ClosureStep ==
  ASSUME MaxFaults = 0, ClosureInv, [Next]_vars
  PROVE  ClosureInv'
<1>1. TypeOK' /\ ReceiverActive'
  BY TypeStep, ReceiverActiveStep DEF ClosureInv
<1>2. ~ \E w \in Worker : Fault(w)
  <2>1. ~(faults < MaxFaults)
    BY DEF ClosureInv, TypeOK
  <2>2. QED
    BY <2>1 DEF Fault, SkipIncident, Scanning, LeftHalfway, AbandonPass, LeftHalfway
<1>3. ASSUME NEW w \in Worker, Pass(w)
      PROVE  \A i \in Incident : Accounted(i)'
  BY <1>3, PassCloses, PassLogs, PassOtherwise
<1>4. ASSUME NEW o \in Operator, Rest(o)
      PROVE  \A i \in Incident : Accounted(i)'
  BY <1>4, HumanCloses, HumanLogs, HumanOtherwise DEF Rest, Human
<1>5. ASSUME NEW p \in Poller, Telegram(p)
      PROVE  \A i \in Incident : Accounted(i)'
  BY <1>5, HumanCloses, HumanLogs, HumanOtherwise DEF Telegram, Human
<1>6. \A i \in Incident : Accounted(i)'
  BY <1>2, <1>3, <1>4, <1>5, RestAccount DEF Next
<1>7. QED
  BY <1>1, <1>6 DEF ClosureInv

\* As long as nothing fails between a save and its entry, and however passes,
\* requests, the poller and the receiver interleave, the log says how every
\* incident was closed, or the process that closed it is about to.
THEOREM ClosuresExplained ==
  ASSUME MaxFaults = 0
  PROVE  Spec => []ClosureExplained
<1>1. Init => ClosureInv
  <2>1. Init => TypeOK
    BY TypeInit
  <2>2. Init => ReceiverActive /\ \A i \in Incident : Accounted(i)
    BY DEF Init, ReceiverActive, Accounted, NoRow
  <2>3. QED
    BY <2>1, <2>2 DEF ClosureInv
<1>2. ClosureInv => ClosureExplained
  BY DEF ClosureInv, Accounted, PassOwes, HumanOwes, ClosureExplained
<1>3. ClosureInv /\ [Next]_vars => ClosureInv'
  BY ClosureStep
<1>4. QED
  BY <1>1, <1>2, <1>3, PTL DEF Spec

-----------------------------------------------------------------------------
(* The frames: only the saves of whole rows store one, the bridge stores   *)
(* one and then never again for the same incident, and the receiver stores *)
(* one where it has read that there was none.                              *)

\* Whoever is about to save a row has found it; the bridge has found none.
Found ==
  /\ bridge.at = "create" => row[bridge.inc].status = "none"
  /\ bridge.at = "photo" => row[bridge.inc].status # "none"
  /\ \A w \in Worker : \A i \in todo[w] : row[i].status # "none"
  /\ \A h \in Human : human[h].at = "save" => row[human[h].inc].status # "none"
  /\ \A r \in Receiver : receiver[r].at = "save" =>
       row[receiver[r].inc].status # "none" /\ receiver[r].row.status # "none"

FromBridge(i) == bridge.at \in {"create", "photo"} /\ bridge.inc = i
FromReceiver(i) == \E r \in Receiver : receiver[r].at = "save" /\ receiver[r].inc = i

\* The row names the last frame, and there is at most one for each saver.
Framed(i) ==
  /\ row[i].snap = frames[i] /\ frames[i] <= 2
  /\ row[i].status = "none" => frames[i] = 0
  /\ frames[i] = 2 => ~FromBridge(i) /\ ~FromReceiver(i)
  /\ frames[i] = 1 => ~FromBridge(i) \/ ~FromReceiver(i)

FrameInv == TypeOK /\ Found /\ \A i \in Incident : Framed(i)

\* No row appears or disappears, and no frame is stored.
Ordinary ==
  /\ UNCHANGED frames
  /\ \A i \in Incident : /\ row'[i].status = "none" <=> row[i].status = "none"
                         /\ row'[i].snap = row[i].snap

\* The columns of one row are saved, by whoever found it.
LEMMA SaveOrdinary ==
  ASSUME TypeOK, NEW i \in Incident, NEW q \in Row, row' = [row EXCEPT ![i] = q],
         row[i].status # "none", q.status # "none", q.snap = row[i].snap, UNCHANGED frames
  PROVE  Ordinary
BY DEF TypeOK, Ordinary

\* A pass writes the columns of a row it has found.
LEMMA PassOrdinary ==
  ASSUME FrameInv, NEW w \in Worker, Pass(w) \/ Fault(w)
  PROVE  Ordinary
<1> USE DEF FrameInv
<1>1. CASE UNCHANGED <<row, frames>>
  BY <1>1 DEF Ordinary
<1>2. ASSUME ExpireIncident(w) \/ ResolveOverdue(w) \/ SaveLevel(w)
      PROVE  Ordinary
  <2>0. PICK c : c = Current(w)
    OBVIOUS
  <2>1. c \in Incident /\ c \in todo[w] /\ Held(w) \in Instance
    BY <1>2, <2>0, HeldType DEF ExpireIncident, ResolveOverdue, SaveLevel, Ready
  <2>2. row[c].status # "none" /\ row[c] \in Row
    BY <2>1 DEF Found, TypeOK
  <2>3. PICK q \in {[row[c] EXCEPT !.status = "expired", !.stamped = TRUE],
                    [row[c] EXCEPT !.status = "resolved", !.stamped = TRUE],
                    [row[c] EXCEPT !.level = Held(w).level, !.age = Held(w).age]} :
          row' = [row EXCEPT ![c] = q]
    BY <1>2, <2>0 DEF ExpireIncident, ResolveOverdue, SaveLevel
  <2> UNCHANGED frames
    BY <1>2 DEF ExpireIncident, ResolveOverdue, SaveLevel, historyVars
  <2>4. q \in Row /\ q.status # "none" /\ q.snap = row[c].snap
    BY <2>1, <2>2, <2>3 DEF Row, Status, Instance
  <2>5. QED
    BY <2>1, <2>2, <2>3, <2>4, SaveOrdinary
<1>3. QED
  BY <1>1, <1>2
  DEF Pass, StartPass, DecideToExpire, LogExpired, DecideToEscalate, NotifyIfNeeded, SendNotices,
      LogNotified, StartAutoResolve, LogResolved, Fault, SkipIncident, AbandonPass, tableVars, historyVars

\* So does whoever closes an incident.
LEMMA HumanOrdinary ==
  ASSUME FrameInv, NEW h \in Human, SaveAck(h) \/ SaveFalseAlarm(h)
  PROVE  Ordinary
<1> USE DEF FrameInv
<1>0. PICK c : c = human[h].inc
  OBVIOUS
<1>1. c \in Incident /\ row[c].status # "none" /\ row[c] \in Row
  BY <1>0 DEF SaveAck, SaveFalseAlarm, Found, TypeOK
<1>2. PICK status \in {"acknowledged", "resolved"} :
        row' = [row EXCEPT ![c] = [@ EXCEPT !.status = status, !.by = h, !.stamped = TRUE]]
  BY <1>0 DEF SaveAck, SaveFalseAlarm, SaveClosure
<1>3. PICK q : q = [row[c] EXCEPT !.status = status, !.by = h, !.stamped = TRUE]
  OBVIOUS
<1>4. q \in Row /\ q.status # "none" /\ q.snap = row[c].snap
  BY <1>1, <1>3 DEF Row, Status
<1>5. row' = [row EXCEPT ![c] = q] /\ UNCHANGED frames
  BY <1>2, <1>3 DEF SaveAck, SaveFalseAlarm, historyVars
<1>6. QED
  BY <1>1, <1>4, <1>5, SaveOrdinary

\* Time touches neither.
LEMMA TickOrdinary ==
  ASSUME FrameInv, Tick
  PROVE  Ordinary
<1>1. ASSUME NEW i \in Incident
      PROVE  row'[i].status = row[i].status /\ row'[i].snap = row[i].snap
  <2>1. row[i] \in Row /\ (row'[i] = row[i] \/ row'[i] = Aged(row[i]))
    BY DEF Tick, FrameInv, TypeOK
  <2>2. QED
    BY <2>1 DEF Aged, Row
<1>2. QED
  BY <1>1 DEF Ordinary, Tick, historyVars

\* The save of a whole row is the save of a row that exists, with its next frame.
Stores(c) ==
  /\ c \in Incident /\ row[c].status # "none" /\ row'[c].status # "none"
  /\ frames' = [frames EXCEPT ![c] = @ + 1] /\ row'[c].snap = frames[c] + 1
  /\ \A i \in Incident \ {c} : row'[i] = row[i]

LEMMA WholeStores ==
  ASSUME TypeOK, NEW c \in Incident, NEW q \in Row, SaveWhole(c, q),
         row[c].status # "none", q.status # "none"
  PROVE  Stores(c)
<1>1. PICK f : f = frames[c] + 1
  OBVIOUS
<1>2. [q EXCEPT !.snap = f].status # "none" /\ [q EXCEPT !.snap = f].snap = f
  BY DEF Row
<1>3. row' = [row EXCEPT ![c] = [q EXCEPT !.snap = f]] /\ row \in [Incident -> Row]
  BY <1>1 DEF SaveWhole, TypeOK
<1>4. row'[c] = [q EXCEPT !.snap = f] /\ \A i \in Incident \ {c} : row'[i] = row[i]
  BY <1>3
<1>5. QED
  BY <1>1, <1>2, <1>4 DEF SaveWhole, Stores

LEMMA BridgeStores ==
  ASSUME FrameInv, SaveBridgePhoto
  PROVE  Stores(bridge.inc)
<1>0. PICK c, b : c = bridge.inc /\ b = born[c]
  OBVIOUS
<1>1. c \in Incident /\ b \in Age /\ row[c].status # "none"
  BY <1>0 DEF SaveBridgePhoto, FrameInv, Found, TypeOK
<1>2. PICK q : q = [NoRow EXCEPT !.status = "active", !.age = b]
  OBVIOUS
<1>3. q \in Row /\ q.status # "none"
  BY <1>1, <1>2, BlankType DEF Row, Status, NoRow
<1>4. SaveWhole(c, q)
  BY <1>0, <1>2 DEF SaveBridgePhoto
<1>5. QED
  BY <1>0, <1>1, <1>3, <1>4, WholeStores DEF FrameInv

LEMMA ReceiverStores ==
  ASSUME FrameInv, NEW r \in Receiver, SaveSnapshot(r)
  PROVE  Stores(receiver[r].inc)
<1>1. receiver[r].inc \in Incident /\ receiver[r].row \in Row
      /\ row[receiver[r].inc].status # "none" /\ receiver[r].row.status # "none"
  BY DEF SaveSnapshot, FrameInv, Found, TypeOK
<1>2. SaveWhole(receiver[r].inc, receiver[r].row)
  BY DEF SaveSnapshot
<1>3. QED
  BY <1>1, <1>2, WholeStores DEF FrameInv

\* Every step but the creation and the saves of whole rows is ordinary.
LEMMA StepOrdinary ==
  ASSUME FrameInv, [Next]_vars
  PROVE  \/ Ordinary \/ CreateIncident
         \/ SaveBridgePhoto \/ \E r \in Receiver : SaveSnapshot(r)
<1>1. CASE UNCHANGED <<row, frames>>
  BY <1>1 DEF Ordinary
<1>2. ASSUME NEW w \in Worker, Pass(w) \/ Fault(w)
      PROVE  Ordinary
  BY <1>2, PassOrdinary
<1>3. ASSUME NEW h \in Human, SaveAck(h) \/ SaveFalseAlarm(h)
      PROVE  Ordinary
  BY <1>3, HumanOrdinary
<1>4. QED
  BY <1>1, <1>2, <1>3, TickOrdinary
  DEF Next, vars, Bridge, DecideToCreate, Admin, ClearLadder, AddLevel, CutEdit, AssignSite,
      Rest, RequestAck, LogAck, Telegram, PressAck, PressFalseAlarm, LogFalseAlarm, Answer,
      Snapshots, MatchSnapshot, tableVars, historyVars, Human

\* The creation makes a row without a frame where there was none.
LEMMA Creation ==
  ASSUME TypeOK, CreateIncident
  PROVE  /\ bridge.inc \in Incident /\ bridge'.inc = bridge.inc /\ UNCHANGED frames
         /\ bridge'.at \in {"photo", "idle"}
         /\ row'[bridge.inc].status = "active" /\ row'[bridge.inc].snap = 0
         /\ row'[bridge.inc].level = 1
         /\ \A i \in Incident \ {bridge.inc} : row'[i] = row[i]
<1>0. PICK c, q : c = bridge.inc /\ q = [NoRow EXCEPT !.status = "active"]
  OBVIOUS
<1>1. c \in Incident /\ bridge'.inc = c /\ UNCHANGED frames /\ bridge'.at \in {"photo", "idle"}
  BY <1>0 DEF CreateIncident, TypeOK, historyVars
<1>2. q.status = "active" /\ q.snap = 0 /\ q.level = 1
      /\ row' = [row EXCEPT ![c] = q] /\ row \in [Incident -> Row]
  BY <1>0 DEF CreateIncident, TypeOK, NoRow
<1>3. QED
  BY <1>0, <1>1, <1>2

\* The lists of a pass hold rows it has found.
LEMMA ListsFound ==
  ASSUME FrameInv, [Next]_vars, NEW w \in Worker, NEW i \in todo'[w]
  PROVE  row[i].status # "none"
<1>1. i \in todo[w] \/ i \in Active
  <2>1. CASE todo'[w] \subseteq todo[w]
    BY <2>1
  <2>2. ASSUME NEW v \in Worker, Pass(v) \/ Fault(v)
        PROVE  i \in todo[w] \/ i \in Active
    <3>1. CASE StartPass(v) \/ StartAutoResolve(v)
      <4>1. PICK T : todo' = [todo EXCEPT ![v] = T] /\ T \subseteq Active
        BY <3>1 DEF StartPass, StartAutoResolve, Overdue
      <4>2. QED
        BY <4>1 DEF FrameInv, TypeOK
    <3>2. CASE ~(StartPass(v) \/ StartAutoResolve(v))
      <4>1. todo' = todo \/ todo' = [todo EXCEPT ![v] = @ \ {Current(v)}]
            \/ todo' = [todo EXCEPT ![v] = {}]
        BY <2>2, <3>2
        DEF Pass, DecideToExpire, ExpireIncident, LogExpired, DecideToEscalate, SaveLevel,
            NotifyIfNeeded, SendNotices, LogNotified, ResolveOverdue, LogResolved, Fault,
            SkipIncident, AbandonPass, NextItem
      <4>2. PICK c : c = Current(v)
        OBVIOUS
      <4>3. todo \in [Worker -> SUBSET Incident]
        BY DEF FrameInv, TypeOK
      <4>4. CASE v = w
        BY <4>1, <4>2, <4>3, <4>4
      <4>5. CASE v # w
        BY <4>1, <4>3, <4>5
      <4>6. QED
        BY <4>4, <4>5
    <3>3. QED
      BY <3>1, <3>2
  <2>3. QED
    BY <2>1, <2>2
    DEF Next, vars, Bridge, DecideToCreate, CreateIncident, SaveBridgePhoto, SaveWhole, Admin, ClearLadder,
        AddLevel, CutEdit, AssignSite, Tick, Rest, RequestAck, SaveAck, LogAck, Telegram, PressAck,
        PressFalseAlarm, SaveFalseAlarm, LogFalseAlarm, Answer, Snapshots, MatchSnapshot, Match,
        SaveSnapshot, SaveWhole, workerVars
<1>2. QED
  BY <1>1 DEF FrameInv, Found, Active

\* A request that is about to save was served on an active row.
LEMMA HumansFound ==
  ASSUME FrameInv, [Next]_vars, NEW h \in Human, human'[h].at = "save"
  PROVE  human'[h].inc \in Incident /\ row[human'[h].inc].status # "none"
<1> USE DEF FrameInv
<1>1. CASE human'[h] = human[h]
  BY <1>1 DEF Found, TypeOK
<1>2. ASSUME NEW k \in Human, NEW i \in Incident,
             RequestAck(k, i) \/ PressAck(k, i) \/ PressFalseAlarm(k, i)
      PROVE  human'[h].inc \in Incident /\ row[human'[h].inc].status # "none"
  BY <1>1, <1>2 DEF RequestAck, PressAck, PressFalseAlarm, Serve, Active, TypeOK
<1>3. ASSUME NEW k \in Human,
             SaveAck(k) \/ LogAck(k) \/ SaveFalseAlarm(k) \/ LogFalseAlarm(k) \/ Answer(k)
      PROVE  human'[h].inc \in Incident /\ row[human'[h].inc].status # "none"
  <2>1. PICK place \in {"log", "idle", "accept"} : HumanGoTo(k, place)
    BY <1>3 DEF SaveAck, LogAck, SaveFalseAlarm, LogFalseAlarm, Answer
  <2>2. k # h
    BY <2>1 DEF HumanGoTo, TypeOK
  <2>3. human'[h] = human[h]
    BY <2>1, <2>2 DEF HumanGoTo, TypeOK
  <2>4. QED
    BY <2>3, <1>1
<1>4. CASE UNCHANGED human
  BY <1>1, <1>4
<1>5. ASSUME NEW w \in Worker, Pass(w) \/ Fault(w)
      PROVE  UNCHANGED human
  BY <1>5
  DEF Pass, StartPass, DecideToExpire, ExpireIncident, LogExpired, DecideToEscalate, SaveLevel,
      NotifyIfNeeded, SendNotices, LogNotified, StartAutoResolve, ResolveOverdue, LogResolved,
      Fault, SkipIncident, AbandonPass
<1>6. QED
  BY <1>2, <1>3, <1>4, <1>5
  DEF Next, vars, Bridge, DecideToCreate, CreateIncident, SaveBridgePhoto, SaveWhole, Admin, ClearLadder,
      AddLevel, CutEdit, AssignSite, Tick, Rest, Telegram, Snapshots, MatchSnapshot, Match,
      SaveSnapshot, SaveWhole, Human

\* A receiver that is about to save has read a row that exists.
LEMMA ReceiversFound ==
  ASSUME FrameInv, [Next]_vars, NEW r \in Receiver, receiver'[r].at = "save"
  PROVE  /\ receiver'[r].inc \in Incident /\ row[receiver'[r].inc].status # "none"
         /\ receiver'[r].row.status # "none"
<1> DEFINE Goal == /\ receiver'[r].inc \in Incident /\ row[receiver'[r].inc].status # "none"
                   /\ receiver'[r].row.status # "none"
<1> USE DEF FrameInv
<1>1. CASE receiver'[r] = receiver[r]
  BY <1>1 DEF Found, TypeOK
<1>2. ASSUME NEW s \in Receiver, MatchSnapshot(s)
      PROVE  Goal
  <2>1. Newest(Active) \in Active
    BY <1>2, NewestIsMember DEF MatchSnapshot, Match, Active
  <2>2. PICK n : n = Newest(Active)
    OBVIOUS
  <2>3. n \in Incident /\ row[n].status = "active"
    BY <2>1, <2>2 DEF Active
  <2>4. receiver' = [receiver EXCEPT ![s] = [at |-> "save", inc |-> n, row |-> row[n]]]
    BY <1>2, <2>2 DEF MatchSnapshot, Match
  <2>5. QED
    BY <1>1, <2>3, <2>4 DEF TypeOK
<1>3. ASSUME NEW s \in Receiver, SaveSnapshot(s)
      PROVE  Goal
  BY <1>1, <1>3 DEF SaveSnapshot, SaveWhole, TypeOK
<1>4. CASE Tick
  <2>1. receiver[r] \in [at : {"idle", "save"}, inc : Incident, row : Row]
    BY DEF TypeOK
  <2>2. receiver'[r] = [receiver[r] EXCEPT !.row = Aged(@)]
    BY <1>4, <2>1 DEF Tick
  <2>3. receiver'[r].inc = receiver[r].inc /\ receiver[r].at = "save"
        /\ receiver'[r].row.status = receiver[r].row.status
    BY <2>1, <2>2 DEF Aged, Row
  <2>4. QED
    BY <2>1, <2>3 DEF Found
<1>5. ASSUME NEW w \in Worker, Pass(w) \/ Fault(w)
      PROVE  UNCHANGED receiver
  BY <1>5
  DEF Pass, StartPass, DecideToExpire, ExpireIncident, LogExpired, DecideToEscalate, SaveLevel,
      NotifyIfNeeded, SendNotices, LogNotified, StartAutoResolve, ResolveOverdue, LogResolved,
      Fault, SkipIncident, AbandonPass
<1>6. CASE UNCHANGED receiver
  BY <1>1, <1>6
<1>7. QED
  BY <1>2, <1>3, <1>4, <1>5, <1>6
  DEF Next, vars, Bridge, DecideToCreate, CreateIncident, SaveBridgePhoto, SaveWhole, Admin, ClearLadder,
      AddLevel, CutEdit, AssignSite, Rest, RequestAck, SaveAck, LogAck, Telegram, PressAck,
      PressFalseAlarm, SaveFalseAlarm, LogFalseAlarm, Answer, Snapshots

\* A row once created stays.
LEMMA RowsStay ==
  ASSUME FrameInv, [Next]_vars
  PROVE  \A i \in Incident : row[i].status # "none" => row'[i].status # "none"
<1>1. CASE Ordinary
  BY <1>1 DEF Ordinary
<1>2. CASE CreateIncident
  BY <1>2, Creation DEF FrameInv
<1>3. ASSUME NEW c, Stores(c)
      PROVE  \A i \in Incident : row[i].status # "none" => row'[i].status # "none"
  BY <1>3 DEF Stores
<1>4. QED
  BY <1>1, <1>2, <1>3, StepOrdinary, BridgeStores, ReceiverStores

\* A row appears only when it is created.
LEMMA Bridged ==
  ASSUME FrameInv, [Next]_vars, ~CreateIncident
  PROVE  /\ bridge.at = "create" => row'[bridge.inc].status = "none"
         /\ bridge.at = "photo" => row'[bridge.inc].status # "none"
<1>1. bridge.inc \in Incident
  BY DEF FrameInv, TypeOK
<1>2. CASE Ordinary
  BY <1>1, <1>2 DEF Ordinary, FrameInv, Found
<1>3. ASSUME NEW c, Stores(c)
      PROVE  /\ bridge.at = "create" => row'[bridge.inc].status = "none"
             /\ bridge.at = "photo" => row'[bridge.inc].status # "none"
  BY <1>1, <1>3 DEF Stores, FrameInv, Found
<1>4. QED
  BY <1>2, <1>3, StepOrdinary, BridgeStores, ReceiverStores

\* The bridge knows whether its row exists.
LEMMA BridgeFound ==
  ASSUME FrameInv, [Next]_vars
  PROVE  /\ bridge'.at = "create" => row'[bridge'.inc].status = "none"
         /\ bridge'.at = "photo" => row'[bridge'.inc].status # "none"
<1> USE DEF FrameInv
<1>1. CASE Ordinary /\ bridge' = bridge
  BY <1>1 DEF Ordinary, Found, TypeOK
<1>2. CASE DecideToCreate
  <2>1. UNCHANGED row /\ bridge'.at = "create" /\ row[bridge'.inc].status = "none"
    BY <1>2 DEF DecideToCreate, tableVars, historyVars
  <2>2. QED
    BY <2>1
<1>3. CASE CreateIncident
  BY <1>3, Creation
<1>4. CASE SaveBridgePhoto
  BY <1>4 DEF SaveBridgePhoto, SaveWhole, TypeOK
<1>5. ASSUME NEW w \in Worker, Pass(w) \/ Fault(w)
      PROVE  UNCHANGED bridge
  BY <1>5
  DEF Pass, StartPass, DecideToExpire, ExpireIncident, LogExpired, DecideToEscalate, SaveLevel,
      NotifyIfNeeded, SendNotices, LogNotified, StartAutoResolve, ResolveOverdue, LogResolved,
      Fault, SkipIncident, AbandonPass
<1>6. CASE UNCHANGED bridge /\ ~CreateIncident
  BY <1>6, RowsStay, StepOrdinary, Bridged
<1>7. QED
  BY <1>2, <1>3, <1>4, <1>5, <1>6
  DEF Next, vars, Bridge, Admin, ClearLadder, AddLevel, CutEdit, AssignSite, Tick, Rest,
      RequestAck, SaveAck, LogAck, Telegram, PressAck, PressFalseAlarm, SaveFalseAlarm,
      LogFalseAlarm, Answer, Snapshots, MatchSnapshot, Match, SaveSnapshot, SaveWhole

\* The receiver goes on with the row it reads, or matches one without a frame.
LEMMA ReceiverPlaces ==
  ASSUME FrameInv, [Next]_vars, NEW i \in Incident,
         \E r \in Receiver : receiver'[r].at = "save" /\ receiver'[r].inc = i
  PROVE  FromReceiver(i) \/ (row[i].snap = 0 /\ UNCHANGED <<row, frames>>)
<1>1. PICK r \in Receiver : receiver'[r].at = "save" /\ receiver'[r].inc = i
  OBVIOUS
<1>2. CASE receiver'[r].at = receiver[r].at /\ receiver'[r].inc = receiver[r].inc
  BY <1>1, <1>2 DEF FromReceiver
<1>3. ASSUME NEW s \in Receiver, MatchSnapshot(s)
      PROVE  FromReceiver(i) \/ (row[i].snap = 0 /\ UNCHANGED <<row, frames>>)
  <2>1. PICK n : n = Newest(Active)
    OBVIOUS
  <2>2. receiver' = [receiver EXCEPT ![s] = [at |-> "save", inc |-> n, row |-> row[n]]]
        /\ row[n].snap = 0 /\ UNCHANGED <<row, frames>>
    BY <1>3, <2>1 DEF MatchSnapshot, Match, tableVars, historyVars
  <2>3. CASE r = s
    BY <1>1, <2>2, <2>3 DEF FrameInv, TypeOK
  <2>4. CASE r # s
    BY <1>1, <2>2, <2>4 DEF FrameInv, TypeOK, FromReceiver
  <2>5. QED
    BY <2>3, <2>4
<1>4. ASSUME NEW s \in Receiver, SaveSnapshot(s)
      PROVE  receiver'[r] = receiver[r]
  BY <1>1, <1>4 DEF SaveSnapshot, FrameInv, TypeOK
<1>5. CASE Tick
  <2>1. receiver[r] \in [at : {"idle", "save"}, inc : Incident, row : Row]
    BY DEF FrameInv, TypeOK
  <2>2. receiver'[r] = receiver[r] \/ receiver'[r] = [receiver[r] EXCEPT !.row = Aged(@)]
    BY <1>5 DEF Tick
  <2>3. QED
    BY <1>2, <2>1, <2>2
<1>6. ASSUME NEW w \in Worker, Pass(w) \/ Fault(w)
      PROVE  UNCHANGED receiver
  BY <1>6
  DEF Pass, StartPass, DecideToExpire, ExpireIncident, LogExpired, DecideToEscalate, SaveLevel,
      NotifyIfNeeded, SendNotices, LogNotified, StartAutoResolve, ResolveOverdue, LogResolved,
      Fault, SkipIncident, AbandonPass
<1>7. CASE UNCHANGED receiver
  BY <1>2, <1>7
<1>8. QED
  BY <1>2, <1>3, <1>4, <1>5, <1>6, <1>7
  DEF Next, vars, Bridge, DecideToCreate, CreateIncident, SaveBridgePhoto, Admin, ClearLadder,
      AddLevel, CutEdit, AssignSite, Rest, RequestAck, SaveAck, LogAck, Telegram, PressAck,
      PressFalseAlarm, SaveFalseAlarm, LogFalseAlarm, Answer, Snapshots

\* The bridge goes on with its incident, or decides to create one without a row.
LEMMA BridgePlaces ==
  ASSUME FrameInv, [Next]_vars, NEW i \in Incident,
         bridge'.at \in {"create", "photo"}, bridge'.inc = i
  PROVE  FromBridge(i) \/ (row[i].status = "none" /\ UNCHANGED <<row, frames>>)
<1>1. CASE UNCHANGED bridge
  BY <1>1 DEF FromBridge
<1>2. CASE DecideToCreate
  BY <1>2 DEF DecideToCreate, FromBridge, tableVars, historyVars
<1>3. CASE CreateIncident
  BY <1>3 DEF CreateIncident, FromBridge, FrameInv, TypeOK
<1>4. CASE SaveBridgePhoto
  BY <1>4 DEF SaveBridgePhoto, FromBridge, FrameInv, TypeOK
<1>5. ASSUME NEW w \in Worker, Pass(w) \/ Fault(w)
      PROVE  UNCHANGED bridge
  BY <1>5
  DEF Pass, StartPass, DecideToExpire, ExpireIncident, LogExpired, DecideToEscalate, SaveLevel,
      NotifyIfNeeded, SendNotices, LogNotified, StartAutoResolve, ResolveOverdue, LogResolved,
      Fault, SkipIncident, AbandonPass
<1>6. QED
  BY <1>1, <1>2, <1>3, <1>4, <1>5
  DEF Next, vars, Bridge, Admin, ClearLadder, AddLevel, CutEdit, AssignSite, Tick, Rest,
      RequestAck, SaveAck, LogAck, Telegram, PressAck, PressFalseAlarm, SaveFalseAlarm,
      LogFalseAlarm, Answer, Snapshots, MatchSnapshot, SaveSnapshot

\* What the savers still have to store is counted.
LEMMA FramedStep ==
  ASSUME FrameInv, [Next]_vars, NEW i \in Incident
  PROVE  Framed(i)'
<1>0. Framed(i) /\ frames[i] \in Nat /\ frames \in [Incident -> Nat]
  BY DEF FrameInv, TypeOK
<1>1. /\ FromReceiver(i)' => FromReceiver(i) \/ (row[i].snap = 0 /\ UNCHANGED <<row, frames>>)
      /\ FromBridge(i)' => FromBridge(i) \/ (row[i].status = "none" /\ UNCHANGED <<row, frames>>)
  BY ReceiverPlaces, BridgePlaces DEF FromReceiver, FromBridge
<1>2. CASE Ordinary
  <2>1. frames'[i] = frames[i] /\ row'[i].snap = row[i].snap
        /\ (row'[i].status = "none" <=> row[i].status = "none")
    BY <1>2 DEF Ordinary
  <2>2. QED
    BY <1>0, <1>1, <2>1 DEF Framed
<1>3. CASE CreateIncident
  <2>1. frames'[i] = frames[i] /\ (i # bridge.inc => row'[i] = row[i])
        /\ (i = bridge.inc => row'[i].snap = 0 /\ row'[i].status = "active"
                              /\ row[i].status = "none")
    BY <1>3, Creation DEF FrameInv, Found, CreateIncident
  <2>2. QED
    BY <1>0, <1>1, <2>1 DEF Framed
<1>4. ASSUME NEW c, Stores(c),
             c = i => (FromBridge(i) /\ ~FromBridge(i)') \/ (FromReceiver(i) /\ ~FromReceiver(i)')
      PROVE  Framed(i)'
  <2>1. CASE c = i
    <3>1. frames'[i] = frames[i] + 1 /\ row'[i].snap = frames[i] + 1 /\ row'[i].status # "none"
          /\ ~UNCHANGED frames
      BY <1>0, <1>4, <2>1 DEF Stores
    <3>2. frames[i] \in {0, 1}
      BY <1>0, <1>4, <2>1 DEF Framed
    <3>3. frames[i] = 1 => ~FromBridge(i)' /\ ~FromReceiver(i)'
      BY <1>0, <1>1, <1>4, <2>1, <3>1 DEF Framed
    <3>4. frames[i] = 0 => ~FromBridge(i)' \/ ~FromReceiver(i)'
      BY <1>4, <2>1
    <3>5. QED
      BY <3>1, <3>2, <3>3, <3>4 DEF Framed
  <2>2. CASE c # i
    <3>1. frames'[i] = frames[i] /\ row'[i] = row[i]
      BY <1>0, <1>4, <2>2 DEF Stores
    <3>2. QED
      BY <1>0, <1>1, <3>1 DEF Framed
  <2>3. QED
    BY <2>1, <2>2
<1>5. CASE SaveBridgePhoto
  <2>1. bridge.inc = i => FromBridge(i) /\ ~FromBridge(i)'
    BY <1>5 DEF SaveBridgePhoto, FromBridge, FrameInv, TypeOK
  <2>2. QED
    BY <1>4, <1>5, <2>1, BridgeStores
<1>6. ASSUME NEW r \in Receiver, SaveSnapshot(r)
      PROVE  Framed(i)'
  <2>1. receiver'[r].at = "idle" /\ \A s \in Receiver : s = r
    BY <1>6, ProcessAssumption DEF SaveSnapshot, FrameInv, TypeOK
  <2>2. receiver[r].inc = i => FromReceiver(i) /\ ~FromReceiver(i)'
    BY <1>6, <2>1 DEF SaveSnapshot, FromReceiver
  <2>3. QED
    BY <1>4, <1>6, <2>2, ReceiverStores
<1>7. QED
  BY <1>2, <1>3, <1>5, <1>6, StepOrdinary

\* The invariant is inductive.
LEMMA FrameInvStep == FrameInv /\ [Next]_vars => FrameInv'
<1> SUFFICES ASSUME FrameInv, [Next]_vars
             PROVE  FrameInv'
  OBVIOUS
<1>1. TypeOK'
  BY TypeStep DEF FrameInv
<1>2. \A i \in Incident : Framed(i)'
  BY FramedStep
<1>3. \A w \in Worker : \A i \in todo'[w] : row'[i].status # "none"
  BY <1>1, ListsFound, RowsStay DEF TypeOK
<1>4. \A h \in Human : human'[h].at = "save" => row'[human'[h].inc].status # "none"
  BY HumansFound, RowsStay
<1>5. \A r \in Receiver : receiver'[r].at = "save" =>
        row'[receiver'[r].inc].status # "none" /\ receiver'[r].row.status # "none"
  BY ReceiversFound, RowsStay
<1>6. Found'
  BY <1>3, <1>4, <1>5, BridgeFound DEF Found
<1>7. QED
  BY <1>1, <1>2, <1>6 DEF FrameInv

\* At the start there is no row and no list.
LEMMA FrameInvInit == Init => FrameInv
<1> SUFFICES ASSUME Init
             PROVE  FrameInv
  OBVIOUS
<1>1. TypeOK
  BY TypeInit
<1>2. Found /\ \A i \in Incident : Framed(i)
  BY DEF Init, Found, Framed, FromBridge, FromReceiver, NoRow
<1>3. QED
  BY <1>1, <1>2 DEF FrameInv

\* The row of an incident names the last frame stored for it, and no stored
\* frame is replaced but by one frame of the other saver: for any number of
\* passes and operators, with faults, and whatever whole rows the bridge and
\* the receiver save from instances they read earlier.
THEOREM SnapshotsKept == Spec => []SnapshotKept
<1>1. FrameInv => SnapshotKept
  BY DEF FrameInv, Framed, SnapshotKept
<1>2. QED
  BY <1>1, FrameInvInit, FrameInvStep, PTL DEF Spec

-----------------------------------------------------------------------------
(* The lifecycle of the incidents that nothing has disturbed, one incident *)
(* at a time: where the passes are with it, and what each step may do.     *)

\* Where a pass is with an incident of its list, and the level it holds.
Place(w, i) ==
  IF ~Scanning(w) \/ i \notin todo[w] THEN "away"
  ELSE IF at[w] = "scan" \/ Current(w) # i THEN "queued" ELSE at[w]
Lvl(w, i) == copy[w][i].level

Escalated(i, l) == [action |-> "escalated", level |-> l] \in log[i]

\* No two passes hold the incident.
Alone(i) ==
  \A v, w \in Worker : Place(v, i) # "away" /\ Place(w, i) # "away" => v = w

\* The pass holds the level of the row, and a higher one while it raises it.
InStep(i) ==
  \A w \in Worker : Place(w, i) # "away" =>
    IF Place(w, i) = "raise" THEN Lvl(w, i) > row[i].level ELSE Lvl(w, i) = row[i].level

\* The receiver's instance is not ahead of the row.
Behind(i) ==
  \A r \in Receiver : receiver[r].at = "save" /\ receiver[r].inc = i =>
    receiver[r].row.level <= row[i].level

\* A level that was notified is one the incident has reached, and is logged or
\* about to be; one about to be notified was not.
Sent(i) ==
  /\ \A l \in Level :
       /\ notices[i][l] <= 1
       /\ notices[i][l] > 0 =>
            /\ l <= row[i].level
            /\ AlreadyNotified(i, l)
               \/ \E w \in Worker : Place(w, i) = "logNotified" /\ Lvl(w, i) = l
  /\ \A w \in Worker : Place(w, i) = "notify" => notices[i][Lvl(w, i)] = 0

\* A level that was entered was notified, or is about to be; until then nobody
\* expires the incident.
Entered(i) ==
  /\ \A l \in Level : Escalated(i, l) =>
       \/ notices[i][l] >= 1
       \/ \E w \in Worker : Place(w, i) \in {"raise", "notify"} /\ Lvl(w, i) = l
  /\ \A w \in Worker : row[i].status = "expired" => Place(w, i) \in {"away", "logExpired"}

Calm(i) == Alone(i) /\ InStep(i) /\ Behind(i) /\ Sent(i) /\ Entered(i)

BornAtOne == \A i \in Incident : row[i].status = "none" => row[i].level = 1

CalmInv ==
  /\ FrameInv /\ ReceiverActive /\ BornAtOne
  /\ \A i \in Incident : i \notin disturbed => Calm(i)

-----------------------------------------------------------------------------
(* What a step does with one incident *)

SamePlace(w, i) ==
  Place(w, i)' = Place(w, i) /\ (Place(w, i) # "away" => Lvl(w, i)' = Lvl(w, i))
Others(w, i) == \A v \in Worker \ {w} : SamePlace(v, i)

\* Neither the level, nor the notices, nor the escalations change, and the
\* incident does not expire.
Unmoved(i) ==
  /\ row'[i].level = row[i].level /\ notices'[i] = notices[i]
  /\ row'[i].status = "expired" => row[i].status = "expired"
  /\ log[i] \subseteq log'[i] /\ \A l \in Level : Escalated(i, l)' => Escalated(i, l)

Outside(i) == Unmoved(i) /\ \A w \in Worker : SamePlace(w, i)

Lists(w, i) ==
  /\ Unmoved(i) /\ Others(w, i) /\ row[i].status # "expired"
  /\ Place(w, i)' = "queued" /\ Lvl(w, i)' = row[i].level
  /\ \A v \in Worker : Place(v, i) = "away"

Leaves(w, i) ==
  /\ Unmoved(i) /\ Others(w, i) /\ Place(w, i)' = "away"
  /\ \/ Place(w, i) \in {"queued", "expire", "logExpired"}
     \/ Place(w, i) = "logNotified"
        /\ [action |-> "notified", level |-> Lvl(w, i)] \in log'[i]

MovesTo(w, i, from, to) ==
  /\ Others(w, i) /\ Place(w, i) = from /\ Place(w, i)' = to

Expires(w, i) ==
  /\ MovesTo(w, i, "expire", "logExpired") /\ Lvl(w, i)' = Lvl(w, i)
  /\ row'[i].level = row[i].level /\ notices'[i] = notices[i] /\ log'[i] = log[i]

Raises(w, i) ==
  /\ MovesTo(w, i, "queued", "raise") /\ row'[i] = row[i] /\ notices'[i] = notices[i]
  /\ Lvl(w, i)' > Lvl(w, i) /\ log[i] \subseteq log'[i]
  /\ \A l \in Level : Escalated(i, l)' => Escalated(i, l) \/ l = Lvl(w, i)'

Raised(w, i) ==
  /\ MovesTo(w, i, "raise", "notify") /\ Lvl(w, i)' = Lvl(w, i)
  /\ row'[i].level = Lvl(w, i) /\ row'[i].status = row[i].status
  /\ notices'[i] = notices[i] /\ log'[i] = log[i]

Decides(w, i) ==
  /\ Unmoved(i) /\ Lvl(w, i)' = Lvl(w, i)
  /\ \/ MovesTo(w, i, "queued", "expire")
     \/ MovesTo(w, i, "queued", "notify") /\ ~AlreadyNotified(i, Lvl(w, i))

Sends(w, i) ==
  /\ MovesTo(w, i, "notify", "logNotified") /\ Lvl(w, i)' = Lvl(w, i)
  /\ row'[i] = row[i] /\ log'[i] = log[i]
  /\ notices'[i] = [notices[i] EXCEPT ![Lvl(w, i)] = OneMore(@)]

Worked(w, i) ==
  \/ Lists(w, i) \/ Leaves(w, i) \/ Expires(w, i) \/ Raises(w, i) \/ Raised(w, i)
  \/ Decides(w, i) \/ Sends(w, i)

-----------------------------------------------------------------------------
(* The passes *)

\* A pass touches nothing of another one.
LEMMA OtherPasses ==
  ASSUME TypeOK, NEW w \in Worker, Pass(w) \/ Fault(w), NEW i \in Incident
  PROVE  Others(w, i)
<1> SUFFICES ASSUME NEW v \in Worker \ {w}
             PROVE  SamePlace(v, i)
  BY DEF Others
<1>1. /\ at' = at \/ \E p : at' = [at EXCEPT ![w] = p]
      /\ todo' = todo \/ \E T : todo' = [todo EXCEPT ![w] = T]
      /\ copy' = copy \/ \E C : copy' = [copy EXCEPT ![w] = C]
  BY DEF Pass, StartPass, DecideToExpire, ExpireIncident, LogExpired, DecideToEscalate, SaveLevel,
      NotifyIfNeeded, SendNotices, LogNotified, StartAutoResolve, ResolveOverdue, LogResolved,
      Fault, SkipIncident, AbandonPass, NextItem, GoTo
<1>2. at'[v] = at[v] /\ todo'[v] = todo[v] /\ copy'[v] = copy[v]
  BY <1>1 DEF TypeOK
<1>3. QED
  BY <1>2 DEF SamePlace, Place, Lvl, Scanning, Current

\* The pass goes on with its current incident.
LEMMA Goes ==
  ASSUME TypeOK, NEW w \in Worker, NEW i \in Incident, Scanning(w), todo[w] # {},
         NEW place \in {"expire", "logExpired", "raise", "notify", "logNotified"},
         GoTo(w, place), UNCHANGED todo
  PROVE  /\ i # Current(w) => Place(w, i)' = Place(w, i)
         /\ i = Current(w) => /\ Place(w, i)' = place
                              /\ Place(w, i) = IF at[w] = "scan" THEN "queued" ELSE at[w]
<1>1. at'[w] = place /\ todo'[w] = todo[w]
  BY DEF GoTo, TypeOK
<1>2. Current(w) \in todo[w]
  BY HeldType
<1>3. QED
  BY <1>1, <1>2 DEF Place, Scanning, Current

\* It is done with it.
LEMMA Finishes ==
  ASSUME TypeOK, NEW w \in Worker, NEW i \in Incident, Scanning(w), todo[w] # {},
         NextItem(w, "scan")
  PROVE  /\ i # Current(w) => SamePlace(w, i)
         /\ i = Current(w) => /\ Place(w, i)' = "away"
                              /\ Place(w, i) = IF at[w] = "scan" THEN "queued" ELSE at[w]
<1>0. PICK c : c = Current(w)
  OBVIOUS
<1>1. at'[w] = "scan" /\ todo'[w] = todo[w] \ {c}
  BY <1>0 DEF NextItem, GoTo, TypeOK
<1>2. c \in todo[w] /\ c \in Incident
  BY <1>0, HeldType
<1>3. i # c => copy'[w][i] = copy[w][i]
  BY <1>0, <1>2 DEF NextItem, TypeOK
<1>4. QED
  BY <1>0, <1>1, <1>2, <1>3 DEF Place, Lvl, SamePlace, Scanning

\* A pass that is not going through its list has the incident in none.
LEMMA NotScanning ==
  ASSUME NEW w \in Worker, NEW i \in Incident, ~Scanning(w), ~Scanning(w)'
  PROVE  SamePlace(w, i) /\ Place(w, i)' = "away"
BY DEF SamePlace, Place

\* Nothing of the incident's tables changes.
LEMMA Untouched ==
  ASSUME NEW i \in Incident, row'[i].level = row[i].level, row'[i].status = row[i].status,
         notices'[i] = notices[i], log'[i] = log[i]
  PROVE  Unmoved(i)
BY DEF Unmoved, Escalated

\* Nor does an entry that is not of an escalation.
LEMMA EntryWritten ==
  ASSUME TypeOK, NEW i \in Incident, row'[i] = row[i], notices'[i] = notices[i],
         NEW c \in Incident, NEW l \in Level, NEW a \in Action \ {"escalated"}, WriteLog(c, a, l)
  PROVE  Unmoved(i)
<1>1. log'[i] = log[i] \/ log'[i] = log[i] \cup {[action |-> a, level |-> l]}
  BY DEF WriteLog, TypeOK
<1>2. \A k : [action |-> "escalated", level |-> k] # [action |-> a, level |-> l]
  OBVIOUS
<1>3. QED
  BY <1>1, <1>2 DEF Unmoved, Escalated

\* The rows that a step of a pass writes: it closes one, or moves one up.
LEMMA PassClosures ==
  ASSUME FrameInv, NEW w \in Worker, ExpireIncident(w) \/ ResolveOverdue(w)
  PROVE  \A i \in Incident :
           \/ row'[i] = row[i]
           \/ /\ i = Current(w) /\ row[i].status # "none" /\ row'[i].level = row[i].level
              /\ row'[i].status = IF at[w] = "resolve" THEN "resolved" ELSE "expired"
<1>0. PICK c : c = Current(w)
  OBVIOUS
<1>1. c \in Incident /\ c \in todo[w]
  BY <1>0, HeldType DEF ExpireIncident, ResolveOverdue, Ready, FrameInv
<1>2. row[c] \in Row /\ row[c].status # "none" /\ row \in [Incident -> Row]
  BY <1>1 DEF FrameInv, Found, TypeOK
<1>3. PICK status : /\ status = IF at[w] = "resolve" THEN "resolved" ELSE "expired"
                    /\ row' = [row EXCEPT ![c] = [@ EXCEPT !.status = status, !.stamped = TRUE]]
  BY <1>0 DEF ExpireIncident, ResolveOverdue, Ready
<1>4. PICK q : q = [row[c] EXCEPT !.status = status, !.stamped = TRUE]
  OBVIOUS
<1>5. q.status = status /\ q.level = row[c].level
  BY <1>2, <1>4 DEF Row
<1>6. \A i \in Incident : row'[i] = IF i = c THEN q ELSE row[i]
  BY <1>2, <1>3, <1>4
<1>7. QED
  BY <1>0, <1>2, <1>3, <1>5, <1>6

LEMMA PassRaises ==
  ASSUME TypeOK, NEW w \in Worker, SaveLevel(w)
  PROVE  \A i \in Incident :
           /\ i # Current(w) => row'[i] = row[i]
           /\ i = Current(w) => row'[i].level = Lvl(w, i) /\ row'[i].status = row[i].status
<1>0. PICK c, h : c = Current(w) /\ h = Held(w)
  OBVIOUS
<1>1. c \in Incident /\ h = copy[w][c]
  BY <1>0, HeldType DEF SaveLevel, Ready, Held
<1>2. row[c] \in Row /\ row \in [Incident -> Row]
  BY <1>1 DEF TypeOK
<1>3. PICK q : q = [row[c] EXCEPT !.level = h.level, !.age = h.age]
  OBVIOUS
<1>4. row' = [row EXCEPT ![c] = q]
  BY <1>0, <1>3 DEF SaveLevel
<1>5. q.status = row[c].status /\ q.level = h.level
  BY <1>2, <1>3 DEF Row
<1>6. \A i \in Incident : row'[i] = IF i = c THEN q ELSE row[i]
  BY <1>2, <1>4
<1>7. QED
  BY <1>0, <1>1, <1>5, <1>6 DEF Lvl

\* A step of a pass does one of these things with an incident that stays
\* undisturbed: a case for each action.
LEMMA PassStep ==
  ASSUME FrameInv, NEW w \in Worker, NEW i \in Incident, i \notin disturbed',
         Pass(w) \/ Fault(w)
  PROVE  Outside(i) \/ Worked(w, i)
<1> USE DEF FrameInv
<1>0. Others(w, i) /\ (SamePlace(w, i) => \A v \in Worker : SamePlace(v, i))
  BY OtherPasses DEF Others
<1> USE DEF Worked
<1>1. CASE StartPass(w)
  <2>1. /\ at'[w] = "scan" /\ todo'[w] = Active /\ ~Scanning(w)
        /\ UNCHANGED <<row, log, notices>> /\ i \notin Shared
    BY <1>1 DEF StartPass, TypeOK, Scanning
  <2>2. CASE i \in Active
    <3>1. copy'[w][i].level = row[i].level
      BY <1>1, <2>2 DEF StartPass, TypeOK
    <3>2. \A v \in Worker : Place(v, i) = "away"
      BY <2>1, <2>2 DEF Shared, Place
    <3>3. row[i].status # "expired" /\ Place(w, i)' = "queued" /\ Lvl(w, i)' = row[i].level
      BY <2>1, <2>2, <3>1 DEF Active, Place, Lvl, Scanning
    <3>4. QED
      BY <1>0, <2>1, <3>2, <3>3, Untouched DEF Lists
  <2>3. CASE i \notin Active
    <3>1. SamePlace(w, i)
      BY <2>1, <2>3 DEF SamePlace, Place
    <3>2. QED
      BY <1>0, <2>1, <3>1, Untouched DEF Outside
  <2>4. QED
    BY <2>2, <2>3
<1>2. CASE DecideToExpire(w)
  <2>1. /\ Scanning(w) /\ todo[w] # {} /\ at[w] = "scan" /\ GoTo(w, "expire")
        /\ UNCHANGED <<row, log, notices, todo, copy>>
    BY <1>2 DEF DecideToExpire, Ready, Scanning, tableVars
  <2>2. /\ i # Current(w) => SamePlace(w, i)
        /\ i = Current(w) => Place(w, i)' = "expire" /\ Place(w, i) = "queued"
        /\ Lvl(w, i)' = Lvl(w, i)
    BY <2>1, Goes DEF SamePlace, Lvl
  <2>3. QED
    BY <1>0, <2>1, <2>2, Untouched DEF Outside, Decides, MovesTo
<1>3. CASE ExpireIncident(w)
  <2>1. /\ Scanning(w) /\ todo[w] # {} /\ at[w] = "expire" /\ GoTo(w, "logExpired")
        /\ UNCHANGED <<log, notices, todo, copy>>
    BY <1>3 DEF ExpireIncident, Ready, Scanning
  <2>2. /\ i # Current(w) => SamePlace(w, i)
        /\ i = Current(w) => Place(w, i)' = "logExpired" /\ Place(w, i) = "expire"
        /\ Lvl(w, i)' = Lvl(w, i)
    BY <2>1, Goes DEF SamePlace, Lvl
  <2>3. row'[i].level = row[i].level /\ (i # Current(w) => row'[i] = row[i])
    BY <1>3, PassClosures
  <2>4. QED
    BY <1>0, <2>1, <2>2, <2>3, Untouched DEF Outside, Expires, MovesTo
<1>4. CASE LogExpired(w) \/ LogNotified(w)
  <2>1. /\ Scanning(w) /\ todo[w] # {} /\ at[w] \in {"logExpired", "logNotified"}
        /\ NextItem(w, "scan") /\ UNCHANGED <<row, notices>>
    BY <1>4 DEF LogExpired, LogNotified, Ready, Scanning
  <2>2. /\ i # Current(w) => SamePlace(w, i)
        /\ i = Current(w) => Place(w, i)' = "away" /\ Place(w, i) = at[w]
    BY <2>1, Finishes
  <2>3. PICK c, l, a : /\ c = Current(w) /\ l = Held(w).level
                       /\ a = IF at[w] = "logExpired" THEN "expired" ELSE "notified"
    OBVIOUS
  <2>4. c \in Incident /\ l \in Level /\ a \in Action \ {"escalated"}
    BY <2>1, <2>3, HeldType DEF Instance, Action
  <2>5. WriteLog(c, a, l)
    BY <1>4, <2>3 DEF LogExpired, LogNotified, Ready
  <2>6. Unmoved(i)
    BY <2>1, <2>4, <2>5, EntryWritten
  <2>7. i = c /\ at[w] = "logNotified" =>
          [action |-> "notified", level |-> Lvl(w, i)] \in log'[i]
    BY <2>3, <2>4, <2>5 DEF WriteLog, Held, Lvl, TypeOK
  <2>8. QED
    BY <1>0, <2>1, <2>2, <2>3, <2>6, <2>7 DEF Outside, Leaves
<1>5. CASE DecideToEscalate(w)
  <2>1. /\ Scanning(w) /\ todo[w] # {} /\ at[w] = "scan" /\ GoTo(w, "raise")
        /\ UNCHANGED <<row, notices, todo>>
    BY <1>5 DEF DecideToEscalate, Ready, Scanning
  <2>2. PICK c, h, n : c = Current(w) /\ h = Held(w).level /\ n = NextLevel(h)
    OBVIOUS
  <2>3. c \in Incident /\ Held(w) \in Instance /\ h \in Level /\ n \in Level /\ n > h
        /\ Held(w) = copy[w][c]
    BY <1>5, <2>1, <2>2, HeldType, NextLevelIsHigher
    DEF DecideToEscalate, MustEscalate, Instance, TypeOK, Held
  <2>4. /\ WriteLog(c, "escalated", n)
        /\ copy' = [copy EXCEPT ![w][c] = [@ EXCEPT !.level = n, !.age = 0]]
    BY <1>5, <2>2 DEF DecideToEscalate
  <2>5. copy'[w][i] = IF i = c THEN [copy[w][c] EXCEPT !.level = n, !.age = 0] ELSE copy[w][i]
    BY <2>3, <2>4 DEF TypeOK
  <2>6. i = c => Lvl(w, i) = h /\ Lvl(w, i)' = n
    BY <2>2, <2>3, <2>5 DEF Lvl, Instance
  <2>7. log' = [log EXCEPT ![c] = @ \cup {[action |-> "escalated", level |-> n]}]
    BY <2>4 DEF WriteLog
  <2>8. CASE i # c
    <3>1. SamePlace(w, i)
      BY <2>1, <2>2, <2>5, <2>8, Goes DEF SamePlace, Lvl
    <3>2. log'[i] = log[i]
      BY <2>7, <2>8 DEF TypeOK
    <3>3. QED
      BY <1>0, <2>1, <3>1, <3>2, Untouched DEF Outside
  <2>9. CASE i = c
    <3>1. Place(w, i) = "queued" /\ Place(w, i)' = "raise"
      BY <2>1, <2>2, <2>9, Goes
    <3>2. log'[i] = log[i] \cup {[action |-> "escalated", level |-> n]}
      BY <2>7, <2>9 DEF TypeOK
    <3>3. \A l : [action |-> "escalated", level |-> l] = [action |-> "escalated", level |-> n]
                => l = n
      OBVIOUS
    <3>4. \A l \in Level : Escalated(i, l)' => Escalated(i, l) \/ l = Lvl(w, i)'
      BY <2>6, <2>9, <3>2, <3>3 DEF Escalated
    <3>5. QED
      BY <1>0, <2>1, <2>3, <2>6, <2>9, <3>1, <3>2, <3>4 DEF Raises, MovesTo
  <2>10. QED
    BY <2>8, <2>9
<1>6. CASE SaveLevel(w)
  <2>1. /\ Scanning(w) /\ todo[w] # {} /\ at[w] = "raise" /\ GoTo(w, "notify")
        /\ UNCHANGED <<log, notices, todo, copy>>
    BY <1>6 DEF SaveLevel, Ready, Scanning
  <2>2. /\ i # Current(w) => SamePlace(w, i)
        /\ i = Current(w) => Place(w, i)' = "notify" /\ Place(w, i) = "raise"
        /\ Lvl(w, i)' = Lvl(w, i)
    BY <2>1, Goes DEF SamePlace, Lvl
  <2>3. QED
    BY <1>0, <1>6, <2>1, <2>2, PassRaises, Untouched DEF Outside, Raised, MovesTo
<1>7. CASE NotifyIfNeeded(w)
  <2>1. /\ Scanning(w) /\ todo[w] # {} /\ at[w] = "scan" /\ UNCHANGED <<row, log, notices>>
    BY <1>7 DEF NotifyIfNeeded, Ready, Scanning, tableVars
  <2>2. CASE NextItem(w, "scan")
    <3>1. /\ i # Current(w) => SamePlace(w, i)
          /\ i = Current(w) => Place(w, i)' = "away" /\ Place(w, i) = "queued"
      BY <2>1, <2>2, Finishes
    <3>2. QED
      BY <1>0, <2>1, <3>1, Untouched DEF Outside, Leaves
  <2>3. CASE ~NextItem(w, "scan")
    <3>1. GoTo(w, "notify") /\ UNCHANGED <<todo, copy>>
          /\ ~AlreadyNotified(Current(w), Held(w).level)
      BY <1>7, <2>3 DEF NotifyIfNeeded
    <3>2. /\ i # Current(w) => SamePlace(w, i)
          /\ i = Current(w) => Place(w, i)' = "notify" /\ Place(w, i) = "queued"
          /\ Lvl(w, i)' = Lvl(w, i)
      BY <2>1, <3>1, Goes DEF SamePlace, Lvl
    <3>3. i = Current(w) => ~AlreadyNotified(i, Lvl(w, i))
      BY <3>1 DEF Held, Lvl
    <3>4. QED
      BY <1>0, <2>1, <3>2, <3>3, Untouched DEF Outside, Decides, MovesTo
  <2>4. QED
    BY <2>2, <2>3
<1>8. CASE SendNotices(w)
  <2>1. /\ Scanning(w) /\ todo[w] # {} /\ at[w] = "notify" /\ GoTo(w, "logNotified")
        /\ UNCHANGED <<row, log, todo, copy>>
    BY <1>8 DEF SendNotices, Ready, Scanning
  <2>2. /\ i # Current(w) => SamePlace(w, i)
        /\ i = Current(w) => Place(w, i)' = "logNotified" /\ Place(w, i) = "notify"
        /\ Lvl(w, i)' = Lvl(w, i)
    BY <2>1, Goes DEF SamePlace, Lvl
  <2>3. PICK c, l : c = Current(w) /\ l = Held(w).level
    OBVIOUS
  <2>4. notices' = [notices EXCEPT ![c][l] = OneMore(@)] /\ (i = c => l = Lvl(w, i))
    BY <1>8, <2>3 DEF SendNotices, Held, Lvl
  <2>5. IF i = c THEN notices'[i] = [notices[i] EXCEPT ![l] = OneMore(@)]
        ELSE notices'[i] = notices[i]
    BY <2>4 DEF TypeOK
  <2>6. QED
    BY <1>0, <2>1, <2>2, <2>3, <2>4, <2>5, Untouched DEF Outside, Sends, MovesTo
<1>9. CASE StartAutoResolve(w) \/ LogResolved(w) \/ ResolveOverdue(w)
  <2>1. SamePlace(w, i)
    <3>1. CASE StartAutoResolve(w)
      <4>1. Place(w, i) = "away"
        BY <3>1 DEF StartAutoResolve, Place
      <4>2. at'[w] \in {"idle", "resolve"}
        BY <3>1 DEF StartAutoResolve, GoTo, TypeOK
      <4>3. QED
        BY <4>1, <4>2 DEF SamePlace, Place, Scanning
    <3>2. CASE LogResolved(w) \/ ResolveOverdue(w)
      <4>1. at[w] \in {"resolve", "logResolved"} /\ at'[w] \in {"idle", "resolve", "logResolved"}
        BY <3>2 DEF LogResolved, ResolveOverdue, Ready, NextItem, GoTo, TypeOK
      <4>2. QED
        BY <4>1, NotScanning DEF Scanning
    <3>3. QED
      BY <1>9, <3>1, <3>2
  <2>2. Unmoved(i)
    <3>1. CASE StartAutoResolve(w)
      BY <3>1, Untouched DEF StartAutoResolve, tableVars
    <3>2. CASE LogResolved(w)
      <4>1. todo[w] # {} /\ UNCHANGED <<row, notices>>
            /\ WriteLog(Current(w), "resolved", Held(w).level)
        BY <3>2 DEF LogResolved, Ready
      <4>2. Current(w) \in Incident /\ Held(w).level \in Level
            /\ "resolved" \in Action \ {"escalated"}
        BY <4>1, HeldType DEF Instance, Action
      <4>3. QED
        BY <4>1, <4>2, EntryWritten
    <3>3. CASE ResolveOverdue(w)
      <4>1. at[w] = "resolve" /\ UNCHANGED <<log, notices>>
        BY <3>3 DEF ResolveOverdue, Ready
      <4>2. row'[i].level = row[i].level
            /\ (row'[i].status = "expired" => row[i].status = "expired")
        BY <3>3, <4>1, PassClosures
      <4>3. QED
        BY <4>1, <4>2 DEF Unmoved, Escalated
    <3>4. QED
      BY <1>9, <3>1, <3>2, <3>3
  <2>3. QED
    BY <1>0, <2>1, <2>2 DEF Outside
<1>10. CASE SkipIncident(w)
  <2>1. /\ Scanning(w) /\ todo[w] # {} /\ NextItem(w, "scan")
        /\ UNCHANGED <<row, log, notices>> /\ LeftHalfway(w)
    BY <1>10 DEF SkipIncident
  <2>2. /\ i # Current(w) => SamePlace(w, i)
        /\ i = Current(w) => /\ Place(w, i)' = "away"
                             /\ Place(w, i) = IF at[w] = "scan" THEN "queued" ELSE at[w]
    BY <2>1, Finishes
  <2>3. i = Current(w) => at[w] \in {"scan", "expire", "logExpired"}
    <3>1. at[w] \in {"scan", "expire", "logExpired", "raise", "notify", "logNotified"}
      BY <2>1 DEF Scanning, TypeOK
    <3>2. i = Current(w) => at[w] \notin {"raise", "notify", "logNotified"}
      BY <2>1 DEF LeftHalfway, Ready
    <3>3. QED
      BY <3>1, <3>2
  <2>4. QED
    BY <1>0, <2>1, <2>2, <2>3, Untouched DEF Outside, Leaves
<1>11. CASE AbandonPass(w)
  <2>1. /\ at'[w] = "idle" /\ UNCHANGED <<row, log, notices>> /\ LeftHalfway(w)
    BY <1>11 DEF AbandonPass, GoTo, TypeOK
  <2>2. Place(w, i)' = "away"
    BY <2>1 DEF Place, Scanning
  <2>3. Place(w, i) \in {"away", "queued", "expire", "logExpired"}
    <3>1. Scanning(w) =>
            at[w] \in {"scan", "expire", "logExpired", "raise", "notify", "logNotified"}
      BY DEF Scanning, TypeOK
    <3>2. i = Current(w) /\ i \in todo[w] => at[w] \notin {"raise", "notify", "logNotified"}
      BY <2>1 DEF LeftHalfway, Ready
    <3>3. QED
      BY <3>1, <3>2 DEF Place
  <2>4. QED
    BY <1>0, <2>1, <2>2, <2>3, Untouched DEF Outside, Leaves, SamePlace
<1>12. QED
  BY <1>1, <1>2, <1>3, <1>4, <1>5, <1>6, <1>7, <1>8, <1>9, <1>10, <1>11 DEF Pass, Fault

-----------------------------------------------------------------------------
(* Everybody else *)

\* An incident that was disturbed stays so.
LEMMA StaysDisturbed ==
  ASSUME [Next]_vars
  PROVE  disturbed \subseteq disturbed'
<1>1. ASSUME NEW w \in Worker, Pass(w) \/ Fault(w)
      PROVE  disturbed \subseteq disturbed'
  BY <1>1
  DEF Pass, StartPass, DecideToExpire, ExpireIncident, LogExpired, DecideToEscalate, SaveLevel,
      NotifyIfNeeded, SendNotices, LogNotified, StartAutoResolve, ResolveOverdue, LogResolved,
      Fault, SkipIncident, AbandonPass, LeftHalfway, tableVars, historyVars
<1>2. QED
  BY <1>1
  DEF Next, vars, Bridge, DecideToCreate, CreateIncident, SaveBridgePhoto, SaveWhole, Admin,
      ClearLadder, AddLevel, CutEdit, AssignSite, Tick, Rest, RequestAck, SaveAck, LogAck, Telegram,
      PressAck, PressFalseAlarm, SaveFalseAlarm, LogFalseAlarm, Answer, Snapshots, MatchSnapshot,
      SaveSnapshot, tableVars, historyVars

\* The passes stay where they are.
LEMMA PassesStay ==
  ASSUME NEW i \in Incident, UNCHANGED <<at, todo>>, \A w \in Worker : Lvl(w, i)' = Lvl(w, i)
  PROVE  \A w \in Worker : SamePlace(w, i)
BY DEF SamePlace, Place, Scanning, Current

LEMMA WorkersStay ==
  ASSUME UNCHANGED workerVars, NEW i \in Incident
  PROVE  \A w \in Worker : SamePlace(w, i)
BY PassesStay DEF workerVars, Lvl

\* What a save of a whole row writes of the incident.
LEMMA WholeWrites ==
  ASSUME TypeOK, NEW c \in Incident, NEW q \in Row, SaveWhole(c, q), UNCHANGED <<notices, log>>,
         q.status = "active", NEW i \in Incident, i \notin disturbed',
         i = c => q.level <= row[i].level
  PROVE  Unmoved(i)
<1>1. PICK f, p : f = frames[c] + 1 /\ p = [q EXCEPT !.snap = f]
  OBVIOUS
<1>2. row' = [row EXCEPT ![c] = p]
  BY <1>1 DEF SaveWhole
<1>3. p.level = q.level /\ p.status = "active"
  BY <1>1 DEF Row
<1>4. row'[i] = IF i = c THEN p ELSE row[i]
  BY <1>2 DEF TypeOK
<1>5. i = c => ~(q.level < row[i].level)
  BY DEF SaveWhole
<1>6. q.level \in Int /\ row[i].level \in Int
  BY BoundAssumption DEF Row, Level, TypeOK
<1>7. i = c => q.level = row[i].level
  BY <1>5, <1>6
<1>8. row'[i].level = row[i].level /\ (row'[i].status = "expired" => row[i].status = "expired")
  BY <1>3, <1>4, <1>7
<1>9. QED
  BY <1>8 DEF Unmoved, Escalated

\* An operator closes rows, and writes entries of closures.
LEMMA HumanCloseRow ==
  ASSUME FrameInv, NEW h \in Human, SaveAck(h) \/ SaveFalseAlarm(h)
  PROVE  \A i \in Incident :
           \/ row'[i] = row[i]
           \/ /\ row[i].status # "none" /\ row'[i].level = row[i].level
              /\ row'[i].status \in {"acknowledged", "resolved"}
<1>0. PICK c : c = human[h].inc
  OBVIOUS
<1>1. c \in Incident /\ row[c].status # "none" /\ row[c] \in Row /\ row \in [Incident -> Row]
  BY <1>0 DEF SaveAck, SaveFalseAlarm, FrameInv, Found, TypeOK
<1>2. PICK status \in {"acknowledged", "resolved"} :
        row' = [row EXCEPT ![c] = [@ EXCEPT !.status = status, !.by = h, !.stamped = TRUE]]
  BY <1>0 DEF SaveAck, SaveFalseAlarm, SaveClosure
<1>3. PICK q : q = [row[c] EXCEPT !.status = status, !.by = h, !.stamped = TRUE]
  OBVIOUS
<1>4. q.status = status /\ q.level = row[c].level
  BY <1>1, <1>3 DEF Row
<1>5. \A i \in Incident : row'[i] = IF i = c THEN q ELSE row[i]
  BY <1>1, <1>2, <1>3
<1>6. QED
  BY <1>1, <1>4, <1>5

LEMMA HumanUnmoved ==
  ASSUME FrameInv, NEW h \in Human, NEW i \in Incident,
         SaveAck(h) \/ SaveFalseAlarm(h) \/ LogAck(h) \/ LogFalseAlarm(h)
  PROVE  Unmoved(i)
<1>1. CASE SaveAck(h) \/ SaveFalseAlarm(h)
  <2>1. row'[i].level = row[i].level /\ (row'[i].status = "expired" => row[i].status = "expired")
    BY <1>1, HumanCloseRow
  <2>2. UNCHANGED <<notices, log>>
    BY <1>1 DEF SaveAck, SaveFalseAlarm
  <2>3. QED
    BY <2>1, <2>2 DEF Unmoved, Escalated
<1>2. CASE LogAck(h) \/ LogFalseAlarm(h)
  <2>1. PICK c, l, a : /\ c = human[h].inc /\ l = human[h].level
                       /\ a \in {"acknowledged", "resolved"}
                       /\ WriteLog(c, a, l) /\ UNCHANGED <<row, notices>>
    BY <1>2 DEF LogAck, LogFalseAlarm
  <2>2. c \in Incident /\ l \in Level /\ a \in Action \ {"escalated"}
    BY <2>1 DEF FrameInv, TypeOK, Action
  <2>3. QED
    BY <2>1, <2>2, EntryWritten DEF FrameInv
<1>3. QED
  BY <1>1, <1>2

\* The levels of rows and instances do not change with time.
LEMMA TickLevels ==
  ASSUME TypeOK, Tick, NEW i \in Incident
  PROVE  /\ row'[i].level = row[i].level /\ row'[i].status = row[i].status
         /\ \A w \in Worker : Lvl(w, i)' = Lvl(w, i)
<1>1. row[i] \in Row /\ (row'[i] = row[i] \/ row'[i] = Aged(row[i]))
  BY DEF Tick, TypeOK
<1>2. row'[i].level = row[i].level /\ row'[i].status = row[i].status
  BY <1>1 DEF Aged, Row
<1>3. ASSUME NEW w \in Worker
      PROVE  copy'[w][i].level = copy[w][i].level
  <2>1. copy[w][i] \in Instance /\ (copy'[w][i] = copy[w][i] \/ copy'[w][i] = Aged(copy[w][i]))
    BY DEF Tick, TypeOK
  <2>2. QED
    BY <2>1 DEF Aged, Instance
<1>4. QED
  BY <1>2, <1>3 DEF Lvl

\* No other process moves an incident that stays undisturbed, nor a pass.
LEMMA OtherStep ==
  ASSUME CalmInv, [Next]_vars, NEW i \in Incident, i \notin disturbed',
         ~\E w \in Worker : Pass(w) \/ Fault(w)
  PROVE  Outside(i)
<1>0. FrameInv /\ TypeOK /\ Behind(i)
  BY StaysDisturbed DEF CalmInv, FrameInv, Calm
<1>1. CASE UNCHANGED <<row, log, notices, at, todo, copy>>
  BY <1>1, Untouched, PassesStay DEF Outside, Lvl
<1>2. CASE CreateIncident
  <2>1. /\ bridge.inc \in Incident /\ UNCHANGED notices /\ UNCHANGED workerVars
        /\ WriteLog(bridge.inc, "created", 1)
    BY <1>0, <1>2 DEF CreateIncident, TypeOK
  <2>2. row'[i].level = row[i].level /\ (row'[i].status = "expired" => row[i].status = "expired")
    <3>1. CASE i = bridge.inc
      BY <1>0, <1>2, <3>1, Creation DEF CreateIncident, FrameInv, Found, CalmInv, BornAtOne
    <3>2. CASE i # bridge.inc
      BY <1>0, <1>2, <3>2, Creation
    <3>3. QED
      BY <3>1, <3>2
  <2>3. log'[i] = log[i] \/ log'[i] = log[i] \cup {[action |-> "created", level |-> 1]}
    BY <1>0, <2>1 DEF WriteLog, TypeOK
  <2>4. \A l \in Level : [action |-> "escalated", level |-> l] # [action |-> "created", level |-> 1]
    OBVIOUS
  <2>5. Unmoved(i)
    BY <2>1, <2>2, <2>3, <2>4 DEF Unmoved, Escalated
  <2>6. QED
    BY <2>1, <2>5, WorkersStay DEF Outside
<1>3. CASE SaveBridgePhoto
  <2>1. PICK c, b, q : /\ c = bridge.inc /\ b = born[c]
                       /\ q = [NoRow EXCEPT !.status = "active", !.age = b]
    OBVIOUS
  <2>2. /\ c \in Incident /\ b \in Age /\ SaveWhole(c, q)
        /\ UNCHANGED <<notices, log>> /\ UNCHANGED workerVars
    BY <1>0, <1>3, <2>1 DEF SaveBridgePhoto, TypeOK
  <2>3. q \in Row /\ q.status = "active" /\ q.level = 1
    BY <2>1, <2>2, BlankType DEF Row, Status, NoRow
  <2>4. row[i].level >= 1
    BY <1>0, BoundAssumption DEF TypeOK, Row, Level
  <2>5. Unmoved(i)
    BY <1>0, <2>2, <2>3, <2>4, WholeWrites
  <2>6. QED
    BY <2>2, <2>5, WorkersStay DEF Outside
<1>4. ASSUME NEW r \in Receiver, SaveSnapshot(r)
      PROVE  Outside(i)
  <2>1. PICK c, q : c = receiver[r].inc /\ q = receiver[r].row
    OBVIOUS
  <2>2. /\ c \in Incident /\ q \in Row /\ SaveWhole(c, q) /\ q.status = "active"
        /\ UNCHANGED <<notices, log>> /\ UNCHANGED workerVars
    BY <1>0, <1>4, <2>1 DEF SaveSnapshot, TypeOK, CalmInv, ReceiverActive
  <2>3. i = c => q.level <= row[i].level
    BY <1>0, <1>4, <2>1 DEF SaveSnapshot, Behind
  <2>4. Unmoved(i)
    BY <1>0, <2>2, <2>3, WholeWrites
  <2>5. QED
    BY <2>2, <2>4, WorkersStay DEF Outside
<1>5. ASSUME NEW h \in Human, SaveAck(h) \/ SaveFalseAlarm(h) \/ LogAck(h) \/ LogFalseAlarm(h)
      PROVE  Outside(i)
  <2>1. UNCHANGED workerVars
    BY <1>5 DEF SaveAck, SaveFalseAlarm, LogAck, LogFalseAlarm
  <2>2. QED
    BY <1>0, <1>5, <2>1, HumanUnmoved, WorkersStay DEF Outside
<1>6. CASE Tick
  <2>1. UNCHANGED <<at, todo, log, notices>>
    BY <1>6 DEF Tick
  <2>2. QED
    BY <1>0, <1>6, <2>1, TickLevels, Untouched, PassesStay DEF Outside
<1>7. QED
  BY <1>1, <1>2, <1>3, <1>4, <1>5, <1>6
  DEF Next, vars, Bridge, DecideToCreate, Admin, ClearLadder, AddLevel, CutEdit, AssignSite, Rest,
      RequestAck, Telegram, PressAck, PressFalseAlarm, Answer, Snapshots, MatchSnapshot, tableVars,
      workerVars, Human

-----------------------------------------------------------------------------
(* The lifecycle is kept, one part of the invariant at a time *)

\* A step either leaves the incident alone or is one of a pass with it.
Moves(i) == Outside(i) \/ \E w \in Worker : Worked(w, i)

LEMMA AloneKept ==
  ASSUME NEW i \in Incident, Alone(i), Moves(i)
  PROVE  Alone(i)'
<1>1. CASE Outside(i)
  BY <1>1 DEF Outside, SamePlace, Alone
<1>2. ASSUME NEW w \in Worker, Worked(w, i)
      PROVE  Alone(i)'
  <2>1. CASE Lists(w, i)
    BY <2>1 DEF Lists, Others, SamePlace, Alone
  <2>2. CASE Leaves(w, i)
    BY <2>2 DEF Leaves, Others, SamePlace, Alone
  <2>3. Others(w, i) /\ (Place(w, i) # "away" \/ Lists(w, i))
    BY <1>2 DEF Worked, Lists, Leaves, Expires, Raises, Raised, Decides, Sends, MovesTo
  <2>4. CASE Place(w, i) # "away"
    BY <2>3, <2>4 DEF Others, SamePlace, Alone
  <2>5. QED
    BY <2>1, <2>3, <2>4
<1>3. QED
  BY <1>1, <1>2 DEF Moves

\* The other passes are away from an incident that this one has.
LEMMA OthersAway ==
  ASSUME NEW i \in Incident, Alone(i), NEW w \in Worker, Place(w, i) # "away", Others(w, i)
  PROVE  \A v \in Worker : v # w => Place(v, i) = "away" /\ Place(v, i)' = "away"
BY DEF Alone, Others, SamePlace

\* The levels are numbers, before and after a step.
LEMMA LevelNumbers == \A l \in Level : l \in Int
BY BoundAssumption DEF Level

\* So are those of the row, of the passes and of the notices.
LEMMA LevelTypes ==
  ASSUME TypeOK, NEW i \in Incident
  PROVE  /\ row[i].level \in Level
         /\ \A w \in Worker : Lvl(w, i) \in Level
         /\ \A l \in Level : notices[i][l] \in 0..MaxNotices
         /\ notices[i] \in [Level -> 0..MaxNotices]
BY DEF TypeOK, Row, Instance, Lvl

LEMMA LevelTypesAfter ==
  ASSUME TypeOK', NEW i \in Incident
  PROVE  row'[i].level \in Level /\ \A w \in Worker : Lvl(w, i)' \in Level
BY DEF TypeOK, Row, Instance, Lvl

LEMMA InStepKept ==
  ASSUME TypeOK, TypeOK', NEW i \in Incident, Alone(i), InStep(i), Moves(i)
  PROVE  InStep(i)'
<1>0. Level \subseteq Int
  BY BoundAssumption DEF Level
<1>1. CASE Outside(i)
  BY <1>1 DEF Outside, Unmoved, SamePlace, InStep
<1>2. ASSUME NEW w \in Worker, Worked(w, i)
      PROVE  InStep(i)'
  <2>1. CASE Lists(w, i) \/ Leaves(w, i)
    BY <2>1 DEF Lists, Leaves, Unmoved, Others, SamePlace, InStep
  <2>2. CASE ~(Lists(w, i) \/ Leaves(w, i))
    <3>1. Place(w, i) # "away" /\ Others(w, i)
      BY <1>2, <2>2 DEF Worked, Expires, Raises, Raised, Decides, Sends, MovesTo
    <3>2. SUFFICES IF Place(w, i)' = "raise" THEN Lvl(w, i)' > row'[i].level
                   ELSE Lvl(w, i)' = row'[i].level
      BY <3>1, OthersAway DEF InStep
    <3>3. IF Place(w, i) = "raise" THEN Lvl(w, i) > row[i].level ELSE Lvl(w, i) = row[i].level
      BY <3>1 DEF InStep
    <3>4. CASE Expires(w, i)
      BY <3>3, <3>4 DEF Expires, MovesTo
    <3>5. CASE Raises(w, i)
      BY <3>3, <3>5 DEF Raises, MovesTo
    <3>6. CASE Raised(w, i)
      BY <3>3, <3>6 DEF Raised, MovesTo
    <3>7. CASE Decides(w, i)
      BY <3>3, <3>7 DEF Decides, Unmoved, MovesTo
    <3>8. CASE Sends(w, i)
      BY <3>3, <3>8 DEF Sends, MovesTo
    <3>9. QED
      BY <1>2, <2>2, <3>4, <3>5, <3>6, <3>7, <3>8 DEF Worked
  <2>3. QED
    BY <2>1, <2>2
<1>3. QED
  BY <1>1, <1>2 DEF Moves

\* What is logged, and the level an incident has reached, are there for ever.
LEMMA Grows ==
  ASSUME TypeOK, TypeOK', NEW i \in Incident, InStep(i), Moves(i)
  PROVE  row'[i].level >= row[i].level /\ log[i] \subseteq log'[i]
<1>0. row[i].level \in Int /\ \A w \in Worker : Lvl(w, i) \in Int
  BY LevelTypes, LevelNumbers
<1> DEFINE Grown == row'[i].level >= row[i].level
<1>1. CASE Unmoved(i)
  <2>1. row'[i].level = row[i].level /\ log[i] \subseteq log'[i]
    BY <1>1 DEF Unmoved
  <2>2. QED
    BY <1>0, <2>1
<1>2. ASSUME NEW w \in Worker, Raised(w, i)
      PROVE  Grown /\ log[i] \subseteq log'[i]
  <2>1. row'[i].level = Lvl(w, i) /\ Lvl(w, i) > row[i].level /\ log'[i] = log[i]
    BY <1>2 DEF Raised, MovesTo, InStep
  <2>2. QED
    BY <1>0, <2>1
<1>3. ASSUME NEW w \in Worker, Expires(w, i) \/ Raises(w, i) \/ Sends(w, i)
      PROVE  Grown /\ log[i] \subseteq log'[i]
  <2>1. row'[i].level = row[i].level /\ log[i] \subseteq log'[i]
    BY <1>3 DEF Expires, Raises, Sends
  <2>2. QED
    BY <1>0, <2>1
<1>4. QED
  BY <1>1, <1>2, <1>3 DEF Moves, Outside, Worked, Lists, Leaves, Decides

LEMMA SentKept ==
  ASSUME TypeOK, TypeOK', NEW i \in Incident, Alone(i), InStep(i), Sent(i), Moves(i)
  PROVE  Sent(i)'
<1>0. /\ row[i].level \in Level /\ row'[i].level \in Level
      /\ \A w \in Worker : Lvl(w, i) \in Level
      /\ \A l \in Level : notices[i][l] \in 0..2
      /\ notices[i] \in [Level -> 0..2]
  BY LevelTypes, LevelTypesAfter DEF MaxNotices
<1>1. /\ \A l \in Level : l <= row[i].level => l <= row'[i].level
      /\ \A l \in Level : AlreadyNotified(i, l) => AlreadyNotified(i, l)'
  <2>1. row'[i].level >= row[i].level /\ log[i] \subseteq log'[i]
    BY Grows
  <2>2. \A l \in Level : l <= row[i].level => l <= row'[i].level
    BY <1>0, <2>1, LevelNumbers
  <2>3. QED
    BY <2>1, <2>2 DEF AlreadyNotified
\* A level that had been notified stays accounted for.
<1> DEFINE Kept(l) == /\ l <= row'[i].level
                      /\ AlreadyNotified(i, l)'
                         \/ \E v \in Worker : Place(v, i)' = "logNotified" /\ Lvl(v, i)' = l
<1>2. CASE Outside(i)
  BY <1>1, <1>2 DEF Outside, Unmoved, SamePlace, Sent
<1>3. ASSUME NEW w \in Worker, Worked(w, i)
      PROVE  Sent(i)'
  <2>1. Others(w, i)
    BY <1>3 DEF Worked, Lists, Leaves, Expires, Raises, Raised, Decides, Sends, MovesTo
  <2>2. Place(w, i) = "logNotified" =>
          /\ Place(w, i)' = "away" /\ notices'[i] = notices[i]
          /\ AlreadyNotified(i, Lvl(w, i)) \/ [action |-> "notified", level |-> Lvl(w, i)] \in log'[i]
    BY <1>3
    DEF Worked, Lists, Leaves, Expires, Raises, Raised, Decides, Sends, MovesTo, Unmoved
  <2>3. ASSUME NEW l \in Level, notices[i][l] > 0
        PROVE  Kept(l)
    <3>1. l <= row'[i].level
      BY <1>1, <2>3 DEF Sent
    <3>2. CASE AlreadyNotified(i, l)
      BY <1>1, <3>1, <3>2
    <3>3. CASE ~AlreadyNotified(i, l)
      <4>1. PICK v \in Worker : Place(v, i) = "logNotified" /\ Lvl(v, i) = l
        BY <2>3, <3>3 DEF Sent
      <4>2. CASE v = w
        <5>1. [action |-> "notified", level |-> l] \in log'[i]
          BY <2>2, <3>3, <4>1, <4>2
        <5>2. QED
          BY <3>1, <5>1 DEF AlreadyNotified
      <4>3. CASE v # w
        BY <2>1, <3>1, <4>1, <4>3 DEF Others, SamePlace
      <4>4. QED
        BY <4>2, <4>3
    <3>4. QED
      BY <3>2, <3>3
  <2>4. CASE Sends(w, i)
    <3>1. PICK k : k = Lvl(w, i)
      OBVIOUS
    <3>2. /\ k \in Level /\ notices[i][k] = 0 /\ k = row[i].level /\ row'[i] = row[i]
          /\ notices'[i] = [notices[i] EXCEPT ![k] = OneMore(@)]
          /\ Place(w, i) = "notify" /\ Place(w, i)' = "logNotified" /\ Lvl(w, i)' = k
      BY <1>0, <2>4, <3>1 DEF Sends, MovesTo, Sent, InStep
    <3>3. notices'[i][k] = 1 /\ \A l \in Level \ {k} : notices'[i][l] = notices[i][l]
      BY <1>0, <3>2 DEF OneMore, MaxNotices
    <3>4. \A v \in Worker : Place(v, i)' # "notify"
      BY <2>1, <3>2, OthersAway
    <3>5. \A l \in Level : notices'[i][l] <= 1
      BY <1>0, <3>3 DEF Sent
    <3>6. Kept(k)
      <4>1. k <= row'[i].level
        BY <3>2, LevelNumbers
      <4>2. QED
        BY <3>2, <4>1
    <3>7. \A l \in Level : notices'[i][l] > 0 => Kept(l)
      BY <2>3, <3>3, <3>6
    <3> HIDE DEF Kept
    <3>8. QED
      BY <3>4, <3>5, <3>7 DEF Sent, Kept
  <2>5. CASE ~Sends(w, i)
    <3>1. notices'[i] = notices[i]
      BY <1>3, <2>5 DEF Worked, Lists, Leaves, Expires, Raises, Raised, Decides, Unmoved
    <3>2. ASSUME NEW v \in Worker, Place(v, i)' = "notify"
          PROVE  notices[i][Lvl(v, i)'] = 0
      <4>1. CASE SamePlace(v, i)
        BY <3>2, <4>1 DEF SamePlace, Sent
      <4>2. CASE ~SamePlace(v, i)
        <5>1. v = w
          BY <2>1, <4>2 DEF Others
        <5>2. CASE Raised(w, i)
          <6>1. Lvl(w, i)' = Lvl(w, i) /\ Lvl(w, i) > row[i].level /\ Lvl(w, i) \in Level
            BY <1>0, <5>2 DEF Raised, MovesTo, InStep
          <6>2. ~(Lvl(w, i) <= row[i].level)
            BY <1>0, <6>1, LevelNumbers
          <6>3. ~(notices[i][Lvl(w, i)] > 0)
            BY <6>1, <6>2 DEF Sent
          <6>4. notices[i][Lvl(w, i)] = 0
            BY <1>0, <6>1, <6>3
          <6>5. QED
            BY <5>1, <6>1, <6>4
        <5>3. CASE Decides(w, i)
          <6>1. /\ Place(w, i) = "queued" /\ ~AlreadyNotified(i, Lvl(w, i))
                /\ Lvl(w, i)' = Lvl(w, i) /\ Lvl(w, i) \in Level
            BY <1>0, <3>2, <5>1, <5>3 DEF Decides, MovesTo
          <6>2. \A u \in Worker : Place(u, i) # "logNotified"
            BY <2>1, <6>1, OthersAway
          <6>3. ~(notices[i][Lvl(w, i)] > 0)
            BY <6>1, <6>2 DEF Sent
          <6>4. notices[i][Lvl(w, i)] = 0
            BY <1>0, <6>1, <6>3
          <6>5. QED
            BY <5>1, <6>1, <6>4
        <5>4. QED
          BY <1>3, <2>5, <3>2, <5>1, <5>2, <5>3
          DEF Worked, Lists, Leaves, Expires, Raises, MovesTo
      <4>3. QED
        BY <4>1, <4>2
    <3>3. \A l \in Level : notices'[i][l] <= 1
      BY <3>1 DEF Sent
    <3>4. \A l \in Level : notices'[i][l] > 0 => Kept(l)
      BY <2>3, <3>1
    <3> HIDE DEF Kept
    <3>5. QED
      BY <3>1, <3>2, <3>3, <3>4 DEF Sent, Kept
  <2>6. QED
    BY <2>4, <2>5
<1>4. QED
  BY <1>2, <1>3 DEF Moves

LEMMA EnteredKept ==
  ASSUME TypeOK, TypeOK', NEW i \in Incident, Alone(i), InStep(i), Sent(i), Entered(i), Moves(i)
  PROVE  Entered(i)'
<1>0. /\ \A w \in Worker : Lvl(w, i) \in Level
      /\ \A l \in Level : notices[i][l] \in 0..2
      /\ notices[i] \in [Level -> 0..2]
  BY LevelTypes DEF MaxNotices
<1>1. CASE Outside(i)
  BY <1>1 DEF Outside, Unmoved, SamePlace, Entered
<1>2. ASSUME NEW w \in Worker, Worked(w, i)
      PROVE  Entered(i)'
  <2>1. Others(w, i)
    BY <1>2 DEF Worked, Lists, Leaves, Expires, Raises, Raised, Decides, Sends, MovesTo
  <2> DEFINE Pending(l) == \E v \in Worker : Place(v, i)' \in {"raise", "notify"} /\ Lvl(v, i)' = l
  <2>2. \A l \in Level : notices[i][l] >= 1 => notices'[i][l] >= 1
    <3>1. CASE Sends(w, i)
      BY <1>0, <3>1 DEF Sends, OneMore, MaxNotices
    <3>2. CASE ~Sends(w, i)
      BY <1>2, <3>2 DEF Worked, Lists, Leaves, Expires, Raises, Raised, Decides, Unmoved
    <3>3. QED
      BY <3>1, <3>2
  <2>3. ASSUME NEW l \in Level, Escalated(i, l)
        PROVE  notices'[i][l] >= 1 \/ Pending(l)
    <3>1. CASE notices[i][l] >= 1
      BY <2>2, <3>1
    <3>2. CASE ~(notices[i][l] >= 1)
      <4>1. PICK v \in Worker : Place(v, i) \in {"raise", "notify"} /\ Lvl(v, i) = l
        BY <2>3, <3>2 DEF Entered
      <4>2. CASE v # w
        BY <2>1, <4>1, <4>2 DEF Others, SamePlace
      <4>3. CASE v = w /\ Sends(w, i)
        BY <1>0, <4>1, <4>3 DEF Sends, OneMore, MaxNotices
      <4>4. CASE v = w /\ ~Sends(w, i)
        <5>1. Place(w, i)' \in {"raise", "notify"} /\ Lvl(w, i)' = l
          BY <1>2, <4>1, <4>4 DEF Worked, Lists, Leaves, Expires, Raises, Raised, Decides, MovesTo
        <5>2. QED
          BY <5>1
      <4>5. QED
        BY <4>2, <4>3, <4>4
    <3>3. QED
      BY <3>1, <3>2
  <2>4. ASSUME NEW l \in Level, Escalated(i, l)', ~Escalated(i, l)
        PROVE  Pending(l)
    <3>1. Raises(w, i)
      BY <1>2, <2>4 DEF Worked, Lists, Leaves, Expires, Raised, Decides, Sends, Unmoved, Escalated
    <3>2. QED
      BY <2>4, <3>1 DEF Raises, MovesTo
  <2>5. ASSUME row'[i].status = "expired", NEW v \in Worker
        PROVE  Place(v, i)' \in {"away", "logExpired"}
    <3>1. CASE Expires(w, i)
      BY <2>1, <3>1, OthersAway DEF Expires, MovesTo
    <3>2. CASE ~Expires(w, i)
      <4>1. row[i].status = "expired"
        BY <1>2, <2>5, <3>2 DEF Worked, Lists, Leaves, Raises, Raised, Decides, Sends, Unmoved
      <4>2. \A u \in Worker : Place(u, i) \in {"away", "logExpired"}
        BY <4>1 DEF Entered
      <4>3. Leaves(w, i)
        BY <1>2, <3>2, <4>1, <4>2 DEF Worked, Lists, Raises, Raised, Decides, Sends, MovesTo
      <4>4. QED
        BY <2>1, <4>2, <4>3 DEF Leaves, Others, SamePlace
    <3>3. QED
      BY <3>1, <3>2
  <2>6. \A l \in Level : Escalated(i, l)' => notices'[i][l] >= 1 \/ Pending(l)
    BY <2>3, <2>4
  <2>7. QED
    BY <2>5, <2>6 DEF Entered
<1>3. QED
  BY <1>1, <1>2 DEF Moves

\* The receiver's instance is not ahead of a row that moves only up.
LEMMA BehindKept ==
  ASSUME TypeOK, [Next]_vars, TypeOK', NEW i \in Incident, Behind(i), row'[i].level >= row[i].level
  PROVE  Behind(i)'
<1>0. /\ row[i].level \in Int /\ row'[i].level \in Int
      /\ \A r \in Receiver : receiver[r].row.level \in Int
  BY LevelNumbers DEF TypeOK, Row
<1>1. SUFFICES ASSUME NEW r \in Receiver, receiver'[r].at = "save", receiver'[r].inc = i
               PROVE  receiver'[r].row.level <= row[i].level
  <2>1. \A r \in Receiver : receiver'[r].row.level \in Int
    BY LevelNumbers DEF TypeOK, Row
  <2>2. QED
    BY <1>0, <2>1 DEF Behind
<1>2. CASE receiver'[r] = receiver[r]
  BY <1>1, <1>2 DEF Behind
<1>3. ASSUME NEW s \in Receiver, MatchSnapshot(s)
      PROVE  receiver'[r].row.level <= row[i].level
  <2>1. PICK n : n = Newest(Active)
    OBVIOUS
  <2>2. receiver' = [receiver EXCEPT ![s] = [at |-> "save", inc |-> n, row |-> row[n]]]
    BY <1>3, <2>1 DEF MatchSnapshot, Match
  <2>3. CASE r = s
    BY <1>0, <1>1, <2>2, <2>3 DEF TypeOK
  <2>4. CASE r # s
    BY <1>2, <2>2, <2>4 DEF TypeOK
  <2>5. QED
    BY <2>3, <2>4
<1>4. ASSUME NEW s \in Receiver, SaveSnapshot(s)
      PROVE  receiver'[r] = receiver[r]
  BY <1>1, <1>4 DEF SaveSnapshot, TypeOK
<1>5. CASE Tick
  <2>1. receiver[r] \in [at : {"idle", "save"}, inc : Incident, row : Row]
    BY DEF TypeOK
  <2>2. receiver'[r] = receiver[r] \/ receiver'[r] = [receiver[r] EXCEPT !.row = Aged(@)]
    BY <1>5 DEF Tick
  <2>3. /\ receiver'[r].row.level = receiver[r].row.level
        /\ receiver'[r].at = receiver[r].at /\ receiver'[r].inc = receiver[r].inc
    BY <2>1, <2>2 DEF Aged, Row
  <2>4. QED
    BY <1>1, <2>3 DEF Behind
<1>6. ASSUME NEW w \in Worker, Pass(w) \/ Fault(w)
      PROVE  UNCHANGED receiver
  BY <1>6
  DEF Pass, StartPass, DecideToExpire, ExpireIncident, LogExpired, DecideToEscalate, SaveLevel,
      NotifyIfNeeded, SendNotices, LogNotified, StartAutoResolve, ResolveOverdue, LogResolved,
      Fault, SkipIncident, AbandonPass
<1>7. CASE UNCHANGED receiver
  BY <1>2, <1>7
<1>8. QED
  BY <1>2, <1>3, <1>4, <1>5, <1>6, <1>7
  DEF Next, vars, Bridge, DecideToCreate, CreateIncident, SaveBridgePhoto, Admin, ClearLadder,
      AddLevel, CutEdit, AssignSite, Rest, RequestAck, SaveAck, LogAck, Telegram, PressAck,
      PressFalseAlarm, SaveFalseAlarm, LogFalseAlarm, Answer, Snapshots

-----------------------------------------------------------------------------
(* The theorems *)

\* What each step does with the status and the level of a row: it opens the
\* incident, closes it, saves the whole row, raises it, or does nothing.
LEMMA RowStep ==
  ASSUME FrameInv, [Next]_vars, NEW i \in Incident
  PROVE  \/ Opens(i) \/ Closes(i) \/ Rewritten(i)
         \/ row'[i].status = row[i].status /\ row'[i].level = row[i].level
         \/ \E w \in Worker : /\ SaveLevel(w) /\ i = Current(w)
                              /\ row'[i].status = row[i].status /\ row[i].status # "none"
<1> DEFINE Same == row'[i].status = row[i].status /\ row'[i].level = row[i].level
<1> USE DEF FrameInv
<1>1. CASE UNCHANGED row
  BY <1>1
<1>2. ASSUME NEW w \in Worker, ExpireIncident(w) \/ ResolveOverdue(w)
      PROVE  Same \/ Closes(i)
  BY <1>2, PassClosures DEF Closes, Closed
<1>3. ASSUME NEW w \in Worker, SaveLevel(w)
      PROVE  Same \/ (/\ i = Current(w) /\ row'[i].status = row[i].status
                      /\ row[i].status # "none")
  <2>1. Current(w) \in todo[w]
    BY <1>3, HeldType DEF SaveLevel, Ready
  <2>2. QED
    BY <1>3, <2>1, PassRaises DEF Found
<1>4. ASSUME NEW h \in Human, SaveAck(h) \/ SaveFalseAlarm(h)
      PROVE  Same \/ Closes(i)
  BY <1>4, HumanCloseRow DEF Closes, Closed
<1>5. CASE Tick
  BY <1>5, TickLevels
<1>6. CASE CreateIncident
  BY <1>6, Creation DEF CreateIncident, Found, Opens
<1>7. CASE SaveBridgePhoto
  <2>1. bridge.at = "photo" /\ bridge'.at = "idle"
    BY <1>7 DEF SaveBridgePhoto, TypeOK
  <2>2. QED
    BY <1>7, <2>1, BridgeStores DEF Stores, Rewritten
<1>8. ASSUME NEW r \in Receiver, SaveSnapshot(r)
      PROVE  Same \/ Rewritten(i)
  <2>1. receiver[r].at = "save" /\ receiver'[r].at = "idle"
    BY <1>8 DEF SaveSnapshot, TypeOK
  <2>2. QED
    BY <1>8, <2>1, ReceiverStores DEF Stores, Rewritten
<1>9. QED
  BY <1>1, <1>2, <1>3, <1>4, <1>5, <1>6, <1>7, <1>8
  DEF Next, vars, Bridge, DecideToCreate, Admin, ClearLadder, AddLevel, CutEdit, AssignSite, Rest,
      RequestAck, LogAck, Telegram, PressAck, PressFalseAlarm, LogFalseAlarm, Answer, Snapshots,
      MatchSnapshot, Pass, StartPass, DecideToExpire, LogExpired, DecideToEscalate, NotifyIfNeeded,
      SendNotices, LogNotified, StartAutoResolve, LogResolved, Fault, SkipIncident, AbandonPass,
      tableVars, Human

\* A row that is not there yet stays at level 1.
LEMMA BornAtOneKept ==
  ASSUME CalmInv, [Next]_vars
  PROVE  BornAtOne'
<1> SUFFICES ASSUME NEW i \in Incident, row'[i].status = "none"
             PROVE  row'[i].level = 1
  BY DEF BornAtOne
<1>1. row[i].status = "none"
  BY RowsStay DEF CalmInv
<1>2. ~Opens(i) /\ ~Closes(i)
  BY <1>1 DEF Opens, Closes
<1>3. ~Rewritten(i)
  BY <1>1 DEF Rewritten, CalmInv, FrameInv, Found
<1>4. row'[i].level = row[i].level
  BY <1>1, <1>2, <1>3, RowStep DEF CalmInv
<1>5. QED
  BY <1>1, <1>4 DEF CalmInv, BornAtOne

\* The invariant is inductive.
LEMMA CalmInvStep == CalmInv /\ [Next]_vars => CalmInv'
<1> SUFFICES ASSUME CalmInv, [Next]_vars
             PROVE  CalmInv'
  OBVIOUS
<1>1. FrameInv' /\ TypeOK /\ TypeOK'
  BY FrameInvStep DEF CalmInv, FrameInv
<1>2. ReceiverActive'
  BY <1>1, ReceiverActiveStep DEF CalmInv
<1>3. ASSUME NEW i \in Incident, i \notin disturbed'
      PROVE  Calm(i)'
  <2>1. Calm(i)
    BY <1>3, StaysDisturbed DEF CalmInv
  <2>2. Moves(i)
    BY <1>3, PassStep, OtherStep DEF CalmInv, Moves
  <2>3. Alone(i)' /\ InStep(i)'
    BY <1>1, <2>1, <2>2, AloneKept, InStepKept DEF Calm
  <2>4. Sent(i)' /\ Entered(i)'
    BY <1>1, <2>1, <2>2, SentKept, EnteredKept DEF Calm
  <2>5. Behind(i)'
    BY <1>1, <2>1, <2>2, Grows, BehindKept DEF Calm
  <2>6. QED
    BY <2>3, <2>4, <2>5 DEF Calm
<1>4. QED
  BY <1>1, <1>2, <1>3, BornAtOneKept DEF CalmInv

\* At the start no incident is anywhere.
LEMMA CalmInvInit == Init => CalmInv
<1> SUFFICES ASSUME Init
             PROVE  CalmInv
  OBVIOUS
<1>1. FrameInv
  BY FrameInvInit
<1>2. ReceiverActive /\ BornAtOne
  BY DEF Init, ReceiverActive, BornAtOne, NoRow
<1>3. ASSUME NEW i \in Incident
      PROVE  Calm(i)
  <2>1. \A w \in Worker : Place(w, i) = "away"
    BY DEF Init, Place, Scanning
  <2>2. row[i].status = "none" /\ log[i] = {} /\ \A l \in Level : notices[i][l] = 0
    BY DEF Init, NoRow
  <2>3. \A r \in Receiver : receiver[r].at = "idle"
    BY DEF Init
  <2>4. QED
    BY <2>1, <2>2, <2>3 DEF Calm, Alone, InStep, Behind, Sent, Entered, Escalated
<1>4. QED
  BY <1>1, <1>2, <1>3 DEF CalmInv

LEMMA CalmInvHolds == Spec => []CalmInv
BY CalmInvInit, CalmInvStep, PTL DEF Spec

\* A level is notified once, unless two passes had the incident in their lists
\* at the same time, a save of the whole row took back a level it had reached,
\* or a pass failed between the messages and their entry: for any number of
\* passes, operators, faults and edits.
THEOREM NotifiesOnce == Spec => []NotifiedOnce
<1>1. CalmInv => NotifiedOnce
  <2> SUFFICES ASSUME CalmInv, NEW i \in Incident, NEW l \in Level, notices[i][l] > 1,
                      i \notin disturbed
               PROVE  FALSE
    BY DEF NotifiedOnce
  <2>1. notices[i][l] <= 1 /\ notices[i][l] \in 0..2
    BY LevelTypes DEF CalmInv, FrameInv, Calm, Sent, MaxNotices
  <2>2. QED
    BY <2>1
<1>2. QED
  BY <1>1, CalmInvHolds, PTL

\* A level that an incident was escalated to and has left, or expired at, was
\* notified, with the same exceptions.
THEOREM EnteredLevelsNotified == Spec => []EnteredLevelNotified
<1>1. CalmInv => EnteredLevelNotified
  <2> SUFFICES ASSUME CalmInv, NEW i \in Incident, NEW l \in Level, Escalated(i, l),
                      row[i].level > l \/ row[i].status = "expired", i \notin disturbed
               PROVE  notices[i][l] >= 1
    BY DEF EnteredLevelNotified, Escalated
  <2>1. InStep(i) /\ Entered(i) /\ TypeOK
    BY DEF CalmInv, FrameInv, Calm
  <2>2. ASSUME NEW w \in Worker, Place(w, i) \in {"raise", "notify"}, Lvl(w, i) = l
        PROVE  FALSE
    <3>1. row[i].status # "expired"
      BY <2>1, <2>2 DEF Entered
    <3>2. Lvl(w, i) >= row[i].level
      BY <2>1, <2>2, LevelTypes, BoundAssumption DEF InStep, Level
    <3>3. row[i].level \in Int /\ l \in Int
      BY <2>1, LevelTypes, BoundAssumption DEF Level
    <3>4. QED
      BY <2>2, <3>1, <3>2, <3>3
  <2>3. QED
    BY <2>1, <2>2 DEF Entered
<1>2. QED
  BY <1>1, CalmInvHolds, PTL

\* Every incident opens once at level 1, climbs while it is undisturbed, and is
\* closed at the level it reached; only a save of the whole row opens it again
\* or takes back its level.
THEOREM LifecyclesKept == Spec => LifecycleKept
<1>1. ASSUME CalmInv, [Next]_vars, NEW i \in Incident
      PROVE  \/ Opens(i) \/ Climbs(i) \/ Closes(i)
             \/ row'[i].status = row[i].status /\ row'[i].level = row[i].level
             \/ Rewritten(i)
             \/ row'[i].status = row[i].status /\ i \in disturbed
  <2>1. ASSUME NEW w \in Worker, SaveLevel(w), i = Current(w), i \notin disturbed,
               row'[i].status = row[i].status
        PROVE  Climbs(i)
    <3>1. TypeOK /\ InStep(i) /\ todo[w] # {} /\ at[w] = "raise"
      BY <1>1, <2>1 DEF CalmInv, FrameInv, Calm, SaveLevel, Ready
    <3>2. Current(w) \in todo[w]
      BY <3>1, HeldType
    <3>3. Place(w, i) = "raise"
      BY <2>1, <3>1, <3>2 DEF Place, Scanning
    <3>4. row'[i].level = Lvl(w, i) /\ Lvl(w, i) > row[i].level
      BY <2>1, <3>1, <3>3, PassRaises DEF InStep
    <3>5. QED
      BY <2>1, <3>4 DEF Climbs
  <2>2. QED
    BY <1>1, <2>1, RowStep DEF CalmInv
<1>2. CalmInv /\ [Next]_vars => [\A i \in Incident :
        \/ Opens(i) \/ Climbs(i) \/ Closes(i)
        \/ row'[i].status = row[i].status /\ row'[i].level = row[i].level
        \/ Rewritten(i)
        \/ row'[i].status = row[i].status /\ i \in disturbed]_row
  BY <1>1
<1>3. QED
  BY <1>2, CalmInvHolds, PTL DEF Spec, LifecycleKept

=============================================================================
