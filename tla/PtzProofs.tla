----------------------------- MODULE PtzProofs -----------------------------
(***************************************************************************)
(* One run at a time turns the camera, and in the order of the patrol, for *)
(* any number of overlapping runs, presets, requests and faults.           *)
(***************************************************************************)
EXTENDS Ptz, TLAPS

Working == [pc : {"try", "forget", "ask", "go", "save"}, order : Orders, cur : Nat]

\* What TypeOK says of the state of the patrols.
PatrolsTyped ==
  /\ order \in Orders /\ index \in Nat /\ disturbed \in Disturbance
  /\ job \in [Runs -> {Idle} \union Working]

\* A run past the lock still holds it, until a lock lapses under a live run.
HoldersHold == disturbed = "lapsed" \/ \A r \in Runs : Past(r) => lock = r

MoverInv == PatrolsTyped /\ HoldersHold

----------------------------------------------------------------------------
\* The remainder by the length of an order is an index into it.
LEMMA RemainderTyped ==
  ASSUME NEW o \in Orders, NEW n \in Nat
  PROVE  n % Len(o) \in Nat
<1>1. o \in Seq(Presets) /\ o # <<>>
  BY OrdersNamePresets
<1>2. Len(o) \in Nat /\ Len(o) > 0
  BY <1>1
<1> QED
  BY <1>2

\* An index into an order stays what it is when it is reduced again.
LEMMA RemainderReduced ==
  ASSUME NEW o \in Orders, NEW n \in Nat
  PROVE  (n % Len(o)) % Len(o) = n % Len(o)
<1>1. o \in Seq(Presets) /\ o # <<>>
  BY OrdersNamePresets
<1>2. Len(o) \in Nat /\ Len(o) > 0
  BY <1>1
<1>3. \A m \in Nat, k \in Nat : k > 0 => m % k \in Nat /\ m % k < k
  OBVIOUS
<1>4. \A m \in Nat, k \in Nat : m < k => m % k = m
  OBVIOUS
<1> QED
  BY <1>2, <1>3, <1>4

\* A run that is not idle has an order and a place in it.
LEMMA WorkingTyped ==
  ASSUME PatrolsTyped, NEW r \in Runs, job[r].pc # "idle"
  PROVE  job[r] \in Working
BY DEF PatrolsTyped, Idle

\* The invariant holds at first: nobody is past the lock.
LEMMA MoverInit == Init => MoverInv
<1> SUFFICES ASSUME Init
             PROVE  MoverInv
  OBVIOUS
<1>1. PatrolsTyped
  BY DEF Init, PatrolsTyped, Disturbance
<1>2. \A r \in Runs : ~Past(r)
  BY DEF Init, Past, Idle
<1> QED
  BY <1>1, <1>2 DEF MoverInv, HoldersHold

\* Steps of the camera, of operators and of the bridge, that leave the runs
\* and the lock alone, keep the invariant.
LEMMA RunsUntouched ==
  ASSUME MoverInv, UNCHANGED <<job, lock, disturbed>>, order' \in Orders, index' \in Nat
  PROVE  MoverInv'
BY DEF MoverInv, PatrolsTyped, HoldersHold, Past

\* A run whose step is not past the lock is one more that may hold no lock.
LEMMA StaysOutKeeps ==
  ASSUME MoverInv, NEW r \in Runs, NEW j \in {Idle} \union Working,
         j.pc \in {"idle", "try", "forget"}, job' = [job EXCEPT ![r] = j],
         UNCHANGED <<lock, order>>, index' \in Nat, disturbed' \in Disturbance,
         disturbed = "lapsed" => disturbed' = "lapsed"
  PROVE  MoverInv'
<1>1. PatrolsTyped'
  BY DEF MoverInv, PatrolsTyped
<1>2. \A s \in Runs : job'[s] = IF s = r THEN j ELSE job[s]
  BY DEF MoverInv, PatrolsTyped
<1>3. \A s \in Runs : Past(s)' => Past(s)
  BY <1>2 DEF Past
<1> QED
  BY <1>1, <1>3 DEF MoverInv, HoldersHold

\* A run that ends, with its lock given back or left, keeps the invariant: it
\* was the only one past the lock.
LEMMA EndKeeps ==
  ASSUME MoverInv, NEW r \in Runs, Past(r), End(r),
         lock' \in {lock, None}, order' = order, index' \in Nat
  PROVE  MoverInv' /\ \A s \in Runs : job'[s] = IF s = r THEN Idle ELSE job[s]
<1>1. \A s \in Runs : job'[s] = IF s = r THEN Idle ELSE job[s]
  BY DEF MoverInv, PatrolsTyped, End
<1>2. PatrolsTyped'
  <2>1. disturbed' \in Disturbance
    BY DEF MoverInv, PatrolsTyped, End, Disturbance
  <2> QED
    BY <2>1 DEF MoverInv, PatrolsTyped, End
<1>3. \A s \in Runs : Past(s)' => s # r /\ Past(s)
  BY <1>1 DEF Past, Idle
<1>4. HoldersHold'
  <2>1. CASE disturbed = "lapsed" /\ \E s \in Runs \ {r} : Past(s)
    BY <2>1 DEF End, HoldersHold
  <2>2. CASE ~\E s \in Runs \ {r} : Past(s)
    BY <1>3, <2>2 DEF HoldersHold
  <2>3. CASE disturbed # "lapsed"
    <3>1. \A s \in Runs : Past(s) => s = r
      BY <2>3 DEF MoverInv, HoldersHold
    <3> QED
      BY <1>3, <3>1 DEF HoldersHold
  <2> QED
    BY <2>1, <2>2, <2>3
<1> QED
  BY <1>1, <1>2, <1>4 DEF MoverInv

\* A run that goes on to its next step keeps the lock it had.
LEMMA GoesOnKeeps ==
  ASSUME MoverInv, NEW r \in Runs, Past(r),
         UNCHANGED <<lock, disturbed, order, index>>,
         NEW pc \in {"go", "save"}, NEW cur \in Nat,
         job' = [job EXCEPT ![r].pc = pc, ![r].cur = cur]
  PROVE  MoverInv'
<1>1. job[r] \in Working
  BY WorkingTyped DEF MoverInv, Past
<1>2. PatrolsTyped'
  BY <1>1 DEF MoverInv, PatrolsTyped, Working
<1>3. \A s \in Runs : Past(s)' => Past(s)
  BY DEF Past, MoverInv, PatrolsTyped
<1> QED
  BY <1>2, <1>3 DEF MoverInv, HoldersHold

\* A lock is taken only when nobody holds it.
LEMMA TakeLockKeeps ==
  ASSUME MoverInv, NEW r \in Runs, TakeLock(r)
  PROVE  MoverInv'
<1>1. job[r] \in Working /\ order' = order /\ index' \in Nat
  BY WorkingTyped DEF TakeLock, MoverInv, PatrolsTyped, patrols
<1>2. CASE lock = None
  <2>1. job' = [job EXCEPT ![r].pc = "ask"] /\ lock' = r /\ disturbed' = disturbed
    BY <1>2 DEF TakeLock
  <2>2. PatrolsTyped'
    BY <1>1, <2>1 DEF MoverInv, PatrolsTyped, Working
  <2>3. disturbed = "lapsed" \/ \A s \in Runs : ~Past(s)
    BY <1>2, PresetsNumbered DEF MoverInv, HoldersHold
  <2>4. \A s \in Runs : s # r => Past(s)' = Past(s)
    BY <2>1 DEF Past, MoverInv, PatrolsTyped
  <2> QED
    BY <2>1, <2>2, <2>3, <2>4 DEF MoverInv, HoldersHold
<1>3. CASE lock # None
  <2>1. job' = [job EXCEPT ![r] = Idle] /\ UNCHANGED <<lock, disturbed>>
    BY <1>3 DEF TakeLock
  <2>2. Idle.pc = "idle"
    BY DEF Idle
  <2> QED
    BY <1>1, <2>1, <2>2, StaysOutKeeps DEF MoverInv, PatrolsTyped
<1> QED
  BY <1>2, <1>3

\* A run reads the row, or is out of hours, without the lock.
LEMMA OutsideKeeps ==
  ASSUME MoverInv, NEW r \in Runs, Read(r) \/ OutOfHours(r)
  PROVE  MoverInv'
<1>1. CASE Read(r)
  <2> DEFINE j == [pc |-> IF inHours THEN "try" ELSE "forget", order |-> order, cur |-> 0]
  <2>1. j \in Working /\ j.pc \in {"try", "forget"}
    BY DEF MoverInv, PatrolsTyped, Working
  <2>2. /\ job' = [job EXCEPT ![r] = j]
        /\ UNCHANGED <<lock, order, index, disturbed>>
    BY <1>1 DEF Read, patrols, keys
  <2> HIDE DEF j
  <2> QED
    BY <2>1, <2>2, StaysOutKeeps DEF MoverInv, PatrolsTyped
<1>2. CASE OutOfHours(r)
  <2>1. job' = [job EXCEPT ![r] = Idle] /\ UNCHANGED <<lock, order>> /\ index' \in Nat
    BY <1>2 DEF OutOfHours, patrols
  <2>2. disturbed' \in Disturbance /\ (disturbed = "lapsed" => disturbed' = "lapsed")
    BY <1>2 DEF OutOfHours, MoverInv, PatrolsTyped, Disturbance
  <2>3. Idle.pc = "idle"
    BY DEF Idle
  <2> QED
    BY <2>1, <2>2, <2>3, StaysOutKeeps
<1> QED
  BY <1>1, <1>2

\* A run asks and sends under its lock.
LEMMA AskAndGoKeep ==
  ASSUME MoverInv, NEW r \in Runs, Ask(r) \/ Go(r)
  PROVE  MoverInv'
<1>1. Past(r) /\ UNCHANGED <<order, index>> /\ job[r] \in Working /\ index \in Nat
  BY WorkingTyped DEF Ask, Go, Past, patrols, MoverInv, PatrolsTyped
<1>2. CASE Release(r)
  BY <1>1, <1>2, EndKeeps DEF Release
<1>3. CASE /\ job' = [job EXCEPT ![r].pc = "go", ![r].cur = index % Len(job[r].order)]
           /\ UNCHANGED <<lock, disturbed>>
  <2>1. index % Len(job[r].order) \in Nat
    BY <1>1, RemainderTyped DEF Working
  <2> QED
    BY <1>1, <1>3, <2>1, GoesOnKeeps
<1>4. CASE job' = [job EXCEPT ![r].pc = "save"] /\ UNCHANGED <<lock, disturbed>>
  <2>1. job' = [job EXCEPT ![r].pc = "save", ![r].cur = job[r].cur] /\ job[r].cur \in Nat
    BY <1>1, <1>4 DEF MoverInv, PatrolsTyped, Working
  <2> QED
    BY <1>1, <1>4, <2>1, GoesOnKeeps
<1> QED
  BY <1>2, <1>3, <1>4 DEF Ask, Go

\* What a run leaves of its keys when it ends is an index.
LEMMA EndsKeep ==
  ASSUME MoverInv, NEW r \in Runs,
         \/ SaveIndex(r) \/ GoUnanswered(r) \/ SaveIndexFails(r) \/ Die(r)
  PROVE  /\ MoverInv' /\ Past(r) /\ End(r) /\ job[r] \in Working
         /\ \A s \in Runs : job'[s] = IF s = r THEN Idle ELSE job[s]
<1>1. Past(r) /\ End(r) /\ order' = order /\ lock' \in {lock, None}
  BY DEF SaveIndex, GoUnanswered, SaveIndexFails, Die, Release, Past, patrols, keys
<1>2. job[r] \in Working
  BY <1>1, WorkingTyped DEF MoverInv, Past
<1>3. (job[r].cur + 1) % Len(job[r].order) \in Nat
  <2>1. job[r].order \in Orders /\ job[r].cur + 1 \in Nat
    BY <1>2 DEF Working
  <2> QED
    BY <2>1, RemainderTyped
<1>4. index' \in Nat
  BY <1>3 DEF SaveIndex, GoUnanswered, SaveIndexFails, Die, keys, MoverInv, PatrolsTyped
<1> QED
  BY <1>1, <1>2, <1>4, EndKeeps

\* A lock that expires was nobody's, or it has lapsed under a run.
LEMMA ExpireKeeps ==
  ASSUME MoverInv, Expire
  PROVE  MoverInv'
<1>1. PatrolsTyped'
  BY DEF Expire, MoverInv, PatrolsTyped, patrols, Disturbance
<1>2. CASE Orphaned
  <2>1. disturbed = "lapsed" \/ \A s \in Runs : ~Past(s)
    BY <1>2 DEF Orphaned, MoverInv, HoldersHold
  <2> QED
    BY <1>1, <1>2, <2>1 DEF Expire, MoverInv, HoldersHold, Past
<1>3. CASE ~Orphaned
  BY <1>1, <1>3 DEF Expire, MoverInv, HoldersHold
<1> QED
  BY <1>2, <1>3

\* The requests of operators change neither the runs nor the keys.
LEMMA RequestsLeave ==
  ASSUME MoverInv,
         \/ Move \/ Stop \/ SavePatrol \/ TogglePatrol \/ DeletePatrol
         \/ ScheduleTurns \/ \E p \in Presets : OfPreset(p)
  PROVE  Operators /\ order' \in Orders
<1>1. Operators
  BY DEF Move, Stop, SavePatrol, TogglePatrol, DeletePatrol, ScheduleTurns,
         OfPreset, GotoPreset, SetPreset, RemovePreset, SaveShapes,
         CaptureSnapshot, GotoAndApply
<1>2. order' \in Orders
  BY DEF Move, Stop, SavePatrol, TogglePatrol, DeletePatrol, ScheduleTurns,
         OfPreset, GotoPreset, SetPreset, RemovePreset, SaveShapes,
         CaptureSnapshot, GotoAndApply, patrols, MoverInv, PatrolsTyped
<1> QED
  BY <1>1, <1>2

\* Every step of runs, locks and requests keeps the invariant.
LEMMA MoverStep == MoverInv /\ [Next]_vars => MoverInv'
<1> SUFFICES ASSUME MoverInv, [Next]_vars
             PROVE  MoverInv'
  OBVIOUS
<1>1. CASE Arrive \/ LinkChanges \/ DwellOver \/ Publish \/ Lapse \/ RefreshPresets
  <2>1. UNCHANGED <<job, lock, disturbed, order, index>>
    BY <1>1 DEF Arrive, LinkChanges, DwellOver, Publish, Lapse, RefreshPresets, keys, patrols
  <2> QED
    BY <2>1, RunsUntouched DEF MoverInv, PatrolsTyped
<1>2. CASE Expire
  BY <1>2, ExpireKeeps
<1>3. ASSUME NEW r \in Runs, Read(r) \/ RunSteps(r) \/ Failures(r)
      PROVE  MoverInv'
  BY <1>3, TakeLockKeeps, OutsideKeeps, AskAndGoKeep, EndsKeep DEF RunSteps, Failures
<1>4. CASE \/ Move \/ Stop \/ SavePatrol \/ TogglePatrol \/ DeletePatrol
           \/ ScheduleTurns \/ \E p \in Presets : OfPreset(p)
  <2>1. UNCHANGED <<job, lock, disturbed, index>> /\ order' \in Orders
    BY <1>4, RequestsLeave DEF Operators, keys
  <2> QED
    BY <2>1, RunsUntouched DEF MoverInv, PatrolsTyped
<1>5. CASE UNCHANGED vars
  BY <1>5, RunsUntouched DEF vars, keys, patrols, MoverInv, PatrolsTyped
<1> QED
  BY <1>1, <1>2, <1>3, <1>4, <1>5 DEF Next

\* The camera's lock keeps all runs of patrol_controller but one away from it,
\* however many beat has queued, through deaths, lost answers and failures of
\* Redis, unless it lapsed under a run that is still on.
THEOREM OneMoverAlways == Spec => []OneMover
<1>1. MoverInv => OneMover
  BY DEF MoverInv, HoldersHold, OneMover
<1> QED
  BY <1>1, MoverInit, MoverStep, PTL DEF Spec

----------------------------------------------------------------------------
(* The order of the patrol.                                                *)

\* What a patrol sent last, if the keys are known to follow from it.
LastTyped == last = None \/ last \in [order : Orders, cur : Nat, noted : BOOLEAN]

\* The index is that of the next preset, or still that of the last one sent.
IndexFollows == last # None => index % Len(last.order) = Expected(last)

\* A run that has read the index has the preset it names, and one that has sent
\* a preset was the last to send one.
RunFollows(r) ==
  /\ job[r].pc = "go" => job[r].cur = index % Len(job[r].order)
  /\ job[r].pc = "save" /\ last # None =>
       last.order = job[r].order /\ last.cur = job[r].cur /\ last.noted = FALSE

OrderInv ==
  /\ MoverInv /\ LastTyped /\ IndexFollows
  /\ disturbed = "no" => \A r \in Runs : RunFollows(r)

\* The runs, the index and what was sent last are left alone.
LEMMA OrderUntouched ==
  ASSUME OrderInv, MoverInv', UNCHANGED <<job, index, last>>,
         disturbed' = "no" => disturbed = "no"
  PROVE  OrderInv'
BY DEF OrderInv, LastTyped, IndexFollows, RunFollows, Expected, Successor

\* Until the lock lapses, a run past it is the only one there.
LEMMA Alone ==
  ASSUME MoverInv, disturbed # "lapsed", NEW r \in Runs, Past(r)
  PROVE  \A s \in Runs : s # r => ~Past(s)
BY DEF MoverInv, HoldersHold

\* A run that is not past the lock has no place to follow from.
LEMMA OutsideFollows ==
  ASSUME NEW s \in Runs, ~Past(s)
  PROVE  RunFollows(s)
BY DEF Past, RunFollows

\* A run that ends leaves nobody past the lock, or a disturbed patrol.
LEMMA EndFollows ==
  ASSUME MoverInv, NEW r \in Runs, Past(r), End(r), disturbed' = "no",
         \A s \in Runs : job'[s] = IF s = r THEN Idle ELSE job[s]
  PROVE  \A s \in Runs : RunFollows(s)'
<1>1. \A s \in Runs : s # r => ~Past(s)
  <2>1. CASE disturbed = "no"
    BY <2>1, Alone
  <2>2. CASE disturbed # "no"
    BY <2>2 DEF End
  <2> QED
    BY <2>1, <2>2
<1>2. \A s \in Runs : job'[s].pc \notin {"go", "save"}
  BY <1>1 DEF Past, Idle, MoverInv
<1> QED
  BY <1>2 DEF RunFollows

\* A run that has not reached the lock, and leaves the index, disturbs nothing.
LEMMA OutsideInOrder ==
  ASSUME OrderInv, MoverInv', NEW r \in Runs, Read(r) \/ TakeLock(r)
  PROVE  OrderInv'
<1>1. UNCHANGED <<index, last, disturbed>> /\ job[r].pc # "save"
  BY DEF Read, TakeLock, keys, Idle
<1>2. \A s \in Runs : s # r => job'[s] = job[s]
  BY DEF Read, TakeLock, OrderInv, MoverInv, PatrolsTyped
<1>3. job'[r].pc \notin {"go", "save"}
  <2>1. job \in [Runs -> {Idle} \union Working]
    BY DEF OrderInv, MoverInv, PatrolsTyped
  <2>2. CASE Read(r)
    BY <2>1, <2>2 DEF Read
  <2>3. CASE TakeLock(r)
    <3>1. job[r] \in Working
      BY <2>3, WorkingTyped DEF TakeLock, OrderInv, MoverInv
    <3> QED
      BY <2>1, <2>3, <3>1 DEF TakeLock, Idle, Working
  <2> QED
    BY <2>2, <2>3
<1>4. LastTyped' /\ IndexFollows'
  BY <1>1 DEF OrderInv, LastTyped, IndexFollows, Expected, Successor
<1>5. (\A s \in Runs : RunFollows(s)) => \A s \in Runs : RunFollows(s)'
  BY <1>1, <1>2, <1>3 DEF RunFollows
<1> QED
  BY <1>1, <1>4, <1>5 DEF OrderInv

\* The hours end: the history begins anew, and a run past the lock is disturbed.
LEMMA OutOfHoursInOrder ==
  ASSUME OrderInv, MoverInv', NEW r \in Runs, OutOfHours(r)
  PROVE  OrderInv'
<1>1. last' = None /\ job' = [job EXCEPT ![r] = Idle]
  BY DEF OutOfHours
<1>2. \A s \in Runs : job'[s] = IF s = r THEN Idle ELSE job[s]
  BY <1>1 DEF OrderInv, MoverInv, PatrolsTyped
<1>3. disturbed' = "no" => \A s \in Runs : ~Past(s)
  BY DEF OutOfHours
<1>4. disturbed' = "no" => \A s \in Runs : RunFollows(s)'
  <2> SUFFICES ASSUME disturbed' = "no", NEW s \in Runs
               PROVE  job'[s].pc \notin {"go", "save"}
    BY DEF RunFollows
  <2> QED
    BY <1>2, <1>3 DEF Past, Idle
<1> QED
  BY <1>1, <1>4 DEF OrderInv, LastTyped, IndexFollows

\* The place a run takes is the one the index names.
LEMMA AskInOrder ==
  ASSUME OrderInv, MoverInv', NEW r \in Runs, Ask(r)
  PROVE  OrderInv'
<1>1. UNCHANGED <<index, last, order>> /\ Past(r) /\ job[r].pc = "ask" /\ MoverInv
  BY DEF Ask, Past, OrderInv, patrols
<1>2. LastTyped' /\ IndexFollows'
  BY <1>1 DEF OrderInv, LastTyped, IndexFollows, Expected, Successor
<1>3. CASE Release(r)
  <2>1. \A s \in Runs : job'[s] = IF s = r THEN Idle ELSE job[s]
    BY <1>1, <1>3 DEF Release, End, MoverInv, PatrolsTyped
  <2> QED
    BY <1>1, <1>2, <1>3, <2>1, EndFollows DEF Release, OrderInv
<1>4. CASE /\ job' = [job EXCEPT ![r].pc = "go", ![r].cur = index % Len(job[r].order)]
           /\ UNCHANGED <<lock, disturbed>>
  <2>1. job[r] \in Working
    BY <1>1, WorkingTyped DEF MoverInv
  <2>2. /\ job'[r].pc = "go" /\ job'[r].order = job[r].order
        /\ job'[r].cur = index % Len(job[r].order)
        /\ \A s \in Runs : s # r => job'[s] = job[s]
    BY <1>4, <2>1 DEF MoverInv, PatrolsTyped, Working, OrderInv
  <2>3. (\A s \in Runs : RunFollows(s)) => \A s \in Runs : RunFollows(s)'
    BY <1>1, <2>2 DEF RunFollows
  <2> QED
    BY <1>2, <1>4, <2>3 DEF OrderInv
<1> QED
  BY <1>3, <1>4 DEF Ask

\* What has just been sent is what the index names.
LEMMA SentFollows ==
  ASSUME OrderInv, NEW r \in Runs, job[r].pc = "go", Sent(r), index' = index
  PROVE  /\ LastTyped' /\ IndexFollows'
         /\ last' # None => /\ last'.order = job[r].order /\ last'.cur = job[r].cur
                            /\ last'.noted = FALSE
<1>1. job[r] \in Working
  BY WorkingTyped DEF OrderInv, MoverInv
<1>2. CASE disturbed = "no"
  <2>1. last' = [order |-> job[r].order, cur |-> job[r].cur, noted |-> FALSE]
    BY <1>2 DEF Sent
  <2>2. job[r].cur = index % Len(job[r].order)
    BY <1>2 DEF OrderInv, RunFollows
  <2>3. LastTyped'
    BY <1>1, <2>1 DEF LastTyped, Working
  <2>4. IndexFollows'
    BY <2>1, <2>2 DEF IndexFollows, Expected
  <2> QED
    BY <2>1, <2>3, <2>4
<1>3. CASE disturbed # "no"
  BY <1>3 DEF Sent, LastTyped, IndexFollows
<1> QED
  BY <1>2, <1>3

\* What it sends is what it took, and the next run will follow from it.
LEMMA GoInOrder ==
  ASSUME OrderInv, MoverInv', NEW r \in Runs, Go(r)
  PROVE  OrderInv'
<1>1. index' = index /\ Past(r) /\ job[r].pc = "go" /\ MoverInv
  BY DEF Go, Past, OrderInv
<1>2. CASE Release(r) /\ last' = last
  <2>1. LastTyped' /\ IndexFollows'
    BY <1>1, <1>2 DEF OrderInv, LastTyped, IndexFollows, Expected, Successor
  <2>2. \A s \in Runs : job'[s] = IF s = r THEN Idle ELSE job[s]
    BY <1>2 DEF Release, End, OrderInv, MoverInv, PatrolsTyped
  <2> QED
    BY <1>1, <1>2, <2>1, <2>2, EndFollows DEF Release, OrderInv
<1>3. CASE Sent(r) /\ job' = [job EXCEPT ![r].pc = "save"] /\ UNCHANGED <<lock, disturbed>>
  <2>1. job[r] \in Working
    BY <1>1, WorkingTyped DEF MoverInv
  <2>2. /\ job'[r].pc = "save" /\ job'[r].order = job[r].order /\ job'[r].cur = job[r].cur
        /\ \A s \in Runs : s # r => job'[s] = job[s]
    BY <1>3, <2>1 DEF OrderInv, MoverInv, PatrolsTyped, Working
  <2>3. LastTyped' /\ IndexFollows'
    BY <1>1, <1>3, SentFollows
  <2>4. RunFollows(r)'
    BY <1>1, <1>3, <2>2, SentFollows DEF RunFollows
  <2>5. disturbed = "no" => \A s \in Runs : s # r => ~Past(s)
    BY <1>1, Alone
  <2>6. disturbed' = "no" => \A s \in Runs : RunFollows(s)'
    BY <1>3, <2>2, <2>4, <2>5 DEF RunFollows, Past
  <2> QED
    BY <2>3, <2>6 DEF OrderInv
<1> QED
  BY <1>2, <1>3 DEF Go

\* A run that ends keeps what its keys say in line with what was sent last.
LEMMA EndsInOrder ==
  ASSUME OrderInv, MoverInv', NEW r \in Runs, LastTyped', IndexFollows',
         \/ SaveIndex(r) \/ GoUnanswered(r) \/ SaveIndexFails(r) \/ Die(r)
  PROVE  OrderInv'
BY EndsKeep, EndFollows DEF OrderInv

\* The index saved is the one after the preset last sent.
LEMMA NotedFollows ==
  ASSUME OrderInv, NEW r \in Runs, job[r].pc = "save", Noted,
         index' = (job[r].cur + 1) % Len(job[r].order)
  PROVE  LastTyped' /\ IndexFollows'
<1>1. CASE disturbed = "no" /\ last # None
  <2>1. /\ last' = [last EXCEPT !.noted = TRUE]
        /\ last \in [order : Orders, cur : Nat, noted : BOOLEAN]
    BY <1>1 DEF Noted, OrderInv, LastTyped
  <2>2. last.order = job[r].order /\ last.cur = job[r].cur
    BY <1>1 DEF OrderInv, RunFollows
  <2>3. /\ last' \in [order : Orders, cur : Nat, noted : BOOLEAN]
        /\ last'.noted = TRUE /\ last'.order = last.order /\ last'.cur = last.cur
    BY <2>1
  <2>4. LastTyped'
    BY <2>3 DEF LastTyped
  <2>5. index' % Len(last.order) = index'
    <3>1. last.cur + 1 \in Nat /\ last.order \in Orders
      BY <2>1
    <3> QED
      BY <2>2, <3>1, RemainderReduced
  <2>6. IndexFollows'
    BY <2>2, <2>3, <2>5 DEF IndexFollows, Expected, Successor
  <2> QED
    BY <2>4, <2>6
<1>2. CASE ~(disturbed = "no" /\ last # None)
  BY <1>2 DEF Noted, LastTyped, IndexFollows
<1> QED
  BY <1>1, <1>2

\* And every step keeps the index and the runs in line with the last preset sent.
LEMMA OrderStep == OrderInv /\ [Next]_vars => OrderInv'
<1> SUFFICES ASSUME OrderInv, [Next]_vars
             PROVE  OrderInv'
  OBVIOUS
<1>1. MoverInv'
  BY MoverStep DEF OrderInv
<1>2. CASE \/ Arrive \/ LinkChanges \/ DwellOver \/ Publish \/ Lapse \/ RefreshPresets \/ Expire
  BY <1>1, <1>2, OrderUntouched
  DEF Arrive, LinkChanges, DwellOver, Publish, Lapse, RefreshPresets, Expire, keys
<1>3. ASSUME NEW r \in Runs, Read(r) \/ RunSteps(r) \/ Failures(r)
      PROVE  OrderInv'
  <2>1. CASE SaveIndex(r)
    BY <1>1, <2>1, NotedFollows, EndsInOrder DEF SaveIndex
  <2>2. CASE GoUnanswered(r)
    BY <1>1, <2>2, SentFollows, EndsInOrder DEF GoUnanswered
  <2>3. CASE SaveIndexFails(r)
    <3>1. CASE UNCHANGED <<index, last>>
      <4>1. LastTyped' /\ IndexFollows'
        BY <3>1 DEF OrderInv, LastTyped, IndexFollows, Expected, Successor
      <4> QED
        BY <1>1, <2>3, <4>1, EndsInOrder
    <3> QED
      BY <1>1, <2>3, <3>1, NotedFollows, EndsInOrder DEF SaveIndexFails
  <2>4. CASE Die(r)
    <3>1. LastTyped' /\ IndexFollows'
      BY <2>4 DEF Die, keys, OrderInv, LastTyped, IndexFollows, Expected, Successor
    <3> QED
      BY <1>1, <2>4, <3>1, EndsInOrder
  <2> QED
    BY <1>1, <1>3, <2>1, <2>2, <2>3, <2>4, OutsideInOrder, OutOfHoursInOrder, AskInOrder,
       GoInOrder DEF RunSteps, Failures
<1>4. CASE \/ Move \/ Stop \/ SavePatrol \/ TogglePatrol \/ DeletePatrol
           \/ ScheduleTurns \/ \E p \in Presets : OfPreset(p)
  <2>1. Operators
    BY <1>4, RequestsLeave DEF OrderInv
  <2> QED
    BY <1>1, <2>1, OrderUntouched DEF Operators, keys
<1>5. CASE UNCHANGED vars
  BY <1>1, <1>5, OrderUntouched DEF vars, keys
<1> QED
  BY <1>2, <1>3, <1>4, <1>5 DEF Next

\* For any number of runs, orders and requests, a patrol sends the camera to
\* each preset after the one before it: the index survives calls that fail, lost
\* answers, failures of Redis and deaths, which at most repeat a preset.
THEOREM PatrolsInOrder == Spec => PatrolInOrder
<1>1. Init => OrderInv
  <2> SUFFICES ASSUME Init
               PROVE  OrderInv
    OBVIOUS
  <2>1. \A r \in Runs : job[r].pc = "idle"
    BY DEF Init, Idle
  <2>2. last = None
    BY DEF Init
  <2> QED
    BY <2>1, <2>2, MoverInit DEF OrderInv, LastTyped, IndexFollows, RunFollows
<1>2. OrderInv /\ [Next]_vars =>
        [\A r \in Runs :
           /\ Sends(r) /\ disturbed = "no"
           /\ last # None /\ last.order = job[r].order
           => job[r].cur = Expected(last)]_vars
  BY DEF OrderInv, RunFollows, IndexFollows, Sends
<1> QED
  BY <1>1, <1>2, OrderStep, PTL DEF Spec, PatrolInOrder
=============================================================================
