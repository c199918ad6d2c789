------------------------- MODULE DevicePathsProofs -------------------------
(***************************************************************************)
(* What the deletion of a device leaves behind, and what brings a device   *)
(* back, for any number of sessions, workers, addresses and profiles.      *)
(***************************************************************************)
EXTENDS DevicePaths, TLAPS

\* What TypeOK says of the row and its copies; and what a session saves was
\* there when it was read.
RowsTyped ==
  /\ row \in Rows /\ disturbed \in BOOLEAN /\ removed \in BOOLEAN
  /\ web \in [Session -> Sessions] /\ task \in [Running -> Tasks]
  /\ \A s \in Session : web[s].do \in Whole => web[s].copy.there

\* From the moment its paths are deleted until a session saves it again, a
\* device has neither paths nor a task that could add one, unless it is the
\* admin that deleted it.
Cleared == paths = NoPaths /\ ~Busy

DeletedClean == ~disturbed /\ (Clearing \/ (~row.there /\ ~removed)) => Cleared

PathsInv == RowsTyped /\ DeletedClean

----------------------------------------------------------------------------
\* A session holds a copy of a row, and so does a task.
LEMMA SessionCopy ==
  ASSUME RowsTyped, NEW s \in Session, web[s] # Idle
  PROVE  /\ web[s].do \in Whole \union Partial \union Deletes
         /\ web[s].at \in {"edit", "cleared", "save"}
         /\ web[s].copy \in Rows
         /\ web[s].at = "save" => web[s].do \notin Deletes
BY DEF RowsTyped, Sessions, Whole, Partial, Deletes

\* A task holds a copy of a row, and knows what it has left to do.
LEMMA TaskCopy ==
  ASSUME RowsTyped, NEW w \in Running, task[w] # Idle
  PROVE  /\ task[w].do \in {"refresh", "startup", "regenerate", "syncOne", "syncAll"}
         /\ task[w].at \in {"read", "ask", "store", "list", "raw", "add"}
         /\ task[w].copy \in Rows
         /\ task[w].at # "add" =>
              task[w] \in [do : {"refresh", "startup", "regenerate", "syncOne", "syncAll"},
                           at : {"read", "ask", "store", "list", "raw"}, copy : Rows]
         /\ task[w].at = "add" =>
              task[w] \in [do : {"refresh", "startup", "regenerate", "syncOne", "syncAll"},
                           at : {"add"}, copy : Rows, seen : SUBSET Token]
BY DEF RowsTyped, Tasks

\* At first nothing is under way.
LEMMA PathsInit == Init => PathsInv
<1> SUFFICES ASSUME Init
             PROVE  PathsInv
  OBVIOUS
<1>1. row \in Rows
  BY AddressGiven DEF Init, Rows
<1>2. RowsTyped
  BY <1>1 DEF Init, RowsTyped, Sessions, Tasks, Idle, Whole
<1>3. ~Clearing /\ row.there
  BY DEF Init, Clearing
<1> QED
  BY <1>2, <1>3 DEF PathsInv, DeletedClean

----------------------------------------------------------------------------
\* Sessions.

\* A session that begins writes nothing.
LEMMA OpenKeeps ==
  ASSUME PathsInv, NEW s \in Session, Open(s)
  PROVE  PathsInv'
<1>1. PICK do \in Whole \union Partial \union Deletes : \E c \in Edited(do) :
        web' = [web EXCEPT ![s] = [do |-> do, at |-> "edit", copy |-> c]]
  BY DEF Open
<1>2. PICK c \in Edited(do) :
        web' = [web EXCEPT ![s] = [do |-> do, at |-> "edit", copy |-> c]]
  BY <1>1
<1>3. row \in Rows /\ row.there
  BY DEF Open, PathsInv, RowsTyped
<1>4. c \in Rows /\ c.there
  BY <1>2, <1>3 DEF Edited, Rows
<1>5. [do |-> do, at |-> "edit", copy |-> c] \in Sessions
  BY <1>4 DEF Sessions
<1>6. RowsTyped'
  BY <1>2, <1>4, <1>5 DEF Open, PathsInv, RowsTyped
<1>7. Clearing' => Clearing
  BY <1>2 DEF Clearing, PathsInv, RowsTyped
<1> QED
  BY <1>6, <1>7 DEF Open, PathsInv, DeletedClean, Cleared, Busy

\* The signal before a save reads the row only.
LEMMA CompareKeeps ==
  ASSUME PathsInv, NEW s \in Session, Compare(s)
  PROVE  PathsInv'
<1> DEFINE new == [do |-> web[s].do, at |-> "save", copy |-> web[s].copy, was |-> row]
<1>1. web' = [web EXCEPT ![s] = new]
  BY DEF Compare, PathsInv, RowsTyped
<1>2. web[s] # Idle
  BY DEF Compare, Idle, Whole, Partial
<1>3. new \in Sessions
  <2>1. web[s].do \in Whole \union Partial /\ web[s].copy \in Rows /\ row \in Rows
    BY <1>2, SessionCopy DEF Compare, PathsInv, RowsTyped
  <2> QED
    BY <2>1 DEF Sessions
<1>4. RowsTyped'
  BY <1>1, <1>3 DEF Compare, PathsInv, RowsTyped
<1>5. Clearing' => Clearing
  BY <1>1 DEF Clearing, PathsInv, RowsTyped
<1> QED
  BY <1>4, <1>5 DEF Compare, PathsInv, DeletedClean, Cleared, Busy

\* A save of the whole row may bring it back; one of columns does not.
LEMMA SaveKeep ==
  ASSUME PathsInv, NEW s \in Session, SaveWhole(s) \/ SaveColumns(s) \/ SaveUnnoticed(s)
  PROVE  PathsInv'
<1>1. web' = [web EXCEPT ![s] = Idle] /\ UNCHANGED <<paths, task, disturbed, removed>>
  BY DEF SaveWhole, SaveColumns, SaveUnnoticed
<1>2. web[s] # Idle /\ row \in Rows
  <2>1. web[s].do \in Whole \union Partial
    BY DEF SaveWhole, SaveColumns, SaveUnnoticed
  <2>2. web[s] # Idle
    BY <2>1 DEF Idle, Whole, Partial
  <2> QED
    BY <2>2 DEF PathsInv, RowsTyped
<1>3. row' \in Rows /\ (row.there => row'.there)
  <2>1. CASE SaveWhole(s)
    BY <1>2, <2>1, SessionCopy DEF SaveWhole, PathsInv, RowsTyped
  <2>2. CASE SaveColumns(s)
    BY <1>2, <2>2 DEF SaveColumns, Rows
  <2>3. CASE SaveUnnoticed(s)
    <3>1. row' = row
          \/ (web[s].do \in Whole /\ row' = web[s].copy)
          \/ (row.there /\ row' = [row EXCEPT !.uris = Typed])
      BY <2>3 DEF SaveUnnoticed, Whole, Partial
    <3> QED
      BY <1>2, <3>1, SessionCopy DEF PathsInv, RowsTyped, Rows
  <2> QED
    BY <2>1, <2>2, <2>3
<1>4. RowsTyped'
  BY <1>1, <1>3 DEF PathsInv, RowsTyped, Sessions, Idle, Whole
<1>5. Clearing' => Clearing
  BY <1>1 DEF Clearing, PathsInv, RowsTyped
<1>6. Cleared => Cleared'
  BY <1>1 DEF Cleared, Busy
<1> QED
  BY <1>1, <1>3, <1>4, <1>5, <1>6 DEF PathsInv, DeletedClean

\* A deletion removes every path first; it is disturbed if it cannot, or if a
\* task is under way.
LEMMA ClearKeeps ==
  ASSUME PathsInv, NEW s \in Session, Clear(s)
  PROVE  PathsInv'
<1>1. web' = [web EXCEPT ![s] = [web[s] EXCEPT !.at = "cleared"]]
  BY DEF Clear, PathsInv, RowsTyped
<1>2. web[s] # Idle /\ web[s].do = "delete"
  BY DEF Clear, Idle
<1>3. [web[s] EXCEPT !.at = "cleared"] \in Sessions /\ [web[s] EXCEPT !.at = "cleared"].do = "delete"
  BY <1>2 DEF Sessions, PathsInv, RowsTyped, Whole, Partial, Deletes, Idle
<1>4. disturbed' \in BOOLEAN
  BY DEF Clear, Busy, PathsInv, RowsTyped
<1>5. RowsTyped'
  BY <1>1, <1>3, <1>4 DEF Clear, PathsInv, RowsTyped, Whole
<1>6. ~disturbed' => Cleared'
  BY DEF Clear, Cleared, Busy
<1> QED
  BY <1>5, <1>6 DEF PathsInv, DeletedClean

\* The row goes when its paths are gone.
LEMMA DeleteKeeps ==
  ASSUME PathsInv, NEW s \in Session, Delete(s)
  PROVE  PathsInv'
<1>1. web[s] # Idle /\ Clearing
  BY DEF Delete, Idle, Clearing
<1>2. row' \in Rows
  BY DEF Delete, PathsInv, RowsTyped, Rows
<1>3. disturbed' \in BOOLEAN
  BY DEF Delete, PathsInv, RowsTyped
<1>4. RowsTyped'
  BY <1>2, <1>3 DEF Delete, PathsInv, RowsTyped, Sessions, Idle, Whole
<1>5. ~disturbed' => Cleared'
  BY <1>1 DEF Delete, PathsInv, DeletedClean, Cleared, Busy
<1> QED
  BY <1>4, <1>5 DEF PathsInv, DeletedClean

\* The admin leaves the paths where they are.
LEMMA RemoveKeeps ==
  ASSUME PathsInv, NEW s \in Session, Remove(s)
  PROVE  PathsInv'
<1>1. row' \in Rows /\ removed' = TRUE
  BY DEF Remove, PathsInv, RowsTyped, Rows
<1>2. RowsTyped'
  BY <1>1 DEF Remove, PathsInv, RowsTyped, Sessions, Idle, Whole
<1>3. Clearing' => Clearing
  BY DEF Remove, Clearing, PathsInv, RowsTyped
<1>4. Cleared => Cleared'
  BY DEF Remove, Cleared, Busy
<1> QED
  BY <1>1, <1>2, <1>3, <1>4 DEF Remove, PathsInv, DeletedClean

----------------------------------------------------------------------------
\* Tasks.

\* A task that takes up a row while its paths are deleted is a disturbance,
\* and one that finds no row ends.
LEMMA BeginKeeps ==
  ASSUME PathsInv, NEW w \in Running, NEW new \in Tasks,
         task' = [task EXCEPT ![w] = new], row.there \/ new = Idle,
         Note, UNCHANGED <<row, paths, web, removed>>
  PROVE  PathsInv'
<1>1. RowsTyped'
  BY DEF PathsInv, RowsTyped, Note
<1>2. CASE disturbed' \/ ((row.there \/ removed) /\ ~Clearing)
  BY <1>1, <1>2 DEF PathsInv, DeletedClean, Clearing
<1>3. CASE ~disturbed' /\ ~row.there /\ ~removed
  <2>1. Cleared
    BY <1>3 DEF Note, PathsInv, DeletedClean
  <2>2. new = Idle
    BY <1>3
  <2>3. ~Busy'
    BY <2>1, <2>2 DEF Cleared, Busy, PathsInv, RowsTyped
  <2> QED
    BY <1>1, <2>1, <2>3 DEF PathsInv, DeletedClean, Cleared
<1>4. Clearing => disturbed'
  BY Zenon DEF Note
<1> QED
  BY <1>2, <1>3, <1>4

\* A task that has taken up the row is not there when a deletion left all
\* clean: what it does next does not matter.
LEMMA BusyKeeps ==
  ASSUME PathsInv, NEW w \in Running, task[w] # Idle, task[w].at # "read",
         NEW new \in Tasks, task' = [task EXCEPT ![w] = new],
         row' \in Rows, row'.there = row.there, UNCHANGED <<web, disturbed, removed>>
  PROVE  PathsInv'
<1>1. RowsTyped'
  BY DEF PathsInv, RowsTyped
<1>2. Busy
  BY DEF Busy
<1> QED
  BY <1>1, <1>2 DEF PathsInv, DeletedClean, Cleared, Clearing

\* A refresh that finds no row ends.
LEMMA TakeKeeps ==
  ASSUME PathsInv, NEW w \in Worker, Take(w)
  PROVE  PathsInv'
<1>1. w \in Running /\ row \in Rows
  BY DEF Running, PathsInv, RowsTyped
<1> DEFINE new == IF row.there THEN [do |-> "refresh", at |-> "ask", copy |-> row] ELSE Idle
<1>2. new \in Tasks /\ (row.there \/ new = Idle)
  BY <1>1 DEF Tasks
<1> QED
  BY <1>1, <1>2, BeginKeeps DEF Take

\* A task starts on a row that is there; during a deletion, it disturbs it.
LEMMA StartKeeps ==
  ASSUME PathsInv, NEW w \in Runner, Start(w)
  PROVE  PathsInv'
<1>1. w \in Running /\ row \in Rows /\ row.there
  BY DEF Start, Running, PathsInv, RowsTyped
<1>2. Synced \in Rows
  BY <1>1 DEF Synced, Rows
<1>3. PICK do \in DOMAIN FirstStep :
        task' = [task EXCEPT ![w] = [do |-> do, at |-> FirstStep[do],
                   copy |-> IF do = "syncAll" THEN Synced ELSE row]]
  BY DEF Start
<1> DEFINE new == [do |-> do, at |-> FirstStep[do],
                   copy |-> IF do = "syncAll" THEN Synced ELSE row]
<1>4. new \in Tasks
  BY <1>1, <1>2 DEF Tasks, FirstStep
<1> QED
  BY <1>1, <1>3, <1>4, BeginKeeps DEF Start

\* Reading the row again finds it, or ends the task.
LEMMA ReadKeeps ==
  ASSUME PathsInv, NEW w \in Running, Read(w)
  PROVE  PathsInv'
<1>1. row \in Rows
  BY DEF PathsInv, RowsTyped
<1>2. task[w] # Idle /\ task[w].at = "read" /\ RowsTyped
  BY DEF Read, PathsInv
<1> DEFINE new == IF row.there /\ row.uris # None /\ row.token # None
                  THEN [task[w] EXCEPT !.at = "list", !.copy = row] ELSE Idle
<1>3. task' = [task EXCEPT ![w] = new]
  BY <1>2 DEF Read, RowsTyped
<1>4. new \in Tasks /\ (row.there \/ new = Idle)
  BY <1>1, <1>2, TaskCopy DEF Tasks
<1> QED
  BY <1>3, <1>4, BeginKeeps DEF Read

\* The camera's answer is the task's alone.
LEMMA AskKeeps ==
  ASSUME PathsInv, NEW w \in Running, Ask(w)
  PROVE  PathsInv'
<1>1. task[w] # Idle /\ task[w].at = "ask" /\ RowsTyped /\ row \in Rows
  BY DEF Ask, PathsInv, RowsTyped
<1>2. task[w] \in [do : {"refresh", "startup", "regenerate", "syncOne", "syncAll"},
                   at : {"read", "ask", "store", "list", "raw"}, copy : Rows]
  BY <1>1, TaskCopy
<1>3. CASE task' = [task EXCEPT ![w] = Idle]
  <2>1. Idle \in Tasks
    BY DEF Tasks
  <2> QED
    BY <1>1, <1>3, <2>1, BusyKeeps DEF Ask
<1>4. ASSUME NEW t \in IF task[w].copy.token = None THEN Token ELSE {task[w].copy.token},
             task' = [task EXCEPT ![w].at = "store", ![w].copy.uris = task[w].copy.host,
                                  ![w].copy.token = t]
      PROVE  PathsInv'
  <2> DEFINE copy == [task[w].copy EXCEPT !.uris = task[w].copy.host, !.token = t]
             new == [task[w] EXCEPT !.at = "store", !.copy = copy]
  <2>1. task[w].copy \in Rows
    BY <1>2
  <2>2. copy \in Rows
    BY <2>1, <1>4 DEF Rows
  <2>3. new \in Tasks
    BY <1>2, <2>2 DEF Tasks
  <2>4. task' = [task EXCEPT ![w] = new]
    BY <1>2, <1>4, <2>1 DEF Rows
  <2> QED
    BY <1>1, <2>3, <2>4, BusyKeeps DEF Ask
<1> QED
  BY <1>3, <1>4 DEF Ask

\* A task saves columns of a row that is there.
LEMMA StoreKeeps ==
  ASSUME PathsInv, NEW w \in Running, Store(w)
  PROVE  PathsInv'
<1>1. task[w] # Idle /\ task[w].at = "store" /\ RowsTyped /\ row \in Rows
  BY DEF Store, PathsInv, RowsTyped
<1>2. task[w] \in [do : {"refresh", "startup", "regenerate", "syncOne", "syncAll"},
                   at : {"read", "ask", "store", "list", "raw"}, copy : Rows]
  BY <1>1, TaskCopy
<1>3. row' \in Rows /\ row'.there = row.there
  <2>1. CASE row' = [row EXCEPT !.uris = task[w].copy.uris, !.token = task[w].copy.token]
    BY <1>1, <1>2, <2>1 DEF Rows
  <2> QED
    BY <1>1, <2>1 DEF Store
<1>4. PICK new \in {Idle, [task[w] EXCEPT !.at = "list"]} : task' = [task EXCEPT ![w] = new]
  BY <1>1 DEF Store, RowsTyped
<1>5. new \in Tasks
  BY <1>2, <1>4 DEF Tasks
<1> QED
  BY <1>1, <1>3, <1>4, <1>5, BusyKeeps DEF Store

\* Only a task adds paths, and none is under way when they must stay away.
LEMMA AddKeep ==
  ASSUME PathsInv, NEW w \in Running, ListHw(w) \/ AddHw(w) \/ EnsureRaw(w)
  PROVE  PathsInv'
<1>1. task[w] # Idle /\ task[w].at # "read" /\ RowsTyped /\ row \in Rows
      /\ UNCHANGED <<row, web, disturbed, removed>>
  BY DEF ListHw, AddHw, EnsureRaw, PathsInv, RowsTyped
<1>2. CASE ListHw(w)
  <2> DEFINE new == [do |-> task[w].do, at |-> "add", copy |-> task[w].copy, seen |-> Listed]
  <2>1. new \in Tasks
    BY <1>1, TaskCopy DEF Tasks, Listed
  <2>2. task' = [task EXCEPT ![w] = new]
    BY <1>1, <1>2 DEF ListHw, RowsTyped
  <2> QED
    BY <1>1, <2>1, <2>2, BusyKeeps
<1>3. CASE AddHw(w)
  <2> DEFINE new == IF task[w].do \in {"syncOne", "syncAll"} THEN Idle
                    ELSE [do |-> task[w].do, at |-> "raw", copy |-> task[w].copy]
  <2>1. new \in Tasks
    BY <1>1, TaskCopy DEF Tasks
  <2>2. task' = [task EXCEPT ![w] = new]
    BY <1>1, <1>3 DEF AddHw, RowsTyped
  <2> QED
    BY <1>1, <2>1, <2>2, BusyKeeps
<1>4. CASE EnsureRaw(w)
  <2> DEFINE new == IF task[w].do = "regenerate" THEN Idle
                    ELSE [task[w] EXCEPT !.do = "regenerate", !.at = "read"]
  <2>1. new \in Tasks
    BY <1>1, <1>4, TaskCopy DEF EnsureRaw, Tasks
  <2>2. task' = [task EXCEPT ![w] = new]
    BY <1>1, <1>4 DEF EnsureRaw, RowsTyped
  <2> QED
    BY <1>1, <2>1, <2>2, BusyKeeps
<1> QED
  BY <1>2, <1>3, <1>4

----------------------------------------------------------------------------
\* Every step of sessions, tasks and MediaMTX keeps the invariant.
LEMMA PathsStep == PathsInv /\ [Next]_vars => PathsInv'
<1> SUFFICES ASSUME PathsInv, [Next]_vars
             PROVE  PathsInv'
  OBVIOUS
<1>1. ASSUME NEW s \in Session, Open(s) \/ SessionStep(s)
      PROVE  PathsInv'
  BY <1>1, OpenKeeps, CompareKeeps, SaveKeep, ClearKeeps, DeleteKeeps, RemoveKeeps DEF SessionStep
<1>2. ASSUME NEW w \in Worker, Take(w)
      PROVE  PathsInv'
  BY <1>2, TakeKeeps
<1>3. ASSUME NEW w \in Runner, Start(w)
      PROVE  PathsInv'
  BY <1>3, StartKeeps
<1>4. ASSUME NEW w \in Running, TaskStep(w)
      PROVE  PathsInv'
  BY <1>4, AskKeeps, StoreKeeps, ReadKeeps, AddKeep DEF TaskStep
<1>5. CASE Restart
  BY <1>5 DEF Restart, PathsInv, RowsTyped, DeletedClean, Cleared, Busy, Clearing
<1>6. CASE UNCHANGED vars
  BY <1>6 DEF vars, PathsInv, RowsTyped, DeletedClean, Cleared, Busy, Clearing
<1> QED
  BY <1>1, <1>2, <1>3, <1>4, <1>5, <1>6 DEF Next

\* Whatever sessions, refreshes, regenerations and restarts there are, a path
\* that outlives its device is due to an admin's delete, to a task that
\* overlapped the last clearing or the deletion, or to a clearing that failed.
THEOREM NoPathsLeft == Spec => []NoOrphans
<1>1. PathsInv => NoOrphans
  BY DEF PathsInv, DeletedClean, Cleared, NoOrphans
<1> QED
  BY <1>1, PathsInit, PathsStep, PTL DEF Spec

\* Neither a refresh nor anything else than a session's save of the whole row
\* brings a deleted device back.
THEOREM SessionsRevive == Spec => OnlySessionsRevive
<1>1. PathsInv /\ [Next]_vars
        => [~row.there /\ row'.there
              => \E s \in Session : web[s] # Idle /\ web'[s] = Idle]_vars
  <2> SUFFICES ASSUME PathsInv, Next, ~row.there, row'.there
               PROVE  \E s \in Session : web[s] # Idle /\ web'[s] = Idle
    OBVIOUS
  <2>1. row' # row /\ row \in Rows
    BY DEF PathsInv, RowsTyped
  <2>2. ASSUME NEW s \in Session, SessionStep(s)
        PROVE  web[s] # Idle /\ web'[s] = Idle
    <3>1. SaveWhole(s) \/ SaveUnnoticed(s)
      BY <2>1, <2>2 DEF SessionStep, Compare, SaveColumns, Clear, Delete, Remove, Rows
    <3>2. web[s].do \in Whole \union Partial /\ web' = [web EXCEPT ![s] = Idle]
      BY <3>1 DEF SaveWhole, SaveUnnoticed
    <3> QED
      BY <3>2 DEF Idle, Whole, Partial, PathsInv, RowsTyped
  <2>3. ASSUME NEW w \in Running, TaskStep(w)
        PROVE  FALSE
    BY <2>1, <2>3 DEF TaskStep, Ask, Store, Read, ListHw, AddHw, EnsureRaw, Rows
  <2> QED
    BY <2>1, <2>2, <2>3 DEF Next, Open, Take, Start, Restart
<1> QED
  BY <1>1, PathsInit, PathsStep, PTL DEF Spec, OnlySessionsRevive
=============================================================================
