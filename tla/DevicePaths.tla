----------------------------- MODULE DevicePaths -----------------------------
(***************************************************************************)
(* One camera: its row in the database, the sessions that edit it, the     *)
(* tasks that refresh its stream addresses, and its paths in MediaMTX.     *)
(*                                                                         *)
(* A session copies the row, edits the copy and saves all of it (scan,     *)
(* clock, default profile, event listener, admin form) or one column (hand *)
(* written addresses, and the columns of no interest here).  Around the    *)
(* save two signal handlers compare the copy with the row and queue a      *)
(* refresh.  A refresh asks the camera, saves the addresses, and creates   *)
(* the paths; so do the thread that starts with Django, the command        *)
(* sync_mediamtx and each regeneration of the pipelines, from a copy of    *)
(* the row of their own.  The statements of all of them interleave.        *)
(***************************************************************************)
EXTENDS Naturals, FiniteSets

CONSTANTS
  Session,    \* requests and admin forms
  Worker,     \* Celery workers that take refreshes
  Runner,     \* start-up thread, commands, regenerations of other origins
  Addr,       \* addresses of the camera: host, port and credentials
  Token,      \* media profiles
  None,       \* no address, no path, no profile
  Typed,      \* stream addresses written by hand
  MaxEdits,   \* bound: sessions and runs
  MaxFaults   \* bound: failed requests and restarts of MediaMTX

ASSUME Distinct == None \notin Addr \union Token /\ Typed \notin Addr /\ Typed # None
ASSUME AddressGiven == Addr # {}

VARIABLES
  row,        \* the Device: there or deleted, host, stream_uris, default profile
  paths,      \* MediaMTX: the source of each path, by suffix and profile
  queue,      \* queued refresh_device_streams
  web,        \* the sessions
  task,       \* the workers and runners
  edits, faults,
  missed,     \* history: the last refresh failed or got lost, or a save crossed another
  disturbed,  \* history: a task overlapped the deletion, or it half failed
  removed     \* history: the last deletion was the admin's

vars == <<row, paths, queue, web, task, edits, faults, missed, disturbed, removed>>

Rows  == [there : BOOLEAN, host : Addr, uris : Addr \union {None, Typed},
          token : Token \union {None}]
Kind  == {"hw", "raw"}
NoPaths == [k \in Kind |-> [t \in Token |-> None]]

Whole   == {"whole", "profile", "admin"}    \* save()
Partial == {"typed", "other"}               \* save(update_fields=[...])
Deletes == {"delete", "remove"}             \* delete_device, and the admin's own
Idle    == [do |-> "idle"]
Running == Worker \union Runner

(* What the sessions and the tasks are doing, and the type invariant.      *)
Sessions ==
  {Idle} \union [do : Whole \union Partial \union Deletes, at : {"edit", "cleared"}, copy : Rows]
         \union [do : Whole \union Partial, at : {"save"}, copy : Rows, was : Rows]
Tasks ==
  {Idle} \union [do : {"refresh", "startup", "regenerate", "syncOne", "syncAll"},
                 at : {"read", "ask", "store", "list", "raw"}, copy : Rows]
         \union [do : {"refresh", "startup", "regenerate", "syncOne", "syncAll"},
                 at : {"add"}, copy : Rows, seen : SUBSET Token]

\* Every row, path, session and task is one the code can write.
TypeOK ==
  /\ row \in Rows /\ paths \in [Kind -> [Token -> Addr \union {None, Typed}]]
  /\ queue \in 0 .. MaxEdits + 1
  /\ web \in [Session -> Sessions] /\ task \in [Running -> Tasks]
  /\ edits \in 0 .. MaxEdits /\ faults \in 0 .. MaxFaults
  /\ missed \in BOOLEAN /\ disturbed \in BOOLEAN /\ removed \in BOOLEAN

\* add_device has saved the row, without the signals, and queued a refresh.
Init ==
  /\ row = [there |-> TRUE, host |-> CHOOSE a \in Addr : TRUE, uris |-> None, token |-> None]
  /\ paths = NoPaths /\ queue = 1
  /\ web = [s \in Session |-> Idle] /\ task = [w \in Running |-> Idle]
  /\ edits = 0 /\ faults = 0 /\ missed = FALSE /\ disturbed = FALSE
  /\ removed = FALSE

Fault == faults < MaxFaults /\ faults' = faults + 1

-----------------------------------------------------------------------------
(* Sessions.                                                               *)

\* The copies a view or the admin form makes of a row it has just read.
Edited(do) ==
  CASE do = "profile" -> {[row EXCEPT !.token = t] : t \in Token}
    [] do = "admin"   -> {[row EXCEPT !.host = a] : a \in Addr}
    [] do = "typed"   -> {[row EXCEPT !.uris = Typed]}
    [] OTHER          -> {row}

\* get_object_or_404, and the edit in memory.
Open(s) ==
  /\ web[s] = Idle /\ row.there
  /\ edits < MaxEdits /\ edits' = edits + 1
  /\ \E do \in Whole \union Partial \union Deletes : \E c \in Edited(do) :
       web' = [web EXCEPT ![s] = [do |-> do, at |-> "edit", copy |-> c]]
  /\ UNCHANGED <<row, paths, queue, task, faults, missed, disturbed, removed>>

\* device_pre_save reads the row again; a deleted one compares with nothing.
Compare(s) ==
  /\ web[s].do \in Whole \union Partial /\ web[s].at = "edit"
  /\ web' = [web EXCEPT ![s] = [do |-> @.do, at |-> "save", copy |-> @.copy, was |-> row]]
  /\ UNCHANGED <<row, paths, queue, task, edits, faults, missed, disturbed, removed>>

\* Slip: the address is not among the fields that are compared.
PathFieldsSlip(r) == <<r.there, r.uris>>

\* PATH_FIELDS: host and credentials (host here), and the stream addresses.
PathFields(r) == <<r.there, r.host, r.uris>>

Changed(s) == PathFields(web[s].was) # PathFields(web[s].copy)

\* device_post_save queues a refresh when a field of PATH_FIELDS differs.
Notice(s) == queue' = IF Changed(s) THEN queue + 1 ELSE queue

Crossed(s) == missed' = (missed \/ PathFields(row) # PathFields(web[s].was))

\* save(): an UPDATE of every column, or an INSERT when no row has the id.
SaveWhole(s) ==
  /\ web[s].do \in Whole /\ web[s].at = "save"
  /\ row' = web[s].copy
  /\ Notice(s) /\ Crossed(s)
  /\ web' = [web EXCEPT ![s] = Idle]
  /\ UNCHANGED <<paths, task, edits, faults, disturbed, removed>>

\* save(update_fields): the columns it names; an error when the row is gone.
SaveColumns(s) ==
  /\ web[s].do \in Partial /\ web[s].at = "save"
  /\ web' = [web EXCEPT ![s] = Idle]
  /\ IF row.there
     THEN /\ row' = IF web[s].do = "typed" THEN [row EXCEPT !.uris = Typed] ELSE row
          /\ Notice(s) /\ Crossed(s)
     ELSE UNCHANGED <<row, queue, missed>>
  /\ UNCHANGED <<paths, task, edits, faults, disturbed, removed>>

\* The save is made and the refresh cannot be queued: the row keeps what a view
\* has saved, and nobody asks the camera; the admin's transaction is undone.
SaveUnnoticed(s) ==
  /\ web[s].do \in Whole \union Partial /\ web[s].at = "save"
  /\ Changed(s) /\ Fault
  /\ web' = [web EXCEPT ![s] = Idle]
  /\ CASE web[s].do = "admin" -> UNCHANGED <<row, missed>>
       [] web[s].do \in Whole \ {"admin"} -> row' = web[s].copy /\ missed' = TRUE
       [] web[s].do \in Partial -> /\ row.there /\ missed' = TRUE
                                  /\ row' = [row EXCEPT !.uris = Typed]
  /\ UNCHANGED <<paths, queue, task, edits, disturbed, removed>>

\* A task that has read the row and has not done with its paths.
Busy == \E w \in Running : task[w] # Idle /\ task[w].at # "read"
Clearing == \E s \in Session : web[s] # Idle /\ web[s].at = "cleared"

\* Slip: only the transcoded paths are deleted.
ClearSlip(s) ==
  /\ web[s].do = "delete" /\ web[s].at = "edit"
  /\ paths' = [paths EXCEPT !["hw"] = NoPaths["hw"]]
  /\ web' = [web EXCEPT ![s].at = "cleared"] /\ disturbed' = Busy
  /\ UNCHANGED <<row, queue, task, edits, faults, missed, removed>>

\* delete_device deletes the paths first; one that cannot be deleted stays.
Clear(s) ==
  /\ web[s].do = "delete" /\ web[s].at = "edit"
  /\ \/ paths' = NoPaths /\ disturbed' = Busy /\ UNCHANGED faults
     \/ /\ Fault /\ disturbed' = TRUE
        /\ \E stay \in SUBSET (Kind \X Token) :
             paths' = [k \in Kind |-> [t \in Token |->
                         IF <<k, t>> \in stay THEN paths[k][t] ELSE None]]
  /\ web' = [web EXCEPT ![s].at = "cleared"]
  /\ UNCHANGED <<row, queue, task, edits, missed, removed>>

\* Then the row; the regeneration that follows is a run of a Runner.
Delete(s) ==
  /\ web[s].do = "delete" /\ web[s].at = "cleared"
  /\ row' = [row EXCEPT !.there = FALSE]
  /\ disturbed' = (disturbed \/ Busy) /\ removed' = FALSE
  /\ web' = [web EXCEPT ![s] = Idle]
  /\ UNCHANGED <<paths, queue, task, edits, faults, missed>>

\* The admin's own delete: the row goes, and nothing else.
Remove(s) ==
  /\ web[s].do = "remove"
  /\ row' = [row EXCEPT !.there = FALSE]
  /\ removed' = TRUE
  /\ web' = [web EXCEPT ![s] = Idle]
  /\ UNCHANGED <<paths, queue, task, edits, faults, missed, disturbed>>

-----------------------------------------------------------------------------
(* Refreshes, the start-up thread, and regenerations.                      *)

Note == disturbed' = (disturbed \/ Clearing)

\* refresh_device_streams: a deleted device is not refreshed.
Take(w) ==
  /\ task[w] = Idle /\ queue > 0 /\ queue' = queue - 1
  /\ task' = [task EXCEPT ![w] = IF row.there THEN [do |-> "refresh", at |-> "ask", copy |-> row]
                                 ELSE Idle]
  /\ Note
  /\ UNCHANGED <<row, paths, web, edits, faults, missed, removed>>

\* sync_mediamtx takes the stored addresses, or asks the camera and stores
\* nothing.
Synced == IF row.uris = None THEN [row EXCEPT !.uris = row.host] ELSE row

\* The start-up thread refreshes unasked; the commands create paths only.
FirstStep == [startup |-> "ask", syncOne |-> "list", syncAll |-> "list", regenerate |-> "read"]

Start(w) ==
  /\ task[w] = Idle /\ row.there
  /\ edits < MaxEdits /\ edits' = edits + 1
  /\ \E do \in DOMAIN FirstStep :
       /\ do = "syncOne" => row.uris # None /\ row.token # None
       /\ task' = [task EXCEPT ![w] = [do |-> do, at |-> FirstStep[do],
                    copy |-> IF do = "syncAll" THEN Synced ELSE row]]
  /\ Note
  /\ UNCHANGED <<row, paths, queue, web, faults, missed, removed>>

\* get_profiles and get_stream_uri of the host in the copy.  A failure ends
\* the task, and nothing asks again.
Ask(w) ==
  /\ task[w] # Idle /\ task[w].at = "ask"
  /\ \/ \E t \in IF task[w].copy.token = None THEN Token ELSE {task[w].copy.token} :
          task' = [task EXCEPT ![w].at = "store", ![w].copy.uris = task[w].copy.host,
                               ![w].copy.token = t]
        /\ UNCHANGED <<faults, missed>>
     \/ Fault /\ task' = [task EXCEPT ![w] = Idle] /\ missed' = TRUE
  /\ UNCHANGED <<row, paths, queue, web, edits, disturbed, removed>>

\* Slip: the refresh saves the whole instance.
StoreSlip(w) ==
  /\ task[w] # Idle /\ task[w].at = "store"
  /\ row' = task[w].copy
  /\ missed' = (task[w].copy.host # row.host)
  /\ task' = [task EXCEPT ![w].at = "list"]
  /\ UNCHANGED <<paths, queue, web, edits, faults, disturbed, removed>>

\* The refresh saves its two columns, and the signals are told to skip it.
Store(w) ==
  /\ task[w] # Idle /\ task[w].at = "store"
  /\ IF row.there
     THEN /\ row' = [row EXCEPT !.uris = task[w].copy.uris, !.token = task[w].copy.token]
          /\ missed' = (task[w].copy.host # row.host)
          /\ task' = [task EXCEPT ![w].at = "list"]
     ELSE task' = [task EXCEPT ![w] = Idle] /\ UNCHANGED <<row, missed>>
  /\ UNCHANGED <<paths, queue, web, edits, faults, disturbed, removed>>

\* regenerate_config_and_restart reads the devices that have addresses.
Read(w) ==
  /\ task[w] # Idle /\ task[w].at = "read"
  /\ task' = [task EXCEPT ![w] = IF row.there /\ row.uris # None /\ row.token # None
                                 THEN [@ EXCEPT !.at = "list", !.copy = row] ELSE Idle]
  /\ Note
  /\ UNCHANGED <<row, paths, queue, web, edits, faults, missed, removed>>

\* add_path fails when the name is taken: the source there stays.
Added(old, uri) == IF old = None THEN uri ELSE old

Listed == {t \in Token : paths["hw"][t] # None}

\* ensure_camera_streams lists the paths that exist.
ListHw(w) ==
  /\ task[w] # Idle /\ task[w].at = "list"
  /\ task' = [task EXCEPT ![w] = [do |-> @.do, at |-> "add", copy |-> @.copy, seen |-> Listed]]
  /\ UNCHANGED <<row, paths, queue, web, edits, faults, missed, disturbed, removed>>

\* It deletes those of other profiles, and adds those it has not listed.
AddHw(w) ==
  /\ task[w] # Idle /\ task[w].at = "add"
  /\ LET wanted == IF task[w].do = "syncAll" THEN Token ELSE {task[w].copy.token}
         seen   == task[w].seen IN
     /\ paths' = [paths EXCEPT !["hw"] = [t \in Token |->
                    IF t \in wanted \ seen THEN Added(@[t], task[w].copy.uris)
                    ELSE IF t \in seen \ wanted THEN None ELSE @[t]]]
     /\ task' = [task EXCEPT ![w] = IF @.do \in {"syncOne", "syncAll"} THEN Idle
                                    ELSE [do |-> @.do, at |-> "raw", copy |-> @.copy]]
  /\ UNCHANGED <<row, queue, web, edits, faults, missed, disturbed, removed>>

\* ensure_raw_paths; a refresh then regenerates.
EnsureRaw(w) ==
  /\ task[w] # Idle /\ task[w].at = "raw"
  /\ paths' = [paths EXCEPT !["raw"][task[w].copy.token] = Added(@, task[w].copy.uris)]
  /\ task' = [task EXCEPT ![w] = IF @.do = "regenerate" THEN Idle
                                 ELSE [@ EXCEPT !.do = "regenerate", !.at = "read"]]
  /\ UNCHANGED <<row, queue, web, edits, faults, missed, disturbed, removed>>

\* MediaMTX restarts: paths added through its API are not kept.
Restart ==
  /\ Fault /\ paths' = NoPaths
  /\ UNCHANGED <<row, queue, web, task, edits, missed, disturbed, removed>>

SessionStep(s) ==
  \/ Compare(s) \/ SaveWhole(s) \/ SaveColumns(s) \/ SaveUnnoticed(s)
  \/ Clear(s) \/ Delete(s) \/ Remove(s)
TaskStep(w) == Ask(w) \/ Store(w) \/ Read(w) \/ ListHw(w) \/ AddHw(w) \/ EnsureRaw(w)

Next ==
  \/ \E s \in Session : Open(s) \/ SessionStep(s)
  \/ \E w \in Worker : Take(w)
  \/ \E w \in Runner : Start(w)
  \/ \E w \in Running : TaskStep(w)
  \/ Restart

Spec == Init /\ [][Next]_vars

(* Requests end and Celery delivers what is queued.                        *)
Fairness ==
  /\ \A s \in Session : WF_vars(SessionStep(s))
  /\ \A w \in Worker : WF_vars(Take(w))
  /\ \A w \in Running : WF_vars(TaskStep(w))

FairSpec == Spec /\ Fairness

-----------------------------------------------------------------------------
(* The paths a deleted device has left are those of an admin's delete, which *)
(* deletes none, or were added or kept by a task that overlapped the last    *)
(* clearing, or by a clearing that failed: delete_device otherwise leaves    *)
(* nothing, also of what earlier deletions of the device had left.           *)
NoOrphans == ~row.there /\ paths # NoPaths => removed \/ disturbed

(* A device that was deleted comes back only when a session that had read  *)
(* it saves all of its copy: refreshes save columns (update_fields).       *)
OnlySessionsRevive ==
  [][~row.there /\ row'.there => \E s \in Session : web[s] # Idle /\ web'[s] = Idle]_vars

(* Whoever edits the row, its addresses are in the end those of its host,  *)
(* also after they were written by hand: the signals miss no change, unless*)
(* the last refresh failed, could not be queued, or a save crossed another *)
(* (signals.py).                                                           *)
FollowsHost == []<>(missed \/ ~row.there \/ row.uris = row.host)

(* README: regenerate_config_and_restart() repairs the MediaMTX paths.  A  *)
(* path that has the old source of a camera that moved is left as it is.   *)
PathsRepaired ==
  [][\A w \in Running :
       task[w] # Idle /\ task'[w] = Idle /\ task[w].at = "raw" =>
         paths'["raw"][task[w].copy.token] = task[w].copy.uris]_vars
=============================================================================
