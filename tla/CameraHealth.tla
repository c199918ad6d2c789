---------------------------- MODULE CameraHealth ----------------------------
(***************************************************************************)
(* The health of one camera.  Celery beat asks for orchestrate_cameras     *)
(* every five seconds, the unit of time here.  A run reads the sources in  *)
(* Redis and the rows, pings the camera, saves what the ping means for the *)
(* copy it holds, counts in Redis how long the frame rate has been bad or  *)
(* the camera away, and regenerates the pipelines when that is too long.   *)
(* Pings of cameras that are away take long: runs come late and overlap.   *)
(***************************************************************************)
EXTENDS Naturals, FiniteSets

CONSTANTS
  Run,             \* runs and start-ups that may overlap, sessions that save the row
  MaxFailure,      \* MAX_FAILURE_COUNT
  ZeroCycles,      \* FPS_ZERO_CYCLES
  LowCycles,       \* FPS_LOW_CYCLES
  CounterTTL,      \* 180 s in units of 5 s
  OfflineRestart,  \* OFFLINE_RESTART_SECONDS in units of 5 s
  SinceTTL,        \* the life of offline_since: 86400 s
  PendingTTL,      \* and of pending_restart: 3600 s
  None,
  MaxChanges,      \* bound: changes of the camera, sessions, start-ups, deaths
  MaxLate          \* bound: periods that pass while a run is due or going on

ASSUME Limits ==
  /\ {MaxFailure, CounterTTL, OfflineRestart, SinceTTL, PendingTTL} \subseteq Nat \ {0}
  /\ {ZeroCycles, LowCycles} \subseteq Nat \ {0, 1}
ASSUME NoTime == None \notin Nat
ASSUME BoundsAssumption == MaxChanges \in Nat /\ MaxLate \in Nat

VARIABLES
  reach, stream,   \* the camera answers; the frames it delivers
  row,             \* is_online and failure_count
  source, fps,     \* deepstream:sources:*: whether it has a source, and :fps
  count,           \* device:*:fps_zero and fps_low: 0 is no key, ttl 0 no expiry
  since,           \* age of device:*:offline_since
  pending,         \* what is left of device:*:pending_restart
  run, due,        \* the runs, and those that beat has queued
  misses, gone,    \* history: failed pings in a row; time since MaxFailure of them
  apart,           \* history: no overlap, and no death between two writes
  cold,            \* history: the start-up took the camera offline
  lost,            \* history: counters whose run died before it set their expiry
  changes, late

camera  == <<reach, stream>>
redis   == <<source, fps, count, since, pending>>
history == <<misses, gone, apart, cold, lost>>
vars    == <<camera, row, redis, run, due, history, changes, late>>

Key     == {"zero", "low"}
Limit   == [zero |-> ZeroCycles, low |-> LowCycles]
Cap     == MaxFailure + 1
Rows    == [online : BOOLEAN, failures : 0 .. Cap]
Counter == [n : 0 .. ZeroCycles + LowCycles, ttl : 0 .. CounterTTL]
Unset   == [n |-> 0, ttl |-> 0]
Idle    == [at |-> "idle"]
Copies  == [at : {"ping", "save", "check", "expire", "reset", "pend", "regen", "clean",
                  "scan", "boot"},
            copy : Rows, src : BOOLEAN, up : BOOLEAN, key : Key]

TypeOK ==
  /\ reach \in BOOLEAN /\ stream \in {"none", "slow", "fine"} /\ row \in Rows
  /\ source \in BOOLEAN /\ fps \in {None, "slow", "fine"}
  /\ count \in [Key -> Counter]
  /\ since \in 0 .. SinceTTL - 1 \union {None} /\ pending \in 0 .. PendingTTL
  /\ run \in [Run -> {Idle} \union Copies]
  /\ due \in 0 .. 2 /\ misses \in 0 .. Cap /\ gone \in 0 .. SinceTTL \union {None}
  /\ apart \in BOOLEAN /\ cold \in BOOLEAN /\ lost \subseteq Key
  /\ changes \in 0 .. MaxChanges /\ late \in 0 .. MaxLate

\* add_device and the first regeneration: online, and a source.
Init ==
  /\ reach = TRUE /\ stream = "fine" /\ row = [online |-> TRUE, failures |-> 0]
  /\ source = TRUE /\ fps = None /\ count = [k \in Key |-> Unset]
  /\ since = None /\ pending = 0
  /\ run = [r \in Run |-> Idle] /\ due = 0
  /\ misses = 0 /\ gone = None /\ apart = TRUE /\ cold = FALSE /\ lost = {}
  /\ changes = 0 /\ late = 0

Change == changes < MaxChanges /\ changes' = changes + 1
At(r, at) == run[r] # Idle /\ run[r].at = at
Go(r, at) == run' = [run EXCEPT ![r].at = at]
Quiet == \A r \in Run : run[r] = Idle
Least(a, b) == IF a < b THEN a ELSE b

\* A process that begins holds a copy of the row and knows the sources.
Reads(r, at) ==
  /\ run[r] = Idle
  /\ run' = [run EXCEPT ![r] = [at |-> at, copy |-> row, src |-> source, up |-> FALSE,
                                key |-> "zero"]]
  /\ apart' = (apart /\ Quiet)

\* What a ping tells of the camera.
Heard == misses' = 0 /\ gone' = None
Unheard ==
  /\ misses' = Least(misses + 1, Cap)
  /\ gone' = IF misses + 1 = MaxFailure THEN 0 ELSE gone

-----------------------------------------------------------------------------
(* The camera, the pipeline's probe, time.                                 *)

CameraChanges ==
  /\ Change
  /\ \/ reach' = ~reach /\ UNCHANGED stream
     \/ stream' \in {"none", "slow", "fine"} \ {stream} /\ UNCHANGED reach
  /\ UNCHANGED <<row, redis, run, due, history, late>>

\* analytics_pad_probe writes the rate of the sources that had frames.
Probe ==
  /\ source /\ stream # "none" /\ fps # stream /\ fps' = stream
  /\ UNCHANGED <<camera, row, source, count, since, pending, run, due, history, changes, late>>

\* A key that has a time to live ends with it.
Older(c) ==
  IF c.ttl = 1 THEN Unset
  ELSE IF c.ttl > 1 THEN [c EXCEPT !.ttl = @ - 1] ELSE c

\* setex: after a day offline_since is forgotten.
Aged(t) == IF t = None \/ t + 1 = SinceTTL THEN None ELSE t + 1

\* Five seconds: beat queues a run.  It is late when the last has not ended.
Tick ==
  /\ \/ Quiet /\ due = 0 /\ UNCHANGED late
     \/ (~Quiet \/ due > 0) /\ late < MaxLate /\ late' = late + 1
  /\ due < 2 /\ due' = due + 1
  /\ count' = [k \in Key |-> Older(count[k])]
  /\ since' = Aged(since)
  /\ pending' = IF pending = 0 THEN 0 ELSE pending - 1
  /\ gone' = IF gone = None THEN None ELSE Least(gone + 1, SinceTTL)
  /\ UNCHANGED <<camera, row, source, fps, run, misses, apart, cold, lost, changes>>

-----------------------------------------------------------------------------
(* orchestrate_cameras.                                                    *)

\* The sources, then the rows, are read.
Start(r) ==
  /\ due > 0 /\ due' = due - 1 /\ Reads(r, "ping")
  /\ UNCHANGED <<camera, row, redis, misses, gone, cold, lost, changes, late>>

\* Slip: a camera that answers keeps its failures while it is online.
ReachedSlip(r) ==
  /\ At(r, "ping") /\ reach /\ Heard
  /\ run' = [run EXCEPT ![r].at = "save", ![r].up = TRUE, ![r].copy.online = TRUE]
  /\ since' = IF run[r].copy.online THEN since ELSE None
  /\ UNCHANGED <<camera, row, source, fps, count, pending, due, apart, cold, lost, changes, late>>

\* The camera answers: no failures, and it is not away any more.
Reached(r) ==
  /\ At(r, "ping") /\ reach /\ Heard
  /\ run' = [run EXCEPT ![r].at = "save", ![r].up = TRUE,
                        ![r].copy = [online |-> TRUE, failures |-> 0]]
  /\ since' = IF run[r].copy.online THEN since ELSE None
  /\ UNCHANGED <<camera, row, source, fps, count, pending, due, apart, cold, lost, changes, late>>

\* Slip: the time is taken at every failed ping of a camera that is away.
MissedSlip(r) ==
  /\ At(r, "ping") /\ ~reach /\ Unheard
  /\ LET failures == Least(run[r].copy.failures + 1, Cap)
         away == failures >= MaxFailure IN
     /\ run' = [run EXCEPT ![r].at = "save", ![r].copy =
                  [online |-> @.online /\ ~away, failures |-> failures]]
     /\ since' = IF away THEN 0 ELSE since
  /\ UNCHANGED <<camera, row, source, fps, count, pending, due, apart, cold, lost, changes, late>>

\* It does not: one more failure, and after MaxFailure it is offline.
Missed(r) ==
  /\ At(r, "ping") /\ ~reach /\ Unheard
  /\ LET failures == Least(run[r].copy.failures + 1, Cap)
         away == failures >= MaxFailure /\ run[r].copy.online IN
     /\ run' = [run EXCEPT ![r].at = "save", ![r].copy =
                  [online |-> @.online /\ ~away, failures |-> failures]]
     /\ since' = IF away THEN 0 ELSE since
  /\ UNCHANGED <<camera, row, source, fps, count, pending, due, apart, cold, lost, changes, late>>

\* The two columns are saved as the copy has them.
Save(r) ==
  /\ At(r, "save") /\ Go(r, "check")
  /\ row' = run[r].copy
  /\ since' = IF run[r].up THEN None ELSE since
  /\ cold' = (cold /\ ~run[r].copy.online)
  /\ UNCHANGED <<camera, source, fps, count, pending, due, misses, gone, apart, lost, changes, late>>

\* The run is done with this camera, and goes on to the next.
End(r) == run' = [run EXCEPT ![r] = Idle]

\* Slip: the expiry is set on the second count, when the key is sure to be there.
IncrementSlip(r, k) ==
  LET n == Least(count[k].n + 1, Limit[k] + 1) IN
  /\ count' = [count EXCEPT ![k].n = n]
  /\ \/ n = 2 /\ run' = [run EXCEPT ![r].at = "expire", ![r].key = k]
     \/ n # 2 /\ n >= Limit[k] /\ run' = [run EXCEPT ![r].at = "reset", ![r].key = k]
     \/ n # 2 /\ n < Limit[k] /\ End(r)

\* INCR; the first count is to be given an expiry, the last to be acted on.
Increment(r, k) ==
  LET n == Least(count[k].n + 1, Limit[k] + 1) IN
  /\ count' = [count EXCEPT ![k].n = n]
  /\ \/ n = 1 /\ run' = [run EXCEPT ![r].at = "expire", ![r].key = k]
     \/ n >= Limit[k] /\ run' = [run EXCEPT ![r].at = "reset", ![r].key = k]
     \/ n # 1 /\ n < Limit[k] /\ End(r)

\* The source the run has read, and the rate now: none counts as zero.
CheckRate(r) ==
  /\ At(r, "check") /\ run[r].copy.online /\ run[r].src
  /\ \/ fps = None /\ Increment(r, "zero")
     \/ fps = "slow" /\ Increment(r, "low")
     \/ fps = "fine" /\ count' = [k \in Key |-> Unset] /\ End(r)
  /\ UNCHANGED <<camera, row, source, fps, since, pending, due, history, changes, late>>

\* Slip: the key lives for a unit less than it should.
ExpireSlip(r) ==
  LET k == run[r].key IN
  /\ At(r, "expire") /\ End(r)
  /\ count' = IF count[k].n = 0 THEN count ELSE [count EXCEPT ![k].ttl = CounterTTL - 1]
  /\ UNCHANGED <<camera, row, source, fps, since, pending, due, history, changes, late>>

\* EXPIRE, of a key that is still there.
Expire(r) ==
  LET k == run[r].key IN
  /\ At(r, "expire") /\ End(r)
  /\ count' = IF count[k].n = 0 THEN count ELSE [count EXCEPT ![k].ttl = CounterTTL]
  /\ UNCHANGED <<camera, row, source, fps, since, pending, due, history, changes, late>>

\* The limit is reached: the key is deleted.
Reset(r) ==
  /\ At(r, "reset") /\ Go(r, "pend")
  /\ count' = [count EXCEPT ![run[r].key] = Unset]
  /\ UNCHANGED <<camera, row, source, fps, since, pending, due, history, changes, late>>

\* pending_restart is set, and the restart follows.
Pend(r) ==
  /\ At(r, "pend") /\ Go(r, "regen")
  /\ pending' = PendingTTL
  /\ UNCHANGED <<camera, row, source, fps, count, since, due, history, changes, late>>

\* Slip: a restart that was asked for is asked for no more.
TooLongSlip == since # None /\ since = OfflineRestart + 1 /\ pending = 0

\* Offline for too long, unless a restart is pending.
TooLong == since # None /\ since > OfflineRestart /\ pending = 0

CheckAway(r) ==
  /\ At(r, "check") /\ ~(run[r].copy.online /\ run[r].src)
  /\ \/ ~run[r].copy.online /\ TooLong /\ Go(r, "pend")
     \/ (run[r].copy.online \/ ~TooLong) /\ End(r)
  /\ UNCHANGED <<camera, row, redis, due, history, changes, late>>

\* A run that is done with this camera finds another that asks for a restart.
Others(r) ==
  /\ Change /\ run[r] = Idle
  /\ run' = [run EXCEPT ![r] = [at |-> "regen", copy |-> row, src |-> source, up |-> FALSE,
                                key |-> "zero"]]
  /\ UNCHANGED <<camera, row, redis, due, history, late>>

\* regenerate_config_and_restart: offline cameras have no source, and the
\* hash of a pipeline is deleted with the rates in it.  When no other camera is
\* online either, it stops the containers and leaves the hashes.
Regenerate(r) ==
  /\ At(r, "regen") /\ Go(r, "clean")
  /\ \/ source' = row.online /\ fps' = None
     \/ ~row.online /\ UNCHANGED <<source, fps>>
  /\ UNCHANGED <<camera, row, count, since, pending, due, history, changes, late>>

\* Then the counters and the request of every device are deleted.
Clean(r) ==
  /\ At(r, "clean")
  /\ count' = [k \in Key |-> Unset] /\ pending' = 0
  /\ run' = [run EXCEPT ![r] = Idle]
  /\ UNCHANGED <<camera, row, source, fps, since, due, history, changes, late>>

\* A worker dies: what it has written stays.  Between the key and the row,
\* a camera that is back has lost its time, and is offline still; between INCR
\* and EXPIRE, a counter stays until it is full.
Die(r) ==
  /\ Change /\ run[r] # Idle /\ run' = [run EXCEPT ![r] = Idle]
  /\ apart' = (apart /\ ~At(r, "save"))
  /\ lost' = IF At(r, "expire") THEN lost \union {run[r].key} ELSE lost
  /\ UNCHANGED <<camera, row, redis, due, misses, gone, cold, late>>

-----------------------------------------------------------------------------
(* What else saves the row.                                                *)

\* A scan and its like: all columns are saved as they were read.
Scan(r) ==
  /\ Change /\ Reads(r, "scan")
  /\ UNCHANGED <<camera, row, redis, due, misses, gone, cold, lost, late>>

Scanned(r) ==
  /\ At(r, "scan") /\ row' = run[r].copy /\ run' = [run EXCEPT ![r] = Idle]
  /\ cold' = (cold /\ ~run[r].copy.online)
  /\ UNCHANGED <<camera, redis, due, misses, gone, apart, lost, changes, late>>

\* check_and_sync at the start of each Django process reads the rows.
Boot(r) ==
  /\ Change /\ Reads(r, "boot")
  /\ UNCHANGED <<camera, row, redis, due, misses, gone, cold, lost, late>>

\* One ping decides, and no time is taken.
Booted(r) ==
  /\ At(r, "boot") /\ run' = [run EXCEPT ![r] = Idle]
  /\ IF reach THEN Heard ELSE Unheard
  /\ row' = [online |-> reach, failures |-> IF reach THEN 0 ELSE run[r].copy.failures]
  /\ cold' = (~reach /\ (cold \/ row.online))
  /\ UNCHANGED <<camera, redis, due, apart, lost, changes, late>>

RunStep(r) ==
  \/ Reached(r) \/ Missed(r) \/ Save(r) \/ CheckRate(r) \/ Expire(r) \/ Reset(r) \/ Pend(r)
  \/ CheckAway(r) \/ Regenerate(r) \/ Clean(r) \/ Scanned(r) \/ Booted(r)

Next ==
  \/ CameraChanges \/ Probe \/ Tick
  \/ \E r \in Run : Start(r) \/ RunStep(r) \/ Others(r) \/ Die(r) \/ Scan(r) \/ Boot(r)

(* Beat and the workers go on, and so do the keys' times and the probe.    *)
Fairness ==
  /\ WF_vars(Tick) /\ WF_vars(Probe)
  /\ WF_vars(\E r \in Run : Start(r)) /\ \A r \in Run : WF_vars(RunStep(r))

Spec == Init /\ [][Next]_vars /\ Fairness

-----------------------------------------------------------------------------
Regenerating == \E r \in Run : At(r, "regen")

(* As long as nothing overlaps, a camera that goes offline has failed      *)
(* MAX_FAILURE_COUNT pings in a row, or the one ping of a start-up: the    *)
(* count is in the row, and survives runs, sessions and their copies       *)
(* (orchestrate_cameras, check_and_sync).                                  *)
OfflineAfterMisses ==
  [][apart' /\ row.online /\ ~row'.online =>
       misses >= MaxFailure \/ \E r \in Run : Booted(r)]_vars

(* What the restart after two minutes needs: the time in Redis of a camera *)
(* that runs took offline is that of the ping that was one too many, for   *)
(* as long as the key lives, whatever sessions and start-ups come between  *)
(* (offline_since).                                                        *)
OfflineIsTimed ==
  apart /\ Quiet /\ ~row.online /\ ~cold =>
    gone # None /\ since = IF gone < SinceTTL THEN gone ELSE None

(* A counter of bad rates that would never expire is about to be given its *)
(* expiry, or the run that should have done so has died (orchestrate_cameras). *)
CounterExpires ==
  \A k \in Key : count[k].n > 0 /\ count[k].ttl = 0 =>
    k \in lost \/ \E r \in Run : At(r, "expire") /\ run[r].key = k

(* A source whose rate stays low leads to a restart once the runs are on   *)
(* time: the counter that expires 180 s after its first count reaches 36.  *)
LowRateRestarts == []<>(~row.online \/ ~source \/ fps # "slow" \/ Regenerating)

(* A camera that is offline, with a time in Redis that is not due yet,     *)
(* leads to a restart unless it answers, whatever runs overlap or die,     *)
(* also one that left a restart pending.                                   *)
AwayRestarts ==
  ~row.online /\ since # None /\ since <= OfflineRestart
    ~> row.online \/ misses = 0 \/ Regenerating

-----------------------------------------------------------------------------
(* What the documentation says, and the code does not do.                  *)

(* README: offline for more than 120 s is a restart.  A camera that the    *)
(* start-up took offline has no time in Redis, and never gets one; nor has *)
(* one that is away for more than a day.                                   *)
OfflineRestarts == []<>(row.online \/ Regenerating)

(* README: a source of an online camera without frames is a rate of 0, and *)
(* leads to a restart.  The probe writes no 0, and the last rate stays.    *)
FrozenSourceRestarts == []<>(~row.online \/ ~source \/ stream # "none" \/ Regenerating)
=============================================================================
