------------------------- MODULE CameraHealthProofs -------------------------
(***************************************************************************)
(* What the counters expire with, and what the failure count and the time  *)
(* of absence are worth as long as runs do not overlap, for any limits,    *)
(* lives of the keys, number of runs, and changes.                         *)
(***************************************************************************)
EXTENDS CameraHealth, TLAPS

\* The cap of a count is above the failures that take a camera offline.
LEMMA CapTyped == MaxFailure \in Nat /\ Cap \in Nat /\ Cap = MaxFailure + 1
                  /\ MaxFailure > 0 /\ SinceTTL \in Nat /\ SinceTTL > 0
BY Limits DEF Cap

\* One more, up to a cap.
LEMMA LeastTyped ==
  ASSUME NEW n \in Nat, NEW c \in Nat
  PROVE  /\ Least(n, c) \in 0 .. c
         /\ n <= c => Least(n, c) = n
         /\ n > c => Least(n, c) = c
BY DEF Least

----------------------------------------------------------------------------
(* Types.                                                                  *)

\* A copy that goes on stays one.
LEMMA GoTyped ==
  ASSUME TypeOK, NEW r \in Run, run[r] # Idle,
         NEW at \in {"save", "check", "expire", "reset", "pend", "regen", "clean"}
  PROVE  /\ run[r] \in Copies
         /\ [run[r] EXCEPT !.at = at] \in Copies
         /\ [run EXCEPT ![r].at = at] = [run EXCEPT ![r] = [run[r] EXCEPT !.at = at]]
         /\ [run EXCEPT ![r].at = at] \in [Run -> {Idle} \union Copies]
<1>1. run[r] \in Copies
  BY DEF TypeOK
<1>2. [run[r] EXCEPT !.at = at] \in Copies
  BY <1>1 DEF Copies
<1> QED
  BY <1>1, <1>2 DEF TypeOK

\* And one that ends leaves the others.
LEMMA EndTyped ==
  ASSUME TypeOK, NEW r \in Run
  PROVE  [run EXCEPT ![r] = Idle] \in [Run -> {Idle} \union Copies]
BY DEF TypeOK

\* What is read to begin with is a copy.
LEMMA BeginTyped ==
  ASSUME TypeOK, NEW r \in Run, NEW at \in {"ping", "scan", "boot", "regen"}
  PROVE  LET new == [at |-> at, copy |-> row, src |-> source, up |-> FALSE, key |-> "zero"]
         IN  /\ new \in Copies
             /\ [run EXCEPT ![r] = new] \in [Run -> {Idle} \union Copies]
BY DEF TypeOK, Copies, Key

\* A failed ping counts up to the cap.
LEMMA UnheardTyped ==
  ASSUME TypeOK, Unheard
  PROVE  misses' \in 0 .. Cap /\ gone' \in 0 .. SinceTTL \union {None}
<1>1. misses + 1 \in Nat
  BY CapTyped DEF TypeOK
<1>2. misses' \in 0 .. Cap
  BY <1>1, CapTyped, LeastTyped DEF Unheard
<1>3. gone' \in 0 .. SinceTTL \union {None}
  BY CapTyped DEF Unheard, TypeOK
<1> QED
  BY <1>2, <1>3

\* The counters after an INCR, an EXPIRE and a period.
LEMMA CounterTyped ==
  ASSUME NEW c \in Counter, NEW k \in Key
  PROVE  /\ Unset \in Counter
         /\ Older(c) \in Counter
         /\ [c EXCEPT !.n = Least(c.n + 1, Limit[k] + 1)] \in Counter
         /\ [c EXCEPT !.ttl = CounterTTL] \in Counter
<1>1. /\ c.n \in 0 .. ZeroCycles + LowCycles /\ c.ttl \in 0 .. CounterTTL
      /\ CounterTTL \in Nat /\ CounterTTL > 0
      /\ ZeroCycles \in Nat /\ LowCycles \in Nat /\ ZeroCycles > 1 /\ LowCycles > 1
  BY Limits DEF Counter
<1>2. Limit[k] \in {ZeroCycles, LowCycles}
  BY DEF Limit, Key
<1>3. Least(c.n + 1, Limit[k] + 1) \in 0 .. ZeroCycles + LowCycles
  <2>1. c.n + 1 \in Nat /\ Limit[k] + 1 \in Nat /\ Limit[k] + 1 <= ZeroCycles + LowCycles
    BY <1>1, <1>2
  <2>2. Least(c.n + 1, Limit[k] + 1) \in 0 .. Limit[k] + 1
    BY <2>1, LeastTyped
  <2> QED
    BY <2>1, <2>2, <1>1
<1>4. Unset \in Counter
  BY <1>1 DEF Unset, Counter
<1>5. Older(c) \in Counter
  BY <1>1, <1>4 DEF Older, Counter
<1>6. [c EXCEPT !.n = Least(c.n + 1, Limit[k] + 1)] \in Counter
  BY <1>3 DEF Counter
<1>7. [c EXCEPT !.ttl = CounterTTL] \in Counter
  BY <1>1 DEF Counter
<1> QED
  BY <1>4, <1>5, <1>6, <1>7

\* At first every key is unset and nobody runs.
LEMMA TypesInit == Init => TypeOK
<1>1. Init => row \in Rows /\ misses \in 0 .. Cap
  BY CapTyped DEF Init, Rows
<1>2. Init => count \in [Key -> Counter]
  <2>1. Unset \in Counter
    BY Limits DEF Unset, Counter
  <2> QED
    BY <2>1 DEF Init
<1>3. Init => pending \in 0 .. PendingTTL
  BY Limits DEF Init
<1>4. Init => since \in 0 .. SinceTTL - 1 \union {None} /\ gone \in 0 .. SinceTTL \union {None}
  BY DEF Init
<1>5. Init => run \in [Run -> {Idle} \union Copies]
  BY DEF Init
<1>6. Init => changes \in 0 .. MaxChanges /\ late \in 0 .. MaxLate
  BY BoundsAssumption DEF Init
<1>7. Init => /\ apart \in BOOLEAN /\ cold \in BOOLEAN
              /\ reach \in BOOLEAN /\ source \in BOOLEAN
  BY DEF Init
<1>8. Init => /\ stream \in {"none", "slow", "fine"} /\ fps \in {None, "slow", "fine"}
              /\ due \in 0 .. 2 /\ lost \subseteq Key
  BY DEF Init
<1> QED
  BY <1>1, <1>2, <1>3, <1>4, <1>5, <1>6, <1>7, <1>8 DEF TypeOK

\* A period makes the keys older.
LEMMA TickTyped == TypeOK /\ Tick => TypeOK'
<1> SUFFICES ASSUME TypeOK, Tick
             PROVE  TypeOK'
  OBVIOUS
<1>1. due' \in 0 .. 2 /\ late' \in 0 .. MaxLate
  BY BoundsAssumption DEF Tick, TypeOK
<1>2. count' \in [Key -> Counter]
  BY CounterTyped DEF Tick, TypeOK
<1>3. since' \in 0 .. SinceTTL - 1 \union {None}
  <2>1. CASE since = None
    BY <2>1 DEF Tick, Aged
  <2>2. CASE since # None
    <3>1. since \in 0 .. SinceTTL - 1
      BY <2>2 DEF TypeOK
    <3> QED
      BY <2>2, <3>1, CapTyped DEF Tick, Aged
  <2> QED
    BY <2>1, <2>2
<1>4. pending' \in 0 .. PendingTTL
  BY Limits DEF Tick, TypeOK
<1>5. gone' \in 0 .. SinceTTL \union {None}
  <2>1. CASE gone = None
    BY <2>1 DEF Tick
  <2>2. CASE gone # None
    <3>1. gone \in 0 .. SinceTTL
      BY <2>2 DEF TypeOK
    <3> QED
      BY <2>2, <3>1, CapTyped, LeastTyped DEF Tick
  <2> QED
    BY <2>1, <2>2
<1> QED
  BY <1>1, <1>2, <1>3, <1>4, <1>5 DEF Tick, TypeOK, camera

\* The camera answers a run.
LEMMA ReachedTyped ==
  ASSUME TypeOK, NEW r \in Run, Reached(r)
  PROVE  /\ TypeOK'
         /\ run'[r] = [run[r] EXCEPT !.at = "save", !.up = TRUE,
                                     !.copy = [online |-> TRUE, failures |-> 0]]
         /\ run' = [run EXCEPT ![r] = run'[r]]
<1>1. run[r] \in Copies
  BY DEF TypeOK, Reached, At
<1>2. [online |-> TRUE, failures |-> 0] \in Rows
  BY CapTyped DEF Rows
<1> DEFINE new == [run[r] EXCEPT !.at = "save", !.up = TRUE,
                                 !.copy = [online |-> TRUE, failures |-> 0]]
<1>3. new \in Copies
  BY <1>1, <1>2 DEF Copies
<1>4. run' = [run EXCEPT ![r] = new]
  BY <1>1 DEF Reached, TypeOK
<1>5. run'[r] = new /\ run' \in [Run -> {Idle} \union Copies]
  BY <1>3, <1>4 DEF TypeOK
<1>6. misses' \in 0 .. Cap /\ gone' = None /\ since' \in {since, None}
  BY CapTyped DEF Reached, Heard
<1>7. TypeOK'
  BY <1>5, <1>6 DEF Reached, TypeOK, camera
<1> QED
  BY <1>4, <1>5, <1>7

\* It does not answer.
LEMMA MissedTyped ==
  ASSUME TypeOK, NEW r \in Run, Missed(r)
  PROVE  LET failures == Least(run[r].copy.failures + 1, Cap)
             away == failures >= MaxFailure /\ run[r].copy.online
         IN  /\ TypeOK'
             /\ run'[r] = [run[r] EXCEPT !.at = "save", !.copy =
                             [online |-> run[r].copy.online /\ ~away, failures |-> failures]]
             /\ run' = [run EXCEPT ![r] = run'[r]]
<1> DEFINE failures == Least(run[r].copy.failures + 1, Cap)
           away == failures >= MaxFailure /\ run[r].copy.online
           copy == [online |-> run[r].copy.online /\ ~away, failures |-> failures]
           new == [run[r] EXCEPT !.at = "save", !.copy = copy]
<1>1. run[r] \in Copies /\ run[r].copy \in Rows
  BY DEF TypeOK, Missed, At, Copies
<1>2. copy \in Rows
  <2>1. run[r].copy.failures + 1 \in Nat /\ run[r].copy.online \in BOOLEAN
    BY <1>1, CapTyped DEF Rows
  <2>2. failures \in 0 .. Cap
    BY <2>1, CapTyped, LeastTyped
  <2> HIDE DEF failures
  <2> QED
    BY <2>1, <2>2 DEF Rows
<1>3. run' = [run EXCEPT ![r] = new]
  BY <1>1 DEF Missed, TypeOK
<1>4. since' \in {since, 0}
  BY DEF Missed
<1> HIDE DEF copy
<1>5. new \in Copies
  BY <1>1, <1>2 DEF Copies
<1>6. run'[r] = new /\ run' \in [Run -> {Idle} \union Copies]
  BY <1>3, <1>5 DEF TypeOK
<1>7. TypeOK'
  <2>1. Unheard
    BY DEF Missed
  <2>2. since' \in 0 .. SinceTTL - 1 \union {None}
    BY <1>4, CapTyped DEF TypeOK
  <2> QED
    BY <1>6, <2>1, <2>2, UnheardTyped DEF Missed, TypeOK, camera
<1> QED
  BY <1>3, <1>6, <1>7 DEF copy

\* The rate is checked.
LEMMA CheckRateTyped ==
  ASSUME TypeOK, NEW r \in Run, CheckRate(r)
  PROVE  /\ TypeOK'
         /\ \E new \in {Idle} \union Copies :
              /\ run' = [run EXCEPT ![r] = new]
              /\ new = Idle \/ new.at \in {"expire", "reset"}
<1>1. run[r] \in Copies
  BY DEF TypeOK, CheckRate, At
<1> DEFINE at(a, k) == [run[r] EXCEPT !.at = a, !.key = k]
<1>2. \A k \in Key : at("expire", k) \in Copies /\ at("reset", k) \in Copies
  BY <1>1 DEF Copies
<1>3. \A k \in Key : [count EXCEPT ![k].n = Least(count[k].n + 1, Limit[k] + 1)]
                       \in [Key -> Counter]
  <2> TAKE k \in Key
  <2>1. count[k] \in Counter
    BY DEF TypeOK
  <2>2. [count[k] EXCEPT !.n = Least(count[k].n + 1, Limit[k] + 1)] \in Counter
    BY <2>1, CounterTyped
  <2> QED
    BY <2>2 DEF TypeOK
<1>4. [k \in Key |-> Unset] \in [Key -> Counter]
  BY CounterTyped DEF TypeOK, Key
<1>5. ASSUME NEW k \in Key, Increment(r, k)
      PROVE  /\ count' \in [Key -> Counter]
             /\ \E new \in {Idle, at("expire", k), at("reset", k)} :
                  run' = [run EXCEPT ![r] = new]
  BY <1>1, <1>3, <1>5 DEF Increment, End, TypeOK
<1>6. /\ count' \in [Key -> Counter]
      /\ \E k \in Key : \E new \in {Idle, at("expire", k), at("reset", k)} :
           run' = [run EXCEPT ![r] = new]
  BY <1>4, <1>5 DEF CheckRate, Key, End
<1>a. PICK k \in Key : \E new \in {Idle, at("expire", k), at("reset", k)} :
        run' = [run EXCEPT ![r] = new]
  BY <1>6
<1>7. PICK new \in {Idle, at("expire", k), at("reset", k)} :
        run' = [run EXCEPT ![r] = new]
  BY <1>a
<1>8. new \in {Idle} \union Copies /\ (new = Idle \/ new.at \in {"expire", "reset"})
  BY <1>1, <1>2, <1>7 DEF Copies
<1>9. TypeOK'
  <2>1. run' \in [Run -> {Idle} \union Copies]
    BY <1>7, <1>8 DEF TypeOK
  <2> QED
    BY <2>1, <1>6 DEF CheckRate, TypeOK, camera, history
<1> QED
  BY <1>7, <1>8, <1>9

\* What goes on past the save, or ends.
LEMMA PastTyped ==
  ASSUME TypeOK, NEW r \in Run,
         Expire(r) \/ Reset(r) \/ Pend(r) \/ CheckAway(r) \/ Regenerate(r) \/ Clean(r)
  PROVE  /\ TypeOK'
         /\ \E new \in {Idle} \union Copies :
              /\ run' = [run EXCEPT ![r] = new]
              /\ new = Idle \/ new.at \in {"pend", "regen", "clean"}
<1>1. run[r] # Idle /\ run[r].key \in Key
  BY DEF Expire, Reset, Pend, CheckAway, Regenerate, Clean, At, TypeOK, Copies
<1> DEFINE go(at) == [run[r] EXCEPT !.at = at]
<1>2. \A at \in {"pend", "regen", "clean"} :
        go(at) \in Copies /\ [run EXCEPT ![r].at = at] = [run EXCEPT ![r] = go(at)]
  BY <1>1, GoTyped
<1>3. \A at \in {"pend", "regen", "clean"} : go(at).at = at
  BY <1>1 DEF TypeOK, Copies
<1> HIDE DEF go
<1>4. \E new \in {Idle, go("pend"), go("regen"), go("clean")} : run' = [run EXCEPT ![r] = new]
  <2>1. CASE Expire(r)
    BY <2>1 DEF Expire, End
  <2>2. CASE Reset(r)
    BY <1>2, <2>2 DEF Reset, Go
  <2>3. CASE Pend(r)
    BY <1>2, <2>3 DEF Pend, Go
  <2>4. CASE CheckAway(r)
    BY <1>2, <2>4 DEF CheckAway, Go, End
  <2>5. CASE Regenerate(r)
    BY <1>2, <2>5 DEF Regenerate, Go
  <2>6. CASE Clean(r)
    BY <2>6 DEF Clean
  <2> QED
    BY <2>1, <2>2, <2>3, <2>4, <2>5, <2>6
<1>5. PICK new \in {Idle, go("pend"), go("regen"), go("clean")} : run' = [run EXCEPT ![r] = new]
  BY <1>4
<1>6. new \in {Idle} \union Copies /\ (new = Idle \/ new.at \in {"pend", "regen", "clean"})
  BY <1>2, <1>3, <1>5
<1>7. run' \in [Run -> {Idle} \union Copies]
  BY <1>5, <1>6 DEF TypeOK
<1>8. count' \in [Key -> Counter]
  <2>1. Unset \in Counter
    BY Limits DEF Unset, Counter
  <2>2. count[run[r].key] \in Counter
    BY <1>1 DEF TypeOK
  <2>3. [count[run[r].key] EXCEPT !.ttl = CounterTTL] \in Counter
    BY <2>2, CounterTyped, <1>1
  <2>4. count' \in {count, [count EXCEPT ![run[r].key].ttl = CounterTTL],
                    [count EXCEPT ![run[r].key] = Unset], [k \in Key |-> Unset]}
    BY DEF Expire, Reset, Pend, CheckAway, Regenerate, Clean, redis
  <2> QED
    BY <1>1, <2>1, <2>3, <2>4 DEF TypeOK
<1>9. pending' \in 0 .. PendingTTL
  BY Limits DEF Expire, Reset, Pend, CheckAway, Regenerate, Clean, redis, TypeOK
<1>10. source' \in BOOLEAN /\ fps' \in {None, "slow", "fine"}
  BY DEF Expire, Reset, Pend, CheckAway, Regenerate, Clean, redis, TypeOK, Rows
<1>11. /\ UNCHANGED <<reach, stream, row, since, due, misses, gone, apart, cold, lost>>
       /\ UNCHANGED <<changes, late>>
  BY DEF Expire, Reset, Pend, CheckAway, Regenerate, Clean, redis, camera, history
<1>12. TypeOK'
  BY <1>7, <1>8, <1>9, <1>10, <1>11 DEF TypeOK
<1> QED
  BY <1>5, <1>6, <1>12

\* Every step keeps the types.
LEMMA TypesStep == TypeOK /\ [Next]_vars => TypeOK'
<1> SUFFICES ASSUME TypeOK, [Next]_vars
             PROVE  TypeOK'
  OBVIOUS
<1>1. CASE UNCHANGED vars
  BY <1>1 DEF vars, camera, redis, history, TypeOK
<1>2. CASE CameraChanges
  <2>1. reach' \in BOOLEAN /\ stream' \in {"none", "slow", "fine"}
    BY <1>2 DEF CameraChanges, TypeOK
  <2>2. changes' \in 0 .. MaxChanges
    BY <1>2, BoundsAssumption DEF CameraChanges, Change, TypeOK
  <2> QED
    BY <1>2, <2>1, <2>2 DEF CameraChanges, redis, history, TypeOK
<1>3. CASE Probe
  BY <1>3 DEF Probe, camera, history, TypeOK
<1>4. CASE Tick
  BY <1>4, TickTyped
<1>5. ASSUME NEW r \in Run, NEW at \in {"ping", "scan", "boot"}, Reads(r, at),
             changes' \in 0 .. MaxChanges, due' \in 0 .. 2,
             UNCHANGED <<camera, row, redis, misses, gone, cold, lost, late>>
      PROVE  TypeOK'
  <2>1. run' \in [Run -> {Idle} \union Copies] /\ apart' \in BOOLEAN
    BY <1>5, BeginTyped DEF Reads, TypeOK
  <2> QED
    BY <1>5, <2>1 DEF camera, redis, TypeOK
<1>6. ASSUME NEW r \in Run, Start(r)
      PROVE  TypeOK'
  BY <1>5, <1>6 DEF Start, TypeOK
<1>7. ASSUME NEW r \in Run, Scan(r) \/ Boot(r)
      PROVE  TypeOK'
  BY <1>5, <1>7, BoundsAssumption DEF Scan, Boot, Change, TypeOK
<1>8. ASSUME NEW r \in Run, Others(r)
      PROVE  TypeOK'
  <2>1. run' \in [Run -> {Idle} \union Copies]
    BY <1>8, BeginTyped DEF Others
  <2> QED
    BY <1>8, <2>1, BoundsAssumption DEF Others, Change, camera, redis, history, TypeOK
<1>9. ASSUME NEW r \in Run, Die(r)
      PROVE  TypeOK'
  <2>1. run' \in [Run -> {Idle} \union Copies] /\ apart' \in BOOLEAN
    BY <1>9, EndTyped DEF Die, TypeOK
  <2>2. lost' \subseteq Key
    BY <1>9 DEF Die, At, TypeOK, Copies
  <2> QED
    BY <1>9, <2>1, <2>2, BoundsAssumption DEF Die, Change, camera, redis, TypeOK
<1>10. ASSUME NEW r \in Run, Save(r)
       PROVE  TypeOK'
  <2>1. run' \in [Run -> {Idle} \union Copies] /\ row' \in Rows /\ cold' \in BOOLEAN
    <3>1. run[r] # Idle
      BY <1>10 DEF Save, At
    <3>2. run[r] \in Copies
      BY <3>1, GoTyped
    <3> QED
      BY <1>10, <3>1, <3>2, GoTyped DEF Save, Go, Copies, TypeOK
  <2>2. since' \in {since, None}
    BY <1>10 DEF Save
  <2> QED
    BY <1>10, <2>1, <2>2 DEF Save, camera, TypeOK
<1>11. ASSUME NEW r \in Run, Scanned(r)
       PROVE  TypeOK'
  <2>1. run' \in [Run -> {Idle} \union Copies] /\ row' \in Rows /\ cold' \in BOOLEAN
    BY <1>11, EndTyped DEF Scanned, At, Copies, TypeOK
  <2> QED
    BY <1>11, <2>1 DEF Scanned, camera, redis, TypeOK
<1>12. ASSUME NEW r \in Run, Booted(r)
       PROVE  TypeOK'
  <2>1. run' \in [Run -> {Idle} \union Copies] /\ cold' \in BOOLEAN
    BY <1>12, EndTyped DEF Booted, TypeOK, Rows
  <2>2. row' \in Rows
    BY <1>12, CapTyped DEF Booted, At, Copies, Rows, TypeOK
  <2>3. misses' \in 0 .. Cap /\ gone' \in 0 .. SinceTTL \union {None}
    <3>1. CASE reach
      BY <1>12, <3>1, CapTyped DEF Booted, Heard
    <3>2. CASE ~reach
      BY <1>12, <3>2, UnheardTyped DEF Booted
    <3> QED
      BY <3>1, <3>2
  <2> QED
    BY <1>12, <2>1, <2>2, <2>3 DEF Booted, camera, redis, TypeOK
<1>13. ASSUME NEW r \in Run, RunStep(r)
       PROVE  TypeOK'
  BY <1>10, <1>11, <1>12, <1>13, ReachedTyped, MissedTyped, CheckRateTyped, PastTyped
     DEF RunStep
<1> QED
  BY <1>1, <1>2, <1>3, <1>4, <1>6, <1>7, <1>8, <1>9, <1>13 DEF Next

\* Every key, count and copy keeps its type, however late or overlapping the
\* runs, and whatever expires.
THEOREM HealthTyped == Spec => []TypeOK
BY TypesInit, TypesStep, PTL DEF Spec

----------------------------------------------------------------------------
(* The counters of bad rates.                                              *)

\* What is said of one key.
Expires(k) ==
  count[k].n > 0 /\ count[k].ttl = 0 => k \in lost \/ \E r \in Run : At(r, "expire") /\ run[r].key = k

\* A run that ends or goes on elsewhere than from "expire" leaves the promises
\* of the others.
LEMMA PromiseKept ==
  ASSUME TypeOK, NEW k \in Key, Expires(k), NEW r \in Run, NEW new,
         run' = [run EXCEPT ![r] = new], lost \subseteq lost',
         At(r, "expire") /\ run[r].key = k => k \in lost' \/ count'[k].ttl > 0 \/ count'[k].n = 0,
         count'[k].n > 0 /\ count'[k].ttl = 0 => count[k].n > 0 /\ count[k].ttl = 0
  PROVE  Expires(k)'
<1> SUFFICES ASSUME count'[k].n > 0, count'[k].ttl = 0, k \notin lost'
             PROVE  \E s \in Run : At(s, "expire")' /\ run'[s].key = k
  BY DEF Expires
<1>1. PICK s \in Run : At(s, "expire") /\ run[s].key = k
  BY DEF Expires
<1>2. s # r
  BY <1>1
<1>3. run'[s] = run[s]
  BY <1>2 DEF TypeOK
<1> QED
  BY <1>1, <1>3 DEF At

\* Counting: the first count is to be given its expiry.
LEMMA IncrementExpires ==
  ASSUME TypeOK, NEW k \in Key, Expires(k), NEW r \in Run, NEW j \in Key,
         At(r, "check"), Increment(r, j), lost' = lost
  PROVE  Expires(k)'
<1>1. run[r] \in Copies
  BY DEF At, TypeOK
<1>2. ~At(r, "expire")
  BY DEF At
<1>3. \E new : run' = [run EXCEPT ![r] = new]
  <2>1. \/ run' = [run EXCEPT ![r] = [run[r] EXCEPT !.at = "expire", !.key = j]]
        \/ run' = [run EXCEPT ![r] = [run[r] EXCEPT !.at = "reset", !.key = j]]
        \/ run' = [run EXCEPT ![r] = Idle]
    BY <1>1 DEF Increment, End, TypeOK
  <2> QED
    BY <2>1
<1>4. CASE j # k
  <2>1. count'[k] = count[k]
    BY <1>4 DEF Increment, TypeOK
  <2> QED
    BY <1>2, <1>3, <2>1, PromiseKept
<1>5. CASE j = k /\ count[k].n = 0
  <2>1. Least(count[k].n + 1, Limit[k] + 1) = 1
    <3>1. Limit[k] \in Nat
      BY Limits DEF Limit, Key
    <3> QED
      BY <1>5, <3>1 DEF Least
  <2>2. run' = [run EXCEPT ![r].at = "expire", ![r].key = k]
    <3>1. Limit[k] \in Nat /\ Limit[k] > 1
      BY Limits DEF Limit, Key
    <3> QED
      BY <1>5, <2>1, <3>1 DEF Increment
  <2>3. run'[r] = [run[r] EXCEPT !.at = "expire", !.key = k]
    BY <2>2 DEF TypeOK
  <2>4. run'[r].at = "expire" /\ run'[r].key = k /\ run'[r] # Idle
    BY <1>1, <2>3 DEF Copies, Idle
  <2> QED
    BY <2>4 DEF Expires, At
<1>6. CASE j = k /\ count[k].n # 0
  <2>1. count[k] \in Counter
    BY DEF TypeOK
  <2>2. count'[k].ttl = count[k].ttl /\ count[k].n > 0
    BY <1>6, <2>1 DEF Increment, TypeOK, Counter
  <2> QED
    BY <1>2, <1>3, <2>2, PromiseKept
<1> QED
  BY <1>4, <1>5, <1>6

\* Every step keeps what is said of a key.
LEMMA ExpiresStep ==
  ASSUME TypeOK, NEW k \in Key, Expires(k), [Next]_vars
  PROVE  Expires(k)'
<1>1. CASE UNCHANGED vars \/ CameraChanges \/ Probe
  BY <1>1 DEF vars, CameraChanges, Probe, redis, history, Expires, At
<1>2. CASE Tick
  <2>1. count'[k] = Older(count[k]) /\ count[k] \in Counter
    BY <1>2 DEF Tick, TypeOK
  <2>2. Older(count[k]).n > 0 /\ Older(count[k]).ttl = 0 => Older(count[k]) = count[k]
    BY <2>1 DEF Older, Unset, Counter
  <2> QED
    BY <1>2, <2>1, <2>2 DEF Tick, Expires, At
<1>3. ASSUME NEW r \in Run, Start(r) \/ Scan(r) \/ Boot(r) \/ Others(r)
      PROVE  Expires(k)'
  <2>1. /\ \E new : run' = [run EXCEPT ![r] = new]
        /\ ~At(r, "expire") /\ count' = count /\ lost' = lost
    BY <1>3 DEF Start, Scan, Boot, Others, Reads, At, redis, history
  <2> QED
    BY <2>1, PromiseKept
<1>4. ASSUME NEW r \in Run, Die(r)
      PROVE  Expires(k)'
  <2>1. /\ \E new : run' = [run EXCEPT ![r] = new]
        /\ At(r, "expire") /\ run[r].key = k => k \in lost'
        /\ count' = count /\ lost \subseteq lost'
    BY <1>4 DEF Die, redis
  <2> QED
    BY <2>1, PromiseKept
<1>5. ASSUME NEW r \in Run, Reached(r) \/ Missed(r) \/ Save(r) \/ Scanned(r) \/ Booted(r)
      PROVE  Expires(k)'
  <2>1. /\ \E new : run' = [run EXCEPT ![r] = new]
        /\ ~At(r, "expire") /\ count' = count /\ lost' = lost
    <3>1. CASE Reached(r)
      BY <3>1, ReachedTyped DEF Reached, At
    <3>2. CASE Missed(r)
      BY <3>2, MissedTyped DEF Missed, At
    <3>3. CASE Save(r)
      BY <3>3, GoTyped DEF Save, Go, At
    <3>4. CASE Scanned(r) \/ Booted(r)
      BY <3>4 DEF Scanned, Booted, At, redis
    <3> QED
      BY <1>5, <3>1, <3>2, <3>3, <3>4
  <2> QED
    BY <2>1, PromiseKept
<1>6. ASSUME NEW r \in Run, CheckRate(r)
      PROVE  Expires(k)'
  <2>1. At(r, "check") /\ lost' = lost
    BY <1>6 DEF CheckRate, history
  <2>2. ASSUME NEW j \in Key, Increment(r, j)
        PROVE  Expires(k)'
    BY <2>1, <2>2, IncrementExpires
  <2>3. CASE count' = [j \in Key |-> Unset]
    BY <2>3 DEF Expires, Unset
  <2> QED
    BY <1>6, <2>2, <2>3 DEF CheckRate, Key
<1>7. ASSUME NEW r \in Run, Expire(r)
      PROVE  Expires(k)'
  <2>1. /\ run' = [run EXCEPT ![r] = Idle] /\ lost' = lost
        /\ run[r].key \in Key /\ count[k] \in Counter
    BY <1>7 DEF Expire, End, history, At, TypeOK, Copies
  <2>2. run[r].key = k => count'[k].ttl > 0 \/ count'[k].n = 0
    <3> SUFFICES ASSUME run[r].key = k, count[k].n # 0
                 PROVE  count'[k].ttl > 0
      BY <1>7, <2>1 DEF Expire
    <3>1. count'[k] = [count[k] EXCEPT !.ttl = CounterTTL]
      BY <1>7, <2>1 DEF Expire, TypeOK
    <3> QED
      BY <2>1, <3>1, Limits DEF Counter
  <2>3. count'[k] = count[k] \/ (run[r].key = k /\ (count'[k].ttl > 0 \/ count'[k].n = 0))
    BY <1>7, <2>1, <2>2 DEF Expire, TypeOK
  <2>4. ~(count'[k].ttl > 0 /\ count'[k].ttl = 0)
    BY <1>7, TypesStep DEF TypeOK, Counter
  <2>5. ~(count'[k].n > 0 /\ count'[k].n = 0)
    BY <1>7, TypesStep DEF TypeOK, Counter
  <2> QED
    BY <2>1, <2>2, <2>3, <2>4, <2>5, PromiseKept
<1>8. ASSUME NEW r \in Run, Reset(r) \/ Pend(r) \/ CheckAway(r) \/ Regenerate(r) \/ Clean(r)
      PROVE  Expires(k)'
  <2>1. \E new : run' = [run EXCEPT ![r] = new]
    BY <1>8, PastTyped
  <2>2. ~At(r, "expire") /\ lost' = lost
    BY <1>8 DEF Reset, Pend, CheckAway, Regenerate, Clean, At, history
  <2>3. count'[k] \in {count[k], Unset}
    BY <1>8 DEF Reset, Pend, CheckAway, Regenerate, Clean, redis, TypeOK
  <2>4. ~(Unset.n > 0)
    BY DEF Unset
  <2> QED
    BY <2>1, <2>2, <2>3, <2>4, PromiseKept
<1> QED
  BY <1>1, <1>2, <1>3, <1>4, <1>5, <1>6, <1>7, <1>8 DEF Next, RunStep

\* A counter that would live for ever is one whose run died before EXPIRE, or
\* has not come to it yet; neither overlaps nor expiries make another.
THEOREM CountersExpire == Spec => []CounterExpires
<1>1. CounterExpires <=> \A k \in Key : Expires(k)
  BY DEF CounterExpires, Expires
<1>2. Init => CounterExpires
  <2>1. Init => \A k \in Key : ~(count[k].n > 0)
    BY DEF Init, Unset
  <2> QED
    BY <2>1 DEF CounterExpires
<1>3. TypeOK /\ CounterExpires /\ [Next]_vars => CounterExpires'
  <2> SUFFICES ASSUME TypeOK, CounterExpires, [Next]_vars
               PROVE  CounterExpires'
    OBVIOUS
  <2>1. \A k \in Key : Expires(k)'
    BY <1>1, ExpiresStep
  <2> QED
    BY <2>1 DEF CounterExpires, Expires
<1> QED
  BY <1>2, <1>3, TypesInit, TypesStep, PTL DEF Spec

----------------------------------------------------------------------------
(* The row and the copies, while nothing overlaps.                         *)

Judging(r) == At(r, "ping") \/ At(r, "scan") \/ At(r, "boot") \/ At(r, "save")
Single == \A r, s \in Run : Judging(r) /\ Judging(s) => r = s

\* The last MAX_FAILURE_COUNT pings failed, and Redis has the time of the last.
Away ==
  /\ misses >= MaxFailure /\ gone # None
  /\ since = IF gone < SinceTTL THEN gone ELSE None

\* What a row, or the copy that is about to be saved, says of the camera.
Tells(c) ==
  /\ c.online => c.failures = misses /\ misses < MaxFailure
  /\ ~c.online /\ ~cold => Away

\* Who has not judged the camera yet has what is in the row; the row tells the
\* truth but while a run has judged and not saved, and then its copy does.
Judged(r) ==
  /\ At(r, "ping") \/ At(r, "scan") \/ At(r, "boot") => run[r].copy = row /\ ~run[r].up
  /\ At(r, "save") /\ run[r].up =>
       run[r].copy = [online |-> TRUE, failures |-> 0] /\ misses = 0
  /\ At(r, "save") /\ ~run[r].up =>
       Tells(run[r].copy) /\ (row.online /\ ~run[r].copy.online => Away)

HealthInv ==
  /\ TypeOK /\ (row.online => ~cold)
  /\ apart =>
       /\ Single
       /\ \A r \in Run : Judged(r)
       /\ (\A r \in Run : ~At(r, "save")) => Tells(row)

\* At first no run is under way, and nothing has failed.
LEMMA HealthInit == Init => HealthInv
<1> SUFFICES ASSUME Init
             PROVE  HealthInv
  OBVIOUS
<1>1. \A r \in Run : run[r] = Idle
  BY DEF Init
<1>2. Single /\ \A r \in Run : Judged(r)
  BY <1>1 DEF Single, Judging, Judged, At
<1>3. Tells(row) /\ (row.online => ~cold)
  BY CapTyped DEF Init, Tells
<1> QED
  BY <1>2, <1>3, TypesInit DEF HealthInv

\* Steps in which neither a run nor the row nor a ping takes part.
LEMMA OutsideKeeps ==
  ASSUME HealthInv, TypeOK', UNCHANGED <<row, misses, run, apart, cold>>, Away => Away'
  PROVE  HealthInv'
BY DEF HealthInv, Single, Judging, Judged, Tells, At

\* Of the runs that are past their save, or have none to do, nothing is said.
LEMMA PastKeeps ==
  ASSUME HealthInv, TypeOK', UNCHANGED <<row, misses, since, gone, cold>>, apart' => apart,
         NEW r \in Run, apart' => ~At(r, "save"),
         NEW new \in {Idle} \union Copies, run' = [run EXCEPT ![r] = new],
         new = Idle \/ new.at \in {"expire", "reset", "pend", "regen", "clean"}
  PROVE  HealthInv'
<1> SUFFICES ASSUME apart'
             PROVE  /\ Single' /\ (\A s \in Run : Judged(s)')
                    /\ (\A s \in Run : ~At(s, "save")') => Tells(row)'
  BY DEF HealthInv
<1>1. /\ Single /\ ~At(r, "save") /\ \A s \in Run : Judged(s)
      /\ (\A s \in Run : ~At(s, "save")) => Tells(row)
  BY DEF HealthInv
<1>2. \A s \in Run : s # r => run'[s] = run[s]
  BY DEF HealthInv, TypeOK
<1>3. run'[r] = new
  BY DEF HealthInv, TypeOK
<1>4. ~At(r, "save")' /\ ~At(r, "ping")' /\ ~At(r, "scan")' /\ ~At(r, "boot")'
  BY <1>3 DEF At
<1>5. Single'
  BY <1>1, <1>2, <1>4 DEF Single, Judging, At
<1>6. ASSUME NEW s \in Run
      PROVE  Judged(s)'
  <2>1. CASE s = r
    BY <1>4, <2>1 DEF Judged
  <2>2. CASE s # r
    <3>1. run'[s] = run[s] /\ Judged(s)
      BY <1>1, <1>2, <2>2
    <3> QED
      BY <3>1 DEF Judged, At, Tells, Away
  <2> QED
    BY <2>1, <2>2
<1>7. (\A s \in Run : ~At(s, "save")') => Tells(row)'
  <2> SUFFICES ASSUME \A s \in Run : ~At(s, "save")'
               PROVE  Tells(row)'
    OBVIOUS
  <2>1. \A s \in Run : ~At(s, "save")
    BY <1>1, <1>2 DEF At
  <2> QED
    BY <1>1, <2>1 DEF Tells, Away
<1> QED
  BY <1>5, <1>6, <1>7

\* A run, a session or a start-up that begins reads the row.
LEMMA BeginKeeps ==
  ASSUME HealthInv, TypeOK', UNCHANGED <<row, misses, since, gone, cold>>,
         NEW r \in Run, NEW at \in {"ping", "scan", "boot"}, Reads(r, at)
  PROVE  HealthInv'
<1> SUFFICES ASSUME apart'
             PROVE  /\ Single' /\ (\A s \in Run : Judged(s)')
                    /\ (\A s \in Run : ~At(s, "save")') => Tells(row)'
  BY DEF HealthInv
<1> DEFINE new == [at |-> at, copy |-> row, src |-> source, up |-> FALSE, key |-> "zero"]
<1>1. apart /\ \A s \in Run : run[s] = Idle
  BY DEF Reads, Quiet
<1>2. (\A s \in Run : ~At(s, "save")) /\ Tells(row)
  BY <1>1 DEF HealthInv, At
<1>3. run'[r] = new /\ \A s \in Run : s # r => run'[s] = Idle
  BY <1>1 DEF Reads, HealthInv, TypeOK
<1>4. \A s \in Run : ~At(s, "save")' /\ (s # r => run'[s] = Idle)
  BY <1>3 DEF At
<1>5. run'[r].copy = row' /\ ~run'[r].up
  BY <1>3
<1>6. Single' /\ \A s \in Run : Judged(s)'
  BY <1>4, <1>5 DEF Single, Judging, Judged, At
<1>7. Tells(row)'
  BY <1>2 DEF Tells, Away
<1> QED
  BY <1>6, <1>7

\* A camera that has failed too often goes on doing so.
LEMMA UnheardOnly ==
  ASSUME misses \in 0 .. Cap, misses >= MaxFailure, Unheard
  PROVE  misses' >= MaxFailure /\ gone' = gone
<1>1. misses + 1 \in Nat /\ misses + 1 > MaxFailure /\ misses + 1 # MaxFailure
  BY CapTyped
<1>2. misses' = Least(misses + 1, Cap) /\ gone' = gone
  BY <1>1 DEF Unheard
<1>3. misses + 1 <= Cap \/ misses' = Cap
  BY <1>1, <1>2, CapTyped, LeastTyped
<1> QED
  BY <1>1, <1>2, <1>3, CapTyped, LeastTyped

\* The camera answers a run.
LEMMA ReachedKeeps ==
  ASSUME HealthInv, NEW r \in Run, Reached(r)
  PROVE  HealthInv'
<1>1. TypeOK' /\ run'[r] = [run[r] EXCEPT !.at = "save", !.up = TRUE,
                                          !.copy = [online |-> TRUE, failures |-> 0]]
      /\ run' = [run EXCEPT ![r] = run'[r]]
  BY ReachedTyped DEF HealthInv
<1>2. run[r] \in Copies /\ At(r, "ping") /\ row' = row /\ cold' = cold /\ apart' = apart
      /\ misses' = 0
  BY DEF Reached, HealthInv, TypeOK, At, Heard
<1>3. run'[r].at = "save" /\ run'[r].up /\ run'[r].copy = [online |-> TRUE, failures |-> 0]
      /\ run'[r] # Idle
  BY <1>1, <1>2 DEF Copies, Idle
<1>4. \A s \in Run : s # r => run'[s] = run[s]
  BY <1>1 DEF HealthInv, TypeOK
<1> SUFFICES ASSUME apart'
             PROVE  /\ Single' /\ (\A s \in Run : Judged(s)')
                    /\ (\A s \in Run : ~At(s, "save")') => Tells(row)'
  BY <1>1, <1>2 DEF HealthInv
<1>5. \A s \in Run : s # r => ~Judging(s)
  BY <1>2 DEF HealthInv, Single, Judging
<1>6. \A s \in Run : s # r => ~Judging(s)'
  BY <1>4, <1>5 DEF Judging, At
<1>7. Judged(r)' /\ At(r, "save")'
  BY <1>2, <1>3 DEF Judged, At
<1> QED
  BY <1>6, <1>7 DEF Single, Judging, Judged

\* It does not answer: the copy counts one more, and so do the misses.
LEMMA MissedKeeps ==
  ASSUME HealthInv, NEW r \in Run, Missed(r)
  PROVE  HealthInv'
<1> DEFINE failures == Least(run[r].copy.failures + 1, Cap)
           away == failures >= MaxFailure /\ run[r].copy.online
           copy == [online |-> run[r].copy.online /\ ~away, failures |-> failures]
<1>1. TypeOK' /\ run'[r] = [run[r] EXCEPT !.at = "save", !.copy = copy]
      /\ run' = [run EXCEPT ![r] = run'[r]]
  BY MissedTyped DEF HealthInv
<1>2. run[r] \in Copies /\ At(r, "ping") /\ row' = row /\ cold' = cold /\ apart' = apart
      /\ Unheard /\ since' = IF away THEN 0 ELSE since
  BY DEF Missed, HealthInv, TypeOK, At
<1>c. PICK c : c = copy
  OBVIOUS
<1> HIDE DEF copy
<1>3. run'[r].at = "save" /\ run'[r].up = run[r].up /\ run'[r].copy = c /\ run'[r] # Idle
  BY <1>1, <1>2, <1>c DEF Copies, Idle
<1>4. \A s \in Run : s # r => run'[s] = run[s]
  BY <1>1 DEF HealthInv, TypeOK
<1> SUFFICES ASSUME apart'
             PROVE  /\ Single' /\ (\A s \in Run : Judged(s)')
                    /\ (\A s \in Run : ~At(s, "save")') => Tells(row)'
  BY <1>1, <1>2 DEF HealthInv
<1>5. \A s \in Run : s # r => ~Judging(s)
  BY <1>2 DEF HealthInv, Single, Judging
<1>6. \A s \in Run : s # r => ~Judging(s)'
  BY <1>4, <1>5 DEF Judging, At
<1>7. run[r].copy = row /\ ~run[r].up /\ Tells(row)
  <2>1. Judged(r) /\ \A s \in Run : ~At(s, "save")
    BY <1>2, <1>5 DEF HealthInv, Judging, At
  <2> QED
    BY <1>2, <2>1 DEF HealthInv, Judged
<1>8. Tells(c)' /\ (row.online /\ ~c.online => Away')
  <2>1. /\ c.online = (row.online /\ ~away) /\ c.failures = failures
        /\ row.failures \in 0 .. Cap /\ misses \in 0 .. Cap
        /\ since \in Nat \union {None}
    BY <1>7, <1>c DEF copy, HealthInv, TypeOK, Rows
  <2>2. CASE row.online
    <3>1. row.failures = misses /\ misses < MaxFailure
      BY <1>7, <2>2 DEF Tells
    <3>2. failures = misses + 1 /\ misses' = misses + 1
      BY <1>2, <1>7, <2>1, <3>1, CapTyped, LeastTyped DEF Unheard
    <3>3. away => misses + 1 = MaxFailure
      <4> HIDE DEF failures
      <4> QED
        BY <2>1, <3>1, <3>2, CapTyped
    <3>4. away => Away'
      BY <1>2, <3>2, <3>3, NoTime, CapTyped DEF Unheard, Away
    <3>5. ~away => misses' < MaxFailure /\ c.failures = misses'
      <4>1. ~away => failures < MaxFailure
        <5>1. failures \in Nat
          <6> HIDE DEF failures
          <6> QED
            BY <2>1, <3>2
        <5> HIDE DEF failures
        <5> QED
          BY <1>7, <2>2, <5>1, CapTyped
      <4> HIDE DEF failures
      <4> QED
        BY <2>1, <3>2, <4>1
    <3> HIDE DEF away
    <3> QED
      BY <2>1, <2>2, <3>4, <3>5 DEF Tells
  <2>3. CASE ~row.online
    <3>1. ~c.online /\ since' = since
      BY <1>2, <1>7, <2>1, <2>3
    <3>2. ~cold => misses >= MaxFailure /\ Away
      BY <1>7, <2>3 DEF Tells, Away
    <3>3. misses >= MaxFailure => misses' >= MaxFailure /\ gone' = gone
      BY <1>2, <2>1, UnheardOnly
    <3>4. ~cold' => Away'
      BY <1>2, <3>1, <3>2, <3>3 DEF Away
    <3> QED
      BY <2>3, <3>1, <3>4 DEF Tells
  <2> QED
    BY <2>2, <2>3
<1>9. Judged(r)' /\ At(r, "save")'
  <2>1. ~run'[r].up /\ row' = row /\ At(r, "save")'
    BY <1>2, <1>3, <1>7 DEF At
  <2>2. Tells(run[r].copy)'
    BY <1>3, <1>8 DEF Tells
  <2>3. row'.online /\ ~run'[r].copy.online => Away'
    BY <1>3, <1>8, <2>1
  <2> QED
    BY <1>3, <2>1, <2>2, <2>3 DEF Judged, At
<1> QED
  BY <1>6, <1>9 DEF Single, Judging, Judged

\* A run saves its copy.
LEMMA SaveKeeps ==
  ASSUME HealthInv, NEW r \in Run, Save(r)
  PROVE  HealthInv'
<1>1. run[r] \in Copies /\ At(r, "save") /\ row' = run[r].copy /\ apart' = apart
      /\ cold' = (cold /\ ~run[r].copy.online)
      /\ UNCHANGED <<misses, gone>> /\ since' = IF run[r].up THEN None ELSE since
  BY DEF Save, HealthInv, TypeOK, At
<1>2. TypeOK'
  BY TypesStep DEF HealthInv, Next, RunStep
<1>3. run' = [run EXCEPT ![r] = [run[r] EXCEPT !.at = "check"]]
  BY <1>1 DEF Save, Go, HealthInv, TypeOK
<1>4. run'[r].at = "check"
  BY <1>1, <1>3 DEF HealthInv, TypeOK, Copies
<1>5. \A s \in Run : s # r => run'[s] = run[s]
  BY <1>3 DEF HealthInv, TypeOK
<1>6. row'.online => ~cold'
  BY <1>1
<1> SUFFICES ASSUME apart'
             PROVE  /\ Single' /\ (\A s \in Run : Judged(s)')
                    /\ (\A s \in Run : ~At(s, "save")') => Tells(row)'
  BY <1>2, <1>6 DEF HealthInv
<1>7. \A s \in Run : s # r => ~Judging(s)
  BY <1>1 DEF HealthInv, Single, Judging
<1>8. \A s \in Run : ~Judging(s)'
  BY <1>4, <1>5, <1>7 DEF Judging, At
<1>9. Tells(row)'
  <2>1. CASE run[r].up
    BY <1>1, <2>1, CapTyped DEF HealthInv, Judged, Tells
  <2>2. CASE ~run[r].up
    <3>1. Tells(run[r].copy) /\ (row.online /\ ~run[r].copy.online => Away)
      BY <1>1, <2>2 DEF HealthInv, Judged
    <3>2. UNCHANGED <<misses, gone, since>>
      BY <1>1, <2>2
    <3>3. run[r].copy.online => run[r].copy.failures = misses' /\ misses' < MaxFailure
      BY <3>1, <3>2 DEF Tells
    <3>4. ~run[r].copy.online /\ ~cold' => Away
      BY <1>1, <3>1 DEF Tells
    <3> QED
      BY <1>1, <3>2, <3>3, <3>4 DEF Tells, Away
  <2> QED
    BY <2>1, <2>2
<1> QED
  BY <1>8, <1>9 DEF Single, Judged, Judging

\* A session saves the whole row it has read.
LEMMA ScannedKeeps ==
  ASSUME HealthInv, NEW r \in Run, Scanned(r)
  PROVE  HealthInv'
<1>1. At(r, "scan") /\ row' = run[r].copy /\ apart' = apart
      /\ cold' = (cold /\ ~run[r].copy.online)
      /\ UNCHANGED <<misses, gone, since>> /\ run' = [run EXCEPT ![r] = Idle]
  BY DEF Scanned, redis
<1>2. TypeOK'
  BY TypesStep DEF HealthInv, Next, RunStep
<1>3. \A s \in Run : s # r => run'[s] = run[s]
  BY <1>1 DEF HealthInv, TypeOK
<1> SUFFICES ASSUME apart'
             PROVE  /\ Single' /\ (\A s \in Run : Judged(s)')
                    /\ (\A s \in Run : ~At(s, "save")') => Tells(row)'
  BY <1>1, <1>2 DEF HealthInv
<1>4. \A s \in Run : s # r => ~Judging(s)
  BY <1>1 DEF HealthInv, Single, Judging
<1>5. \A s \in Run : ~Judging(s)'
  BY <1>1, <1>3, <1>4 DEF Judging, At, HealthInv, TypeOK
<1>6. row' = row /\ Tells(row)
  BY <1>1, <1>4 DEF HealthInv, Judged, Judging, At
<1>7. ~row'.online /\ ~cold' => ~cold
  BY <1>1
<1>8. Tells(row)'
  BY <1>1, <1>6, <1>7 DEF Tells, Away
<1> QED
  BY <1>5, <1>8 DEF Single, Judged, Judging

\* A start-up judges by one ping, and says so.
LEMMA BootedKeeps ==
  ASSUME HealthInv, NEW r \in Run, Booted(r)
  PROVE  HealthInv'
<1>1. /\ At(r, "boot") /\ apart' = apart /\ since' = since /\ run' = [run EXCEPT ![r] = Idle]
      /\ row' = [online |-> reach, failures |-> IF reach THEN 0 ELSE run[r].copy.failures]
      /\ cold' = (~reach /\ (cold \/ row.online))
  BY DEF Booted, redis
<1>2. TypeOK'
  BY TypesStep DEF HealthInv, Next, RunStep
<1>3. \A s \in Run : s # r => run'[s] = run[s]
  BY <1>1 DEF HealthInv, TypeOK
<1>4. row'.online => ~cold'
  BY <1>1
<1> SUFFICES ASSUME apart'
             PROVE  /\ Single' /\ (\A s \in Run : Judged(s)')
                    /\ (\A s \in Run : ~At(s, "save")') => Tells(row)'
  BY <1>2, <1>4 DEF HealthInv
<1>5. \A s \in Run : s # r => ~Judging(s)
  BY <1>1 DEF HealthInv, Single, Judging
<1>6. \A s \in Run : ~Judging(s)'
  BY <1>1, <1>3, <1>5 DEF Judging, At, HealthInv, TypeOK
<1>7. Tells(row)
  BY <1>1, <1>5 DEF HealthInv, Judging, At
<1>8. Tells(row)'
  <2>1. CASE reach
    <3>1. misses' = 0 /\ row'.online /\ row'.failures = 0
      BY <1>1, <2>1 DEF Booted, Heard
    <3> QED
      BY <3>1, CapTyped DEF Tells
  <2>2. CASE ~reach
    <3>1. ~row'.online /\ Unheard
      BY <1>1, <2>2 DEF Booted
    <3>2. ~cold' => Away
      BY <1>1, <1>7, <2>2 DEF Tells, HealthInv, TypeOK
    <3>3. Away => misses' >= MaxFailure /\ gone' = gone
      BY <3>1, UnheardOnly DEF Away, HealthInv, TypeOK
    <3> QED
      BY <1>1, <3>1, <3>2, <3>3 DEF Tells, Away
  <2> QED
    BY <2>1, <2>2
<1> QED
  BY <1>6, <1>8 DEF Single, Judged, Judging

\* The time in Redis and the time since are the same as long as both last.
LEMMA TickKeeps == TypeOK /\ Tick /\ Away => Away'
<1> SUFFICES ASSUME TypeOK, Tick, Away
             PROVE  Away'
  OBVIOUS
<1>1. gone \in 0 .. SinceTTL /\ gone # None /\ misses' = misses
  BY DEF Away, TypeOK, Tick
<1>2. gone' = Least(gone + 1, SinceTTL) /\ gone' \in Nat
  BY <1>1, CapTyped, LeastTyped DEF Tick
<1>3. since' = Aged(since)
  BY DEF Tick
<1>4. CASE gone + 1 < SinceTTL
  <2>1. since = gone /\ gone' = gone + 1
    BY <1>1, <1>2, <1>4, CapTyped, LeastTyped DEF Away
  <2> QED
    BY <1>1, <1>2, <1>3, <1>4, <2>1, NoTime, CapTyped DEF Away, Aged
<1>5. CASE gone + 1 >= SinceTTL
  <2>1. gone' = SinceTTL
    BY <1>1, <1>2, <1>5, CapTyped, LeastTyped
  <2>2. since = None \/ since + 1 = SinceTTL
    BY <1>1, <1>5, CapTyped DEF Away
  <2> QED
    BY <1>1, <1>3, <2>1, <2>2, NoTime, CapTyped DEF Away, Aged
<1> QED
  BY <1>1, <1>4, <1>5, CapTyped

\* Every step keeps the invariant.
LEMMA HealthStep == HealthInv /\ [Next]_vars => HealthInv'
<1> SUFFICES ASSUME HealthInv, [Next]_vars
             PROVE  HealthInv'
  OBVIOUS
<1>1. TypeOK /\ TypeOK'
  BY TypesStep DEF HealthInv
<1>2. CASE CameraChanges \/ Probe \/ Tick \/ UNCHANGED vars
  <2>1. UNCHANGED <<row, misses, run, apart, cold>>
    BY <1>2 DEF CameraChanges, Probe, Tick, vars, camera, redis, history
  <2>2. Away => Away'
    BY <1>1, <1>2, TickKeeps DEF CameraChanges, Probe, vars, redis, history, Away
  <2> QED
    BY <1>1, <2>1, <2>2, OutsideKeeps
<1>3. ASSUME NEW r \in Run, Start(r) \/ Scan(r) \/ Boot(r)
      PROVE  HealthInv'
  <2>1. /\ \E at \in {"ping", "scan", "boot"} : Reads(r, at)
        /\ UNCHANGED <<row, misses, since, gone, cold>>
    BY <1>3 DEF Start, Scan, Boot, redis
  <2> QED
    BY <1>1, <2>1, BeginKeeps
<1>4. ASSUME NEW r \in Run,
             CheckRate(r) \/ Expire(r) \/ Reset(r) \/ Pend(r) \/ CheckAway(r) \/ Regenerate(r)
               \/ Clean(r) \/ Others(r) \/ Die(r)
      PROVE  HealthInv'
  <2>1. UNCHANGED <<row, misses, since, gone, cold>>
    BY <1>4 DEF CheckRate, Expire, Reset, Pend, CheckAway, Regenerate, Clean, Others, Die,
                redis, history
  <2>3. apart' => apart /\ ~At(r, "save")
    BY <1>1, <1>4 DEF CheckRate, Expire, Reset, Pend, CheckAway, Regenerate, Clean, Others, Die,
                At, history, TypeOK
  <2>2. \E new \in {Idle} \union Copies :
          /\ run' = [run EXCEPT ![r] = new]
          /\ new = Idle \/ new.at \in {"expire", "reset", "pend", "regen", "clean"}
    <3>1. CASE CheckRate(r)
      BY <1>1, <3>1, CheckRateTyped
    <3>2. CASE Expire(r) \/ Reset(r) \/ Pend(r) \/ CheckAway(r) \/ Regenerate(r) \/ Clean(r)
      BY <1>1, <3>2, PastTyped
    <3>3. CASE Others(r)
      BY <1>1, <3>3, BeginTyped DEF Others
    <3>4. CASE Die(r)
      BY <3>4 DEF Die
    <3> QED
      BY <1>4, <3>1, <3>2, <3>3, <3>4
  <2> QED
    BY <1>1, <2>1, <2>2, <2>3, PastKeeps
<1>5. ASSUME NEW r \in Run, RunStep(r)
      PROVE  HealthInv'
  BY <1>4, <1>5, ReachedKeeps, MissedKeeps, SaveKeeps, ScannedKeeps, BootedKeeps DEF RunStep
<1> QED
  BY <1>2, <1>3, <1>4, <1>5 DEF Next

\* Whatever cameras, sessions, start-ups, deaths and late runs do, a camera
\* that runs took offline has in Redis the time of the ping that did it, until
\* the key expires, as long as nothing overlapped.
THEOREM AbsenceTimed == Spec => []OfflineIsTimed
<1>1. HealthInv => OfflineIsTimed
  BY DEF HealthInv, Tells, Away, OfflineIsTimed, Quiet, At
<1> QED
  BY <1>1, HealthInit, HealthStep, PTL DEF Spec

\* And only that many failed pings in a row, or the one of a start-up, take it
\* offline.
THEOREM OfflineOnlyAfterMisses == Spec => OfflineAfterMisses
<1>1. HealthInv /\ [Next]_vars
        => [apart' /\ row.online /\ ~row'.online =>
              misses >= MaxFailure \/ \E r \in Run : Booted(r)]_vars
  <2> SUFFICES ASSUME HealthInv, Next, apart', row.online, ~row'.online,
                      \A r \in Run : ~Booted(r)
               PROVE  misses >= MaxFailure
    OBVIOUS
  <2>1. row' # row
    OBVIOUS
  <2>2. PICK r \in Run : Save(r) \/ Scanned(r)
    BY <2>1 DEF Next, CameraChanges, Probe, Tick, Start, RunStep, Die, Scan, Boot, Others,
                Reached, Missed, CheckRate, Expire, Reset, Pend, CheckAway, Regenerate, Clean
  <2>3. apart /\ Judged(r)
    BY <2>2 DEF Save, Scanned, HealthInv
  <2>4. CASE Save(r)
    BY <2>3, <2>4 DEF Save, Judged, Away
  <2>5. CASE Scanned(r)
    BY <2>1, <2>3, <2>5 DEF Scanned, Judged
  <2> QED
    BY <2>2, <2>4, <2>5
<1> QED
  BY <1>1, HealthInit, HealthStep, PTL DEF Spec, OfflineAfterMisses
=============================================================================
