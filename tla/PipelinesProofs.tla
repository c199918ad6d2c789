--------------------------- MODULE PipelinesProofs ---------------------------
(***************************************************************************)
(* What a regeneration that nothing disturbed leaves behind, for any       *)
(* devices, pipelines and number of regenerations.                         *)
(***************************************************************************)
EXTENDS Pipelines, SequenceTheorems, TLAPS

Busy(r) == run[r].at # "idle"
Calm(r) == Busy(r) /\ run[r].calm

\* Only the main pipeline has cameras, so nobody else writes the shared file.
Alone == Profiled /\ Wanted(Main) # {} /\ \A p \in Pipe \ {Main} : Wanted(p) = {}

\* The files of a pipeline are those of its rows.
Written(p) ==
  /\ config[p] = SourceList(Wanted(p))
  /\ p = Main /\ Alone => shapes = Streams(Wanted(p))

\* The numbers of a pipeline are those of its rows.
Counted(p) == redis[p] = Numbered(Queried(Wanted(p)))

\* And so they are but for those that have yet to be written.
CountedBut(p, left) ==
  /\ redis[p] = [i \in Source |-> IF i \in left THEN None
                                  ELSE Numbered(Queried(Wanted(p)))[i]]
  /\ left \subseteq DOMAIN Queried(Wanted(p))

\* The container of a pipeline runs with these files and numbers.
Done(p) ==
  Profiled =>
    IF Wanted(p) = {} THEN ~container[p].up
    ELSE /\ container[p].up /\ container[p].list = Queried(Wanted(p))
         /\ Counted(p)
         /\ \A i \in Source : known[p][i] \in {None, redis[p][i]}
         /\ p = Main /\ Alone => container[p].shapes = Streams(Wanted(p))

\* The pipelines whose turn was before the n-th one.
Upto(n) == {Pipes[j] : j \in 1 .. n - 1}

\* How far a calm regeneration has come.
Progress(r) ==
  Calm(r) =>
    /\ run[r].at # "begin" => \A p \in Pipe : run[r].mine[p] = Wanted(p)
    /\ run[r].at = "begin" => run[r].next = 1
    /\ run[r].at = "stop" =>
         /\ \A p \in Pipe : Wanted(p) = {}
         /\ \A p \in Upto(run[r].next) : ~container[p].up
    /\ run[r].at = "configure" => \A p \in Upto(run[r].next) : Written(p)
    /\ run[r].at \in {"clear", "fill"} =>
         /\ \A p \in Pipe : Written(p)
         /\ \A p \in Upto(run[r].next) : p = Main \/ run[r].named => Done(p)
    /\ run[r].at = "fill" => CountedBut(Current(r), run[r].left)

Turns == [at : {"idle", "begin", "stop", "configure", "clear", "fill"},
          named : BOOLEAN, calm : BOOLEAN, next : 1 .. Len(Pipes),
          mine : [Pipe -> SUBSET Device], left : SUBSET Source]

Typed ==
  /\ run \in [Run -> Turns]
  /\ DOMAIN config = Pipe /\ DOMAIN redis = Pipe /\ DOMAIN known = Pipe
  /\ DOMAIN container = Pipe

\* A calm regeneration has nothing beside it, and settles what it has applied
\* only when nothing runs any more.
Quiet ==
  /\ \A r, x \in Run : Calm(r) /\ Busy(x) => r = x
  /\ (\E r \in Run : Busy(r)) => settled = "no"

PipeInv ==
  /\ Typed /\ Quiet
  /\ \A r \in Run : Progress(r)
  /\ \A p \in Applied : Done(p)

----------------------------------------------------------------------------
(* The order of the pipelines *)

\* The n-th pipeline is none of those before it, and after the last one all
\* have had their turn.
LEMMA Turn ==
  ASSUME NEW n \in 1 .. Len(Pipes)
  PROVE  /\ Pipes[n] \in Pipe /\ Pipes[n] \notin Upto(n) /\ Upto(n) \subseteq Pipe
         /\ n < Len(Pipes) => /\ n + 1 \in 1 .. Len(Pipes)
                              /\ Upto(n + 1) = Upto(n) \union {Pipes[n]}
         /\ ~(n < Len(Pipes)) => Pipe = Upto(n) \union {Pipes[n]}
<1>1. Len(Pipes) \in Nat /\ DOMAIN Pipes = 1 .. Len(Pipes)
  BY PipesAssumption, LenProperties
<1>2. Pipe = {Pipes[j] : j \in 1 .. Len(Pipes)}
  BY <1>1 DEF Pipe, ToSet
<1>3. \A j, k \in 1 .. Len(Pipes) : Pipes[j] = Pipes[k] => j = k
  BY <1>1, PipesAssumption DEF IsInjective
<1>4. Pipes[n] \in Pipe /\ Pipes[n] \notin Upto(n) /\ Upto(n) \subseteq Pipe
  BY <1>1, <1>2, <1>3 DEF Upto
<1>5. ASSUME n < Len(Pipes)
      PROVE  n + 1 \in 1 .. Len(Pipes) /\ Upto(n + 1) = Upto(n) \union {Pipes[n]}
  <2>1. 1 .. (n + 1) - 1 = 1 .. n - 1 \union {n}
    BY <1>1
  <2> QED
    BY <1>1, <1>5, <2>1 DEF Upto
<1>6. ASSUME ~(n < Len(Pipes))
      PROVE  Pipe = Upto(n) \union {Pipes[n]}
  <2>1. 1 .. Len(Pipes) = 1 .. n - 1 \union {n}
    BY <1>1, <1>6
  <2> QED
    BY <1>2, <2>1 DEF Upto
<1> QED
  BY <1>4, <1>5, <1>6

\* There is a first pipeline, and none before it.
LEMMA FirstTurn == 1 \in 1 .. Len(Pipes) /\ Upto(1) = {}
<1>1. Len(Pipes) \in Nat /\ DOMAIN Pipes = 1 .. Len(Pipes)
  BY PipesAssumption, LenProperties
<1>2. \E j \in 1 .. Len(Pipes) : TRUE
  BY <1>1, Kinds DEF Pipe, ToSet
<1> QED
  BY <1>1, <1>2 DEF Upto

\* What the next turn of a regeneration is.
LEMMA Advanced ==
  ASSUME NEW r \in Run, run[r] \in Turns,
         NEW same \in {"stop", "configure", "clear"}, NEW then \in {"idle", "clear"}
  PROVE  /\ Advance(r, same, then) \in Turns
         /\ run[r].next < Len(Pipes) =>
              Advance(r, same, then) = [at |-> same, named |-> run[r].named, calm |-> run[r].calm,
                                        next |-> run[r].next + 1, mine |-> run[r].mine,
                                        left |-> run[r].left]
         /\ ~(run[r].next < Len(Pipes)) =>
              Advance(r, same, then) =
                IF then = "idle" THEN Idle
                ELSE [at |-> then, named |-> run[r].named, calm |-> run[r].calm,
                      next |-> 1, mine |-> run[r].mine, left |-> run[r].left]
<1>1. run[r].next \in 1 .. Len(Pipes)
  BY DEF Turns
<1>2. run[r].next < Len(Pipes) => run[r].next + 1 \in 1 .. Len(Pipes)
  BY <1>1, Turn
<1>3. Idle \in Turns
  BY FirstTurn DEF Idle, Turns
<1>4. CASE run[r].next < Len(Pipes)
  BY <1>2, <1>4 DEF Advance, Turns
<1>5. CASE ~(run[r].next < Len(Pipes)) /\ then = "idle"
  BY <1>3, <1>5 DEF Advance
<1>6. CASE ~(run[r].next < Len(Pipes)) /\ then = "clear"
  <2>1. Advance(r, same, then) =
          [at |-> "clear", named |-> run[r].named, calm |-> run[r].calm, next |-> 1,
           mine |-> run[r].mine, left |-> run[r].left]
    BY <1>6 DEF Advance, Turns
  <2> QED
    BY <1>6, <2>1, FirstTurn DEF Turns
<1> QED
  BY <1>4, <1>5, <1>6

----------------------------------------------------------------------------
(* What depends on the rows *)

\* While no row changes, the queries give the same.
LEMMA SameRows ==
  ASSUME UNCHANGED dev
  PROVE  /\ \A p \in Pipe : Wanted(p)' = Wanted(p)
         /\ Profiled' <=> Profiled
         /\ Alone' <=> Alone
         /\ \A p \in Pipe : SourceList(Wanted(p))' = SourceList(Wanted(p))
<1>1. \A p \in Pipe : Wanted(p)' = Wanted(p)
  BY DEF Wanted, Ready
<1>2. Profiled' <=> Profiled
  BY DEF Profiled, Ready
<1>3. Alone' <=> Alone
  BY <1>1, <1>2, Kinds DEF Alone
<1>4. ASSUME NEW p \in Pipe
      PROVE  SourceList(Wanted(p))' = SourceList(Wanted(p))
  <2>1. {d \in Wanted(p) : dev[d].token}' = {d \in Wanted(p) : dev[d].token}
    BY <1>1
  <2> QED
    BY <2>1 DEF SourceList
<1> QED
  BY <1>1, <1>2, <1>3, <1>4

\* When every device has a profile, none is left out of the sources.
LEMMA NoneLeftOut ==
  ASSUME Profiled, NEW p \in Pipe
  PROVE  SourceList(Wanted(p)) = Queried(Wanted(p))
<1>1. {d \in Wanted(p) : dev[d].token} = Wanted(p)
  BY DEF Profiled, Wanted
<1> QED
  BY <1>1 DEF SourceList

\* A container, its files and its numbers that nobody touches stay right.
LEMMA DoneStays ==
  ASSUME UNCHANGED dev, NEW p \in Pipe, Done(p), container'[p] = container[p],
         redis'[p] = redis[p], known'[p] \in {known[p], redis[p], Nothing}
  PROVE  Done(p)'
<1>1. /\ Wanted(p)' = Wanted(p)
      /\ Profiled' <=> Profiled
      /\ Alone' <=> Alone
  BY SameRows
<1>2. (Wanted(Main))' = Wanted(Main)
  BY SameRows, Kinds
<1>3. (\A i \in Source : known[p][i] \in {None, redis[p][i]})
      => \A i \in Source : known'[p][i] \in {None, redis'[p][i]}
  BY DEF Nothing
<1>4. Counted(p)' <=> Counted(p)
  BY <1>1 DEF Counted
<1> QED
  BY <1>1, <1>2, <1>3, <1>4 DEF Done

\* What is written of a pipeline stays so while its file and the rows do.
LEMMA WrittenStays ==
  ASSUME UNCHANGED dev, NEW p \in Pipe, Written(p), config'[p] = config[p],
         shapes' = shapes \/ ~Alone \/ p # Main
  PROVE  Written(p)'
<1>1. /\ Alone' <=> Alone /\ (Wanted(p))' = Wanted(p)
      /\ (SourceList(Wanted(p)))' = SourceList(Wanted(p))
  BY SameRows
<1> QED
  BY <1>1 DEF Written

----------------------------------------------------------------------------
(* The steps *)

\* A step of one regeneration keeps the invariant, if it does whenever nothing
\* runs beside it: it disturbs no other calm one, because there is none.
LEMMA OneRuns ==
  ASSUME PipeInv, NEW r \in Run, Busy(r), NEW s \in Turns,
         run' = [run EXCEPT ![r] = s], s.calm => run[r].calm,
         s.at # "idle" \/ ~run[r].calm => settled' = settled,
         DOMAIN config' = Pipe, DOMAIN redis' = Pipe, DOMAIN known' = Pipe,
         DOMAIN container' = Pipe,
         Calm(r) => Progress(r)',
         Calm(r) /\ s.at = "idle" => \A p \in Applied' : Done(p)'
  PROVE  PipeInv'
<1>1. run \in [Run -> Turns]
  BY DEF PipeInv, Typed
<1>2. run'[r] = s /\ \A x \in Run : x # r => run'[x] = run[x]
  BY <1>1
<1>3. settled = "no"
  BY DEF PipeInv, Quiet
<1>4. Calm(r)' => Calm(r)
  BY <1>2 DEF Calm, Busy
<1>5. \A x \in Run : x # r => /\ Busy(x)' <=> Busy(x)
                              /\ Calm(x)' <=> Calm(x)
  BY <1>2 DEF Calm, Busy
<1>6. \A x \in Run : x # r => ~Calm(x)
  BY DEF PipeInv, Quiet
<1>7. Calm(r) => \A x \in Run : x # r => ~Busy(x)
  BY DEF PipeInv, Quiet
<1>8. Typed'
  BY <1>1 DEF Typed
<1>9. Quiet'
  <2>1. \A x, y \in Run : Calm(x)' /\ Busy(y)' => x = y
    BY <1>4, <1>5, <1>6, <1>7
  <2>2. ASSUME NEW x \in Run, Busy(x)'
        PROVE  settled' = "no"
    <3>1. CASE x = r
      BY <1>2, <1>3, <2>2, <3>1 DEF Busy
    <3>2. CASE x # r
      <4>1. ~Calm(r)
        BY <1>5, <1>7, <2>2, <3>2
      <4> QED
        BY <1>3, <4>1 DEF Calm
    <3> QED
      BY <3>1, <3>2
  <2> QED
    BY <2>1, <2>2 DEF Quiet
<1>10. ASSUME NEW x \in Run
       PROVE  Progress(x)'
  <2>1. CASE x = r /\ Calm(r)
    BY <2>1
  <2>2. CASE x # r \/ ~Calm(r)
    <3>1. ~Calm(x)'
      BY <1>4, <1>5, <1>6, <2>2
    <3> QED
      BY <3>1 DEF Progress
  <2> QED
    BY <2>1, <2>2
<1>11. ASSUME NEW p \in Applied'
       PROVE  Done(p)'
  <2>1. settled' # "no"
    BY <1>11 DEF Applied
  <2>2. Calm(r) /\ s.at = "idle"
    BY <1>3, <2>1 DEF Calm
  <2> QED
    BY <2>2
<1> QED
  BY <1>8, <1>9, <1>10, <1>11 DEF PipeInv

\* A change disturbs all that run; one that starts while nothing runs is calm.
LEMMA Disturbs ==
  ASSUME PipeInv, settled' = "no", run' \in [Run -> Turns],
         \A x \in Run : Calm(x)' => /\ run'[x].at = "begin" /\ run'[x].next = 1
                                    /\ \A y \in Run : Busy(y)' => x = y,
         UNCHANGED <<config, redis, container, known>>
  PROVE  PipeInv'
<1>1. Typed'
  BY DEF PipeInv, Typed
<1>2. Quiet'
  BY DEF Quiet
<1>3. \A x \in Run : Progress(x)'
  BY DEF Progress
<1>4. Applied' = {}
  BY DEF Applied
<1> QED
  BY <1>1, <1>2, <1>3, <1>4 DEF PipeInv

\* What is left of the regenerations that a change disturbs.
LEMMA Disturbance ==
  ASSUME run \in [Run -> Turns]
  PROVE  /\ Disturbed \in [Run -> Turns]
         /\ \A x \in Run : Disturbed[x].at = run[x].at /\ Disturbed[x].calm = FALSE
BY DEF Disturbed, Turns

\* A row that changes leaves no calm regeneration.
LEMMA EditKeeps ==
  ASSUME PipeInv, NEW d \in Device, Edit(d)
  PROVE  PipeInv'
<1>1. run \in [Run -> Turns]
  BY DEF PipeInv, Typed
<1>2. settled' = "no" /\ run' = Disturbed /\ UNCHANGED <<config, redis, container, known>>
  BY DEF Edit, Change
<1>3. run' \in [Run -> Turns] /\ \A x \in Run : ~Calm(x)'
  BY <1>1, <1>2, Disturbance DEF Calm
<1> QED
  BY <1>2, <1>3, Disturbs

\* A regeneration that starts is calm only if it is alone.
LEMMA StartKeeps ==
  ASSUME PipeInv, NEW r \in Run, run[r].at = "idle", NEW named \in BOOLEAN,
         Started(r, named), settled' = "no", UNCHANGED <<config, redis, container, known>>
  PROVE  PipeInv'
<1>1. run \in [Run -> Turns]
  BY DEF PipeInv, Typed
<1>2. PICK calm \in BOOLEAN : calm <=> \A x \in Run : run[x].at = "idle"
  OBVIOUS
<1>3. PICK s : s = [Idle EXCEPT !.at = "begin", !.named = named, !.calm = calm]
  OBVIOUS
<1>4. run' = [Disturbed EXCEPT ![r] = s]
  BY <1>2, <1>3 DEF Started
<1>5. s \in Turns /\ s.at = "begin" /\ s.next = 1 /\ s.calm = calm
  BY <1>3, FirstTurn DEF Idle, Turns
<1>6. /\ run' \in [Run -> Turns] /\ run'[r] = s
      /\ \A x \in Run : x # r => run'[x].at = run[x].at /\ run'[x].calm = FALSE
  BY <1>1, <1>4, <1>5, Disturbance
<1>7. ASSUME NEW x \in Run, Calm(x)'
      PROVE  /\ run'[x].at = "begin" /\ run'[x].next = 1
             /\ \A y \in Run : Busy(y)' => x = y
  <2>1. x = r /\ calm
    BY <1>5, <1>6, <1>7 DEF Calm
  <2> QED
    BY <1>2, <1>5, <1>6, <2>1 DEF Busy
<1> QED
  BY <1>6, <1>7, Disturbs

\* assign_pipeline starts one, having changed a row.
LEMMA AssignKeeps ==
  ASSUME PipeInv, NEW r \in Run, NEW d \in Device, Assign(r, d)
  PROVE  PipeInv'
<1>1. PICK p \in Pipe \union {None} : Started(r, p # None)
  BY DEF Assign
<1>2. PICK named \in BOOLEAN : named = (p # None)
  OBVIOUS
<1>3. Started(r, named)
  BY <1>1, <1>2
<1> QED
  BY <1>3, StartKeeps DEF Assign, Change

\* The others start one and change no row.
LEMMA RegenerateKeeps ==
  ASSUME PipeInv, NEW r \in Run, Regenerate(r)
  PROVE  PipeInv'
BY StartKeeps DEF Regenerate, Change

\* A run that Docker did not answer is not calm any more.
LEMMA DockerFailsKeeps ==
  ASSUME PipeInv, NEW r \in Run, DockerFails(r)
  PROVE  PipeInv'
<1>1. run \in [Run -> Turns] /\ run[r] \in Turns
  BY DEF PipeInv, Typed
<1>2. PICK next \in Turns : run' = [Disturbed EXCEPT ![r] = [next EXCEPT !.calm = FALSE]]
  <2>1. Advance(r, "stop", "idle") \in Turns /\ Advance(r, "clear", "idle") \in Turns
    BY <1>1, Advanced
  <2> QED
    BY <2>1 DEF DockerFails
<1>3. [next EXCEPT !.calm = FALSE] \in Turns /\ [next EXCEPT !.calm = FALSE].calm = FALSE
  BY DEF Turns
<1>4. run' \in [Run -> Turns] /\ \A x \in Run : ~Calm(x)'
  BY <1>1, <1>2, <1>3, Disturbance DEF Calm
<1> QED
  BY <1>4, Disturbs DEF DockerFails, Change

\* The devices are read: what the regeneration will count is what the rows say.
LEMMA BeginKeeps ==
  ASSUME PipeInv, NEW r \in Run, Begin(r)
  PROVE  PipeInv'
<1>1. run \in [Run -> Turns] /\ run[r] \in Turns
  BY DEF PipeInv, Typed
<1>2. PICK at \in {"configure", "stop"} :
        at = IF \E d \in Device : Ready(d) THEN "configure" ELSE "stop"
  OBVIOUS
<1>3. PICK mine \in [Pipe -> SUBSET Device] : \A p \in Pipe : mine[p] = Wanted(p)
  <2>1. [p \in Pipe |-> Wanted(p)] \in [Pipe -> SUBSET Device]
    BY DEF Wanted
  <2> QED
    BY <2>1
<1>4. mine = [p \in Pipe |-> Wanted(p)]
  BY <1>3
<1>5. PICK s : s = [run[r] EXCEPT !.at = at, !.mine = mine]
  OBVIOUS
<1>6. /\ s \in Turns /\ s.at = at /\ s.mine = mine
      /\ s.next = run[r].next /\ s.calm = run[r].calm
  BY <1>1, <1>5 DEF Turns
<1>7. run' = [run EXCEPT ![r] = s]
  BY <1>2, <1>4, <1>5 DEF Begin
<1>8. run'[r] = s
  BY <1>1, <1>7
<1>9. UNCHANGED <<dev, config, shapes, redis, container, known, settled>>
  BY DEF Begin
<1>10. ASSUME Calm(r)
       PROVE  Progress(r)'
  <2>1. run[r].next = 1
    BY <1>10 DEF PipeInv, Progress, Begin
  <2>2. Upto(run'[r].next) = {}
    BY <1>6, <1>8, <2>1, FirstTurn
  <2>3. at = "stop" => \A p \in Pipe : Wanted(p) = {}
    BY <1>2 DEF Wanted
  <2>4. \A p \in Pipe : Wanted(p)' = Wanted(p)
    BY <1>9, SameRows
  <2> QED
    BY <1>2, <1>3, <1>6, <1>8, <2>2, <2>3, <2>4 DEF Progress
<1> QED
  BY <1>2, <1>6, <1>7, <1>9, <1>10, OneRuns DEF PipeInv, Typed, Begin, Busy

\* The files of one pipeline are written, and those of the others are kept.
LEMMA ConfigureKeeps ==
  ASSUME PipeInv, NEW r \in Run, Configure(r)
  PROVE  PipeInv'
<1>1. run \in [Run -> Turns] /\ run[r] \in Turns /\ run[r].next \in 1 .. Len(Pipes)
  BY DEF PipeInv, Typed, Turns
<1>2. PICK s : s = Advance(r, "configure", "clear")
  OBVIOUS
<1>3. /\ s \in Turns
      /\ run[r].next < Len(Pipes) =>
           s = [at |-> "configure", named |-> run[r].named, calm |-> run[r].calm,
                next |-> run[r].next + 1, mine |-> run[r].mine,
                left |-> run[r].left]
      /\ ~(run[r].next < Len(Pipes)) =>
           s = [at |-> "clear", named |-> run[r].named, calm |-> run[r].calm, next |-> 1,
                mine |-> run[r].mine, left |-> run[r].left]
  BY <1>1, <1>2, Advanced
<1>4. run' = [run EXCEPT ![r] = s] /\ run'[r] = s
  BY <1>1, <1>2 DEF Configure
<1>5. PICK p \in Pipe : p = Pipes[run[r].next] /\ p \notin Upto(run[r].next)
                        /\ Upto(run[r].next) \subseteq Pipe
  BY <1>1, Turn
<1>6. /\ config' = [config EXCEPT ![p] = SourceList(Wanted(p))]
      /\ shapes' = IF Wanted(p) = {} THEN shapes ELSE Streams(Wanted(p))
      /\ UNCHANGED <<dev, redis, container, known, settled>>
  BY <1>5 DEF Configure, Current
<1>7. DOMAIN config' = Pipe /\ \A q \in Pipe : q # p => config'[q] = config[q]
  BY <1>6 DEF PipeInv, Typed
<1>8. ASSUME Calm(r)
      PROVE  Progress(r)'
  <2>1. /\ \A q \in Pipe : run[r].mine[q] = Wanted(q)
        /\ \A q \in Upto(run[r].next) : Written(q)
    BY <1>8 DEF PipeInv, Progress, Configure
  <2>2. \A q \in Pipe : Wanted(q)' = Wanted(q)
    BY <1>6, SameRows
  <2>3. Written(p)'
    <3>1. /\ Alone' <=> Alone
          /\ (SourceList(Wanted(p)))' = SourceList(Wanted(p))
          /\ Wanted(p)' = Wanted(p)
      BY <1>6, SameRows
    <3>2. config'[p] = SourceList(Wanted(p))
      BY <1>6 DEF PipeInv, Typed
    <3>3. p = Main /\ Alone => shapes' = Streams(Wanted(p))
      BY <1>6 DEF Alone
    <3> QED
      BY <3>1, <3>2, <3>3 DEF Written
  <2>4. ASSUME NEW q \in Upto(run[r].next)
        PROVE  Written(q)'
    <3>1. q \in Pipe /\ q # p
      BY <1>5
    <3>2. shapes' = shapes \/ ~Alone \/ q # Main
      BY <1>6, <3>1 DEF Alone
    <3> QED
      BY <1>6, <1>7, <2>1, <3>1, <3>2, WrittenStays
  <2>5. CASE run[r].next < Len(Pipes)
    <3>1. Upto(run[r].next + 1) = Upto(run[r].next) \union {p}
      BY <1>1, <1>5, <2>5, Turn
    <3>2. \A q \in Upto(run'[r].next) : Written(q)'
      BY <1>3, <1>4, <2>3, <2>4, <2>5, <3>1
    <3> QED
      BY <1>3, <1>4, <2>1, <2>2, <2>5, <3>2 DEF Progress
  <2>6. CASE ~(run[r].next < Len(Pipes))
    <3>1. Pipe = Upto(run[r].next) \union {p} /\ Upto(1) = {}
      BY <1>1, <1>5, <2>6, Turn, FirstTurn
    <3>2. \A q \in Pipe : Written(q)'
      BY <2>3, <2>4, <3>1
    <3> QED
      BY <1>3, <1>4, <2>1, <2>2, <2>6, <3>1, <3>2 DEF Progress
  <2> QED
    BY <2>5, <2>6
<1>9. s.at # "idle" /\ s.calm = run[r].calm
  BY <1>3
<1>10. Busy(r)
  BY DEF Configure, Busy
<1>11. DOMAIN redis' = Pipe /\ DOMAIN known' = Pipe /\ DOMAIN container' = Pipe
  BY <1>6 DEF PipeInv, Typed
<1> QED
  BY <1>3, <1>4, <1>6, <1>7, <1>8, <1>9, <1>10, <1>11, OneRuns

\* The numbers are deleted: none of those to be written is there yet.
LEMMA ClearKeeps ==
  ASSUME PipeInv, NEW r \in Run, Clear(r)
  PROVE  PipeInv'
<1>1. run \in [Run -> Turns] /\ run[r] \in Turns /\ run[r].next \in 1 .. Len(Pipes)
  BY DEF PipeInv, Typed, Turns
<1>2. PICK left \in SUBSET Source : left = {i \in Source : i \in DOMAIN Mine(r)}
  OBVIOUS
<1>3. PICK s : s = [run[r] EXCEPT !.at = "fill", !.left = left]
  OBVIOUS
<1>4. /\ s \in Turns
      /\ s = [at |-> "fill", named |-> run[r].named, calm |-> run[r].calm,
              next |-> run[r].next, mine |-> run[r].mine, left |-> left]
  BY <1>1, <1>3 DEF Turns
<1>5. run' = [run EXCEPT ![r] = s] /\ run'[r] = s
  <2>1. run' = [run EXCEPT ![r].at = "fill", ![r].left = left]
    BY <1>2 DEF Clear
  <2> QED
    BY <1>1, <1>3, <2>1
<1>6. PICK p \in Pipe : p = Pipes[run[r].next] /\ p \notin Upto(run[r].next)
                        /\ Upto(run[r].next) \subseteq Pipe
  BY <1>1, Turn
<1>7. /\ redis' = [redis EXCEPT ![p] = Nothing]
      /\ UNCHANGED <<dev, config, shapes, container, known, settled>>
  BY <1>6 DEF Clear, Current
<1>8. /\ DOMAIN redis' = Pipe /\ redis'[p] = Nothing
      /\ \A q \in Pipe : q # p => redis'[q] = redis[q]
  BY <1>7 DEF PipeInv, Typed
<1>9. ASSUME Calm(r)
      PROVE  Progress(r)'
  <2>1. /\ \A q \in Pipe : run[r].mine[q] = Wanted(q) /\ Written(q)
        /\ \A q \in Upto(run[r].next) : q = Main \/ run[r].named => Done(q)
    BY <1>9 DEF PipeInv, Progress, Clear
  <2>2. \A q \in Pipe : Wanted(q)' = Wanted(q)
    BY <1>7, SameRows
  <2>3. \A q \in Pipe : Written(q)'
    BY <1>7, <2>1, WrittenStays
  <2>4. \A q \in Upto(run[r].next) : q = Main \/ run[r].named => Done(q)'
    BY <1>6, <1>7, <1>8, <2>1, DoneStays
  <2>5. Current(r)' = p
    BY <1>4, <1>5, <1>6 DEF Current
  <2>6. CountedBut(Current(r), run[r].left)'
    <3>1. left = {i \in Source : i \in DOMAIN Queried(Wanted(p))}
      BY <1>2, <1>6, <2>1 DEF Mine, Current
    <3>2. \A i \in Source : i \notin left => Numbered(Queried(Wanted(p)))[i] = None
      BY <3>1 DEF Numbered
    <3>3. redis'[p] = [i \in Source |-> IF i \in left THEN None
                                       ELSE Numbered(Queried(Wanted(p)))[i]]
      BY <1>8, <3>2 DEF Nothing
    <3>4. run'[r].left = left
      BY <1>4, <1>5
    <3> QED
      BY <2>2, <2>5, <3>1, <3>3, <3>4 DEF CountedBut, Numbered
  <2> QED
    BY <1>4, <1>5, <2>1, <2>2, <2>3, <2>4, <2>6 DEF Progress
<1>10. s.at # "idle" /\ s.calm = run[r].calm
  BY <1>4
<1> QED
  BY <1>4, <1>5, <1>7, <1>8, <1>9, <1>10, OneRuns DEF PipeInv, Typed, Clear, Busy

\* One number of a pipeline is written: there is one less to write.
LEMMA FillKeeps ==
  ASSUME PipeInv, NEW r \in Run, Fill(r)
  PROVE  PipeInv'
<1>1. run \in [Run -> Turns] /\ run[r] \in Turns /\ run[r].next \in 1 .. Len(Pipes)
  BY DEF PipeInv, Typed, Turns
<1>2. PICK i \in run[r].left : /\ redis' = [redis EXCEPT ![Current(r)][i] = Mine(r)[i]]
                               /\ run' = [run EXCEPT ![r].left = @ \ {i}]
  BY DEF Fill
<1>3. PICK s : s = [run[r] EXCEPT !.left = @ \ {i}]
  OBVIOUS
<1>4. /\ s \in Turns
      /\ s = [at |-> run[r].at, named |-> run[r].named, calm |-> run[r].calm,
              next |-> run[r].next, mine |-> run[r].mine, left |-> run[r].left \ {i}]
  BY <1>1, <1>3 DEF Turns
<1>5. run' = [run EXCEPT ![r] = s] /\ run'[r] = s
  BY <1>1, <1>2, <1>3
<1>6. PICK p \in Pipe : p = Pipes[run[r].next] /\ p \notin Upto(run[r].next)
                        /\ Upto(run[r].next) \subseteq Pipe
  BY <1>1, Turn
<1>7. /\ redis' = [redis EXCEPT ![p][i] = Mine(r)[i]]
      /\ UNCHANGED <<dev, config, shapes, container, known, settled>>
  BY <1>2, <1>6 DEF Fill, Current
<1>8. /\ DOMAIN redis' = Pipe
      /\ redis'[p] = [redis[p] EXCEPT ![i] = Mine(r)[i]]
      /\ \A q \in Pipe : q # p => redis'[q] = redis[q]
  BY <1>7 DEF PipeInv, Typed
<1>9. ASSUME Calm(r)
      PROVE  Progress(r)'
  <2>1. /\ \A q \in Pipe : run[r].mine[q] = Wanted(q) /\ Written(q)
        /\ \A q \in Upto(run[r].next) : q = Main \/ run[r].named => Done(q)
        /\ CountedBut(p, run[r].left)
    BY <1>6, <1>9 DEF PipeInv, Progress, Fill, Current
  <2>2. \A q \in Pipe : Wanted(q)' = Wanted(q)
    BY <1>7, SameRows
  <2>3. \A q \in Pipe : Written(q)'
    BY <1>7, <2>1, WrittenStays
  <2>4. \A q \in Upto(run[r].next) : q = Main \/ run[r].named => Done(q)'
    BY <1>6, <1>7, <1>8, <2>1, DoneStays
  <2>5. Current(r)' = p
    BY <1>4, <1>5, <1>6 DEF Current
  <2>6. CountedBut(Current(r), run[r].left)'
    <3>1. Mine(r) = Queried(Wanted(p))
      BY <1>6, <2>1 DEF Mine, Current
    <3>2. i \in Source /\ Mine(r)[i] = Numbered(Queried(Wanted(p)))[i]
      BY <1>1, <2>1, <3>1 DEF CountedBut, Numbered, Turns
    <3>3. run'[r].left = run[r].left \ {i}
      BY <1>4, <1>5
    <3>5. redis'[p] = [j \in Source |-> IF j \in run'[r].left THEN None
                                       ELSE Numbered(Queried(Wanted(p)))[j]]
      BY <1>8, <2>1, <3>2, <3>3 DEF CountedBut
    <3>6. run'[r].left \subseteq DOMAIN Queried(Wanted(p))
      BY <2>1, <3>3 DEF CountedBut
    <3> QED
      BY <2>2, <2>5, <3>5, <3>6 DEF CountedBut, Numbered
  <2> QED
    BY <1>4, <1>5, <2>1, <2>2, <2>3, <2>4, <2>6 DEF Progress, Fill
<1>10. s.at = "fill" /\ s.calm = run[r].calm
  BY <1>4 DEF Fill
<1> QED
  BY <1>4, <1>5, <1>7, <1>8, <1>9, <1>10, OneRuns DEF PipeInv, Typed, Fill, Busy

\* Once all are written, the numbers are those of the rows.
LEMMA FilledCounts ==
  ASSUME NEW p \in Pipe, CountedBut(p, {})
  PROVE  Counted(p)
BY DEF CountedBut, Counted, Numbered

\* Once a calm regeneration is over, what it applied is right.
LEMMA AppliedAfter ==
  ASSUME PipeInv, NEW r \in Run, Calm(r), UNCHANGED dev,
         settled' = IF run[r].named THEN "all" ELSE "main",
         \A q \in Pipe : q = Main \/ run[r].named => Done(q)'
  PROVE  \A q \in Applied' : Done(q)'
BY Kinds DEF Applied

\* Docker restarts or stops the container of the pipeline that was counted.
LEMMA DockerKeeps ==
  ASSUME PipeInv, NEW r \in Run, Docker(r)
  PROVE  PipeInv'
<1>0. run[r].at = "fill" /\ run[r].left = {} /\ Busy(r)
  BY DEF Docker, Filled, Busy
<1>1. run \in [Run -> Turns] /\ run[r] \in Turns /\ run[r].next \in 1 .. Len(Pipes)
  BY DEF PipeInv, Typed, Turns
<1>2. PICK s : s = Advance(r, "clear", "idle")
  OBVIOUS
<1>3. /\ s \in Turns
      /\ run[r].next < Len(Pipes) =>
           s = [at |-> "clear", named |-> run[r].named, calm |-> run[r].calm,
                next |-> run[r].next + 1, mine |-> run[r].mine,
                left |-> run[r].left]
      /\ ~(run[r].next < Len(Pipes)) => s = Idle
  BY <1>1, <1>2, Advanced
<1>4. run' = [run EXCEPT ![r] = s] /\ run'[r] = s
  BY <1>1, <1>2 DEF Docker
<1>5. PICK p \in Pipe : p = Pipes[run[r].next] /\ p \notin Upto(run[r].next)
                        /\ Upto(run[r].next) \subseteq Pipe
  BY <1>1, Turn
<1>6. /\ IF run[r].mine[p] = {}
         THEN /\ container' = [container EXCEPT ![p] = Stopped]
              /\ known' = [known EXCEPT ![p] = Nothing]
         ELSE IF p = Main \/ run[r].named
         THEN /\ container' = [container EXCEPT ![p] = Boot(p)]
              /\ known' = [known EXCEPT ![p] = Nothing]
         ELSE UNCHANGED <<container, known>>
      /\ settled' = IF s.at = "idle" /\ run[r].calm
                    THEN IF run[r].named THEN "all" ELSE "main" ELSE settled
      /\ UNCHANGED <<dev, config, shapes, redis>>
  BY <1>2, <1>5 DEF Docker, Current, Finish
<1>7. /\ DOMAIN container' = Pipe /\ DOMAIN known' = Pipe
      /\ \A q \in Pipe : q # p => container'[q] = container[q] /\ known'[q] = known[q]
      /\ run[r].mine[p] = {} => container'[p] = Stopped /\ known'[p] = Nothing
      /\ run[r].mine[p] # {} /\ (p = Main \/ run[r].named)
           => container'[p] = Boot(p) /\ known'[p] = Nothing
  BY <1>6 DEF PipeInv, Typed
<1>8. Idle.calm = FALSE /\ Idle.at = "idle"
  BY DEF Idle
<1>9. ASSUME Calm(r), NEW q \in Upto(run[r].next) \union {p}, q = Main \/ run[r].named
      PROVE  Done(q)'
  <2>1. /\ \A x \in Pipe : run[r].mine[x] = Wanted(x) /\ Written(x)
        /\ \A x \in Upto(run[r].next) : x = Main \/ run[r].named => Done(x)
        /\ CountedBut(p, {})
    BY <1>0, <1>5, <1>9 DEF PipeInv, Progress, Current
  <2>4. Counted(p)
    BY <2>1, FilledCounts
  <2>2. CASE q # p
    BY <1>5, <1>6, <1>7, <1>9, <2>1, <2>2, DoneStays
  <2>3. CASE q = p
    <3>1. ASSUME Profiled
          PROVE  IF Wanted(p) = {} THEN ~container'[p].up
                 ELSE /\ container'[p].up /\ container'[p].list = Queried(Wanted(p))
                      /\ redis'[p] = Numbered(Queried(Wanted(p)))
                      /\ \A i \in Source : known'[p][i] \in {None, redis'[p][i]}
                      /\ p = Main /\ Alone => container'[p].shapes = Streams(Wanted(p))
      <4>1. CASE Wanted(p) = {}
        BY <1>7, <2>1, <4>1 DEF Stopped
      <4>2. CASE Wanted(p) # {}
        <5>1. container'[p] = Boot(p) /\ known'[p] = Nothing
          BY <1>7, <1>9, <2>1, <2>3, <4>2
        <5>2. config[p] = Queried(Wanted(p))
          BY <2>1, <3>1, NoneLeftOut DEF Written
        <5>3. p = Main /\ Alone => shapes = Streams(Wanted(p))
          BY <2>1 DEF Written
        <5>4. redis'[p] = Numbered(Queried(Wanted(p)))
          BY <1>6, <2>4 DEF Counted
        <5>5. \A i \in Source : known'[p][i] \in {None, redis'[p][i]}
          BY <5>1 DEF Nothing
        <5> QED
          BY <4>2, <5>1, <5>2, <5>3, <5>4, <5>5 DEF Boot
      <4> QED
        BY <4>1, <4>2
    <3>2. /\ Wanted(p)' = Wanted(p)
          /\ Profiled' <=> Profiled
          /\ Alone' <=> Alone
      BY <1>6, SameRows
    <3> QED
      BY <2>3, <3>1, <3>2 DEF Done, Counted
  <2> QED
    BY <2>2, <2>3
<1>10. CASE run[r].next < Len(Pipes)
  <2>1. /\ s.at = "clear" /\ s.calm = run[r].calm /\ s.next = run[r].next + 1
        /\ s.named = run[r].named /\ s.mine = run[r].mine
    BY <1>3, <1>10
  <2>2. Upto(run[r].next + 1) = Upto(run[r].next) \union {p}
    BY <1>1, <1>5, <1>10, Turn
  <2>3. ASSUME Calm(r)
        PROVE  Progress(r)'
    <3>1. \A x \in Pipe : run[r].mine[x] = Wanted(x) /\ Written(x)
      BY <1>0, <2>3 DEF PipeInv, Progress
    <3>2. \A x \in Pipe : Wanted(x)' = Wanted(x) /\ Written(x)'
      BY <1>6, <3>1, SameRows, WrittenStays
    <3>3. \A x \in Upto(run'[r].next) : x = Main \/ run'[r].named => Done(x)'
      BY <1>4, <1>9, <2>1, <2>2, <2>3
    <3> QED
      BY <1>4, <2>1, <3>1, <3>2, <3>3 DEF Progress
  <2>4. Busy(r) /\ DOMAIN config' = Pipe /\ DOMAIN redis' = Pipe
    BY <1>0, <1>6 DEF PipeInv, Typed
  <2>5. settled' = settled
    BY <1>6, <2>1
  <2> QED
    BY <1>3, <1>4, <1>7, <2>1, <2>3, <2>4, <2>5, OneRuns
<1>11. CASE ~(run[r].next < Len(Pipes))
  <2>1. s.at = "idle" /\ s.calm = FALSE
    BY <1>3, <1>8, <1>11
  <2>2. Progress(r)'
    BY <1>4, <2>1 DEF Progress, Calm
  <2>3. ASSUME Calm(r)
        PROVE  \A q \in Applied' : Done(q)'
    <3>1. Pipe = Upto(run[r].next) \union {p}
      BY <1>1, <1>5, <1>11, Turn
    <3>2. settled' = IF run[r].named THEN "all" ELSE "main"
      BY <1>6, <2>1, <2>3 DEF Calm
    <3> QED
      BY <1>6, <1>9, <2>3, <3>1, <3>2, AppliedAfter
  <2>4. Busy(r) /\ DOMAIN config' = Pipe /\ DOMAIN redis' = Pipe
    BY <1>0, <1>6 DEF PipeInv, Typed
  <2>5. ~run[r].calm => settled' = settled
    BY <1>6
  <2> QED
    BY <1>3, <1>4, <1>7, <2>1, <2>2, <2>3, <2>4, <2>5, OneRuns
<1> QED
  BY <1>10, <1>11

\* Without any device, every container is stopped, one by one.
LEMMA StopAllKeeps ==
  ASSUME PipeInv, NEW r \in Run, StopAll(r)
  PROVE  PipeInv'
<1>1. run \in [Run -> Turns] /\ run[r] \in Turns /\ run[r].next \in 1 .. Len(Pipes)
  BY DEF PipeInv, Typed, Turns
<1>2. PICK s : s = Advance(r, "stop", "idle")
  OBVIOUS
<1>3. /\ s \in Turns
      /\ run[r].next < Len(Pipes) =>
           s = [at |-> "stop", named |-> run[r].named, calm |-> run[r].calm,
                next |-> run[r].next + 1, mine |-> run[r].mine,
                left |-> run[r].left]
      /\ ~(run[r].next < Len(Pipes)) => s = Idle
  BY <1>1, <1>2, Advanced
<1>4. run' = [run EXCEPT ![r] = s] /\ run'[r] = s
  BY <1>1, <1>2 DEF StopAll
<1>5. PICK p \in Pipe : p = Pipes[run[r].next] /\ p \notin Upto(run[r].next)
                        /\ Upto(run[r].next) \subseteq Pipe
  BY <1>1, Turn
<1>6. /\ container' = [container EXCEPT ![p] = Stopped]
      /\ known' = [known EXCEPT ![p] = Nothing]
      /\ settled' = IF s.at = "idle" /\ run[r].calm
                    THEN IF run[r].named THEN "all" ELSE "main" ELSE settled
      /\ UNCHANGED <<dev, config, shapes, redis>>
  BY <1>2, <1>5 DEF StopAll, Current, Finish
<1>7. /\ DOMAIN container' = Pipe /\ DOMAIN known' = Pipe /\ ~container'[p].up
      /\ \A q \in Pipe : q # p => container'[q] = container[q]
  BY <1>6 DEF PipeInv, Typed, Stopped
<1>8. Idle.calm = FALSE /\ Idle.at = "idle"
  BY DEF Idle
<1>9. Busy(r) /\ DOMAIN config' = Pipe /\ DOMAIN redis' = Pipe
  BY <1>6 DEF PipeInv, Typed, StopAll, Busy
<1>10. ASSUME Calm(r)
       PROVE  /\ \A q \in Upto(run[r].next) \union {p} : ~container'[q].up
              /\ \A q \in Pipe : Wanted(q)' = {} /\ run[r].mine[q] = {}
  <2>1. /\ \A q \in Pipe : run[r].mine[q] = Wanted(q)
        /\ \A q \in Pipe : Wanted(q) = {}
        /\ \A q \in Upto(run[r].next) : ~container[q].up
    BY <1>10 DEF PipeInv, Progress, StopAll
  <2>2. \A q \in Pipe : Wanted(q)' = Wanted(q)
    BY <1>6, SameRows
  <2> QED
    BY <1>5, <1>7, <2>1, <2>2
<1>11. CASE run[r].next < Len(Pipes)
  <2>1. /\ s.at = "stop" /\ s.calm = run[r].calm /\ s.next = run[r].next + 1
        /\ s.mine = run[r].mine
    BY <1>3, <1>11
  <2>2. Upto(run[r].next + 1) = Upto(run[r].next) \union {p}
    BY <1>1, <1>5, <1>11, Turn
  <2>3. Calm(r) => Progress(r)'
    BY <1>4, <1>10, <2>1, <2>2 DEF Progress
  <2>4. settled' = settled
    BY <1>6, <2>1
  <2> QED
    BY <1>3, <1>4, <1>7, <1>9, <2>1, <2>3, <2>4, OneRuns
<1>12. CASE ~(run[r].next < Len(Pipes))
  <2>1. s.at = "idle" /\ s.calm = FALSE
    BY <1>3, <1>8, <1>12
  <2>2. Progress(r)'
    BY <1>4, <2>1 DEF Progress, Calm
  <2>3. ASSUME Calm(r)
        PROVE  \A q \in Applied' : Done(q)'
    <3>1. Pipe = Upto(run[r].next) \union {p}
      BY <1>1, <1>5, <1>12, Turn
    <3>2. settled' = IF run[r].named THEN "all" ELSE "main"
      BY <1>6, <2>1, <2>3 DEF Calm
    <3>3. \A q \in Pipe : Done(q)'
      BY <1>10, <2>3, <3>1 DEF Done
    <3> QED
      BY <1>6, <2>3, <3>2, <3>3, AppliedAfter
  <2>4. ~run[r].calm => settled' = settled
    BY <1>6
  <2> QED
    BY <1>3, <1>4, <1>7, <1>9, <2>1, <2>2, <2>3, <2>4, OneRuns
<1> QED
  BY <1>11, <1>12

\* A probe reads its numbers again.
LEMMA ReloadKeeps ==
  ASSUME PipeInv, NEW p \in Pipe, Reload(p)
  PROVE  PipeInv'
<1>1. /\ known' = [known EXCEPT ![p] = redis[p]]
      /\ UNCHANGED <<dev, config, shapes, redis, container, run, settled>>
  BY DEF Reload
<1>2. \A q \in Pipe : known'[q] \in {known[q], redis[q], Nothing}
  BY <1>1 DEF PipeInv, Typed
<1>3. \A q \in Pipe : Done(q) => Done(q)'
  BY <1>1, <1>2, DoneStays
<1>4. \A q \in Pipe : Written(q) => Written(q)'
  BY <1>1, WrittenStays
<1>5. \A q \in Pipe : Wanted(q)' = Wanted(q)
  BY <1>1, SameRows
<1>6. Typed'
  BY <1>1 DEF PipeInv, Typed
<1>7. Quiet'
  BY <1>1 DEF PipeInv, Quiet, Calm, Busy
<1>8. ASSUME NEW r \in Run
      PROVE  Progress(r)'
  <2>1. run[r].next \in 1 .. Len(Pipes)
    BY DEF PipeInv, Typed, Turns
  <2>2. Upto(run[r].next) \subseteq Pipe /\ Current(r) \in Pipe
    BY <2>1, Turn DEF Current
  <2>3. Current(r)' = Current(r) /\ Calm(r)' = Calm(r)
    BY <1>1 DEF Current, Calm, Busy
  <2>4. CountedBut(Current(r), run[r].left) => CountedBut(Current(r), run[r].left)'
    BY <1>1, <1>5, <2>2, <2>3 DEF CountedBut, Numbered
  <2> QED
    BY <1>1, <1>3, <1>4, <1>5, <2>2, <2>3, <2>4 DEF PipeInv, Progress
<1>9. \A q \in Applied' : Done(q)'
  BY <1>1, <1>3, Kinds DEF PipeInv, Applied
<1> QED
  BY <1>6, <1>7, <1>8, <1>9 DEF PipeInv

----------------------------------------------------------------------------
(* The theorems *)

\* Nothing has been configured: nothing is claimed yet.
LEMMA PipeInit == Init => PipeInv
<1> SUFFICES ASSUME Init
             PROVE  PipeInv
  OBVIOUS
<1>1. Idle \in Turns
  BY FirstTurn DEF Idle, Turns
<1>2. \A r \in Run : run[r].at = "idle" /\ run[r].calm = FALSE
  BY DEF Init, Idle
<1>3. Typed
  BY <1>1 DEF Init, Typed
<1>4. Quiet /\ \A r \in Run : Progress(r)
  BY <1>2 DEF Quiet, Progress, Calm, Busy
<1>5. Applied = {}
  BY DEF Init, Applied
<1> QED
  BY <1>3, <1>4, <1>5 DEF PipeInv

\* Every step keeps the invariant, a change by disturbing what it would break.
LEMMA PipeStep == PipeInv /\ [Next]_vars => PipeInv'
<1> SUFFICES ASSUME PipeInv, [Next]_vars
             PROVE  PipeInv'
  OBVIOUS
<1>1. CASE UNCHANGED vars
  <2>1. UNCHANGED <<dev, config, shapes, redis, container, known, run, settled>>
    BY <1>1 DEF vars
  <2>2. Typed' /\ Quiet'
    BY <2>1 DEF PipeInv, Typed, Quiet, Calm, Busy
  <2>3. \A q \in Pipe : /\ Wanted(q)' = Wanted(q)
                        /\ Done(q) => Done(q)'
                        /\ Written(q) => Written(q)'
    BY <2>1, SameRows, DoneStays, WrittenStays
  <2>4. ASSUME NEW r \in Run
        PROVE  Progress(r)'
    <3>1. run[r].next \in 1 .. Len(Pipes)
      BY DEF PipeInv, Typed, Turns
    <3>2. Upto(run[r].next) \subseteq Pipe /\ Current(r) \in Pipe
      BY <3>1, Turn DEF Current
    <3>3. Current(r)' = Current(r) /\ Calm(r)' = Calm(r)
      BY <2>1 DEF Current, Calm, Busy
    <3>4. CountedBut(Current(r), run[r].left) => CountedBut(Current(r), run[r].left)'
      BY <2>1, <2>3, <3>2, <3>3 DEF CountedBut, Numbered
    <3> QED
      BY <2>1, <2>3, <3>2, <3>3, <3>4 DEF PipeInv, Progress
  <2>5. \A q \in Applied' : Done(q)'
    BY <2>1, <2>3, Kinds DEF PipeInv, Applied
  <2> QED
    BY <2>2, <2>4, <2>5 DEF PipeInv
<1> QED
  BY <1>1, EditKeeps, AssignKeeps, RegenerateKeeps, BeginKeeps, ConfigureKeeps, ClearKeeps,
     FillKeeps, DockerKeeps, StopAllKeeps, DockerFailsKeeps, ReloadKeeps DEF Next

\* The inductive invariant holds always.
LEMMA PipeInvariant == Spec => []PipeInv
BY PipeInit, PipeStep, PTL DEF Spec

\* After a regeneration with nothing beside it the files, the numbers and the
\* containers of the pipelines it restarts are those of the rows, for any
\* devices: no event is published for another camera than the one that saw it.
THEOREM AttributesEvents == Spec => []EventsAttributed
<1>1. ASSUME PipeInv, Profiled, NEW p \in Applied
      PROVE  IF Wanted(p) = {} THEN ~container[p].up
             ELSE /\ container[p].up /\ container[p].list = Queried(Wanted(p))
                  /\ redis[p] = Numbered(container[p].list)
                  /\ \A i \in DOMAIN container[p].list \intersect Source :
                       Event(p, i).device \in {None, Event(p, i).seen}
  <2>1. Done(p)
    BY <1>1 DEF PipeInv
  <2> QED
    BY <1>1, <2>1 DEF Done, Counted, Numbered, Event
<1>2. PipeInv => EventsAttributed
  BY <1>1 DEF EventsAttributed
<1> QED
  BY <1>2, PipeInvariant, PTL

\* And while only the main pipeline has cameras, the shapes of a stream are
\* those of the camera that the stream comes from.
THEOREM DrawsShapesOnTheirStream == Spec => []ShapesOnTheirStream
<1>1. ASSUME PipeInv, Profiled, \A p \in Pipe \ {Main} : Wanted(p) = {},
             NEW p \in Applied \intersect {Main}, Wanted(p) # {},
             NEW i \in DOMAIN container[p].list \intersect Source
      PROVE  Event(p, i).shapes = OnStream(Event(p, i).seen)
  <2>1. Done(p) /\ p = Main /\ Alone
    BY <1>1 DEF PipeInv, Alone
  <2> QED
    BY <1>1, <2>1 DEF Done, Streams, Event
<1>2. PipeInv => ShapesOnTheirStream
  BY <1>1 DEF ShapesOnTheirStream
<1> QED
  BY <1>2, PipeInvariant, PTL
=============================================================================
