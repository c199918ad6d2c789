------------------------------ MODULE Pipelines ------------------------------
(***************************************************************************)
(* The configuration of the video pipelines.  A regeneration reads the     *)
(* devices, reads them again for the files it writes for each pipeline (a  *)
(* source list, and one file of analysis shapes that all pipelines share), *)
(* puts the numbers of the sources in Redis and restarts containers.  A    *)
(* container reads the files when it starts, and the numbers from Redis    *)
(* every five seconds: an event is published for the device Redis gives.   *)
(*                                                                         *)
(* Requests, tasks and the start-up regenerate without a lock, each from   *)
(* what it has read, while devices change.                                 *)
(***************************************************************************)
EXTENDS Integers, Sequences, SequencesExt

CONSTANTS
  Order,      \* the devices in the order of the queries, files at the end
  File,       \* devices that play a file: they are always read
  Shaped,     \* devices with analysis shapes
  Pipes,      \* the pipelines in the order of PIPELINE_CONFIGS
  Main,       \* the pipeline whose container is always restarted
  Run,        \* regenerations that may overlap
  None,
  MaxChanges  \* bound: changes of devices and regenerations

Device == ToSet(Order)
Pipe   == ToSet(Pipes)
Source == 1 .. Len(Order)       \* source_id, which the code counts from 0

ASSUME Kinds == File \subseteq Device /\ Shaped \subseteq Device /\ Main \in Pipe
                /\ None \notin Device \union Pipe
ASSUME OrderAssumption == Order \in Seq(Device) /\ IsInjective(Order)
ASSUME PipesAssumption == Pipes \in Seq(Pipe) /\ IsInjective(Pipes)
ASSUME ChangesAssumption == MaxChanges \in Nat

VARIABLES
  dev,        \* the rows: pipeline, online, with stream addresses, with a profile
  config,     \* config*.yml: the source list of each pipeline
  shapes,     \* config_nvdsanalytics.txt: whose shapes each stream has
  redis,      \* deepstream:sources:*: the device of each source
  container,  \* what each container has read when it started
  known,      \* source_to_device of each container
  run,        \* the regenerations
  changes,
  settled     \* history: the last regeneration had nothing beside it

vars == <<dev, config, shapes, redis, container, known, run, changes, settled>>

Nothing == [i \in Source |-> None]
Stopped == [up |-> FALSE, list |-> <<>>, shapes |-> Nothing]
Idle    == [at |-> "idle", named |-> FALSE, calm |-> FALSE, next |-> 1,
            mine |-> [p \in Pipe |-> {}], left |-> {}]

\* No pipeline has been configured; each device is new, as add_device or
\* add_file_device leaves it once its addresses are known.
Init ==
  /\ dev = [d \in Device |-> [pipe |-> Main, online |-> TRUE, uris |-> TRUE, token |-> TRUE]]
  /\ config = [p \in Pipe |-> <<>>] /\ shapes = Nothing
  /\ redis = [p \in Pipe |-> Nothing] /\ known = [p \in Pipe |-> Nothing]
  /\ container = [p \in Pipe |-> Stopped]
  /\ run = [r \in Run |-> Idle] /\ changes = 0 /\ settled = "no"

(* The queries: online cameras with addresses, then files with addresses.  *)
Ready(d) == dev[d].uris /\ (dev[d].online \/ d \in File)
Wanted(p) == {d \in Device : Ready(d) /\ dev[d].pipe = p}
Queried(S) == SelectSeq(Order, LAMBDA d : d \in S)

Disturbed == [r \in Run |-> [run[r] EXCEPT !.calm = FALSE]]
Change == changes < MaxChanges /\ changes' = changes + 1 /\ settled' = "no"

\* A row is edited, refreshed, or found online or offline.
Edit(d) ==
  /\ Change
  /\ \E f \in {"online", "uris", "token"} :
       dev' = [dev EXCEPT ![d][f] = ~@]
  /\ run' = Disturbed
  /\ UNCHANGED <<config, shapes, redis, container, known>>

Started(r, named) ==
  run' = [Disturbed EXCEPT ![r] =
            [Idle EXCEPT !.at = "begin", !.named = named,
                         !.calm = \A x \in Run : run[x].at = "idle"]]

\* assign_pipeline saves the column; its regeneration names the pipeline,
\* whose empty name counts as none.
Assign(r, d) ==
  /\ Change /\ run[r].at = "idle"
  /\ \E p \in Pipe \union {None} :
       dev' = [dev EXCEPT ![d].pipe = p] /\ Started(r, p # None)
  /\ UNCHANGED <<config, shapes, redis, container, known>>

\* analytics_apply, analytics_disable, delete_device, refresh_device_streams,
\* orchestrate_cameras, the start-up and the command sync_config.
Regenerate(r) ==
  /\ Change /\ run[r].at = "idle"
  /\ Started(r, FALSE)
  /\ UNCHANGED <<dev, config, shapes, redis, container, known>>

\* The devices are read, with their pipelines, for what goes to Redis.
Begin(r) ==
  /\ run[r].at = "begin"
  /\ run' = [run EXCEPT ![r] =
       [@ EXCEPT !.at = IF \E d \in Device : Ready(d) THEN "configure" ELSE "stop",
                 !.mine = [p \in Pipe |-> Wanted(p)]]]
  /\ UNCHANGED <<dev, config, shapes, redis, container, known, changes, settled>>

\* The pipeline whose turn it is; the run goes on with the one after it, or
\* from the first with `then`.
Current(r) == Pipes[run[r].next]
Advance(r, same, then) ==
  IF run[r].next < Len(Pipes) THEN [run[r] EXCEPT !.next = @ + 1, !.at = same]
  ELSE IF then = "idle" THEN Idle ELSE [run[r] EXCEPT !.next = 1, !.at = then]

\* The sections that the shapes of a device make for its stream.
OnStream(d) == IF d \in Shaped THEN d ELSE None

\* Slip: a device without shapes does not count as a stream.
StreamsSlip(S) ==
  LET shaped == Queried(S \intersect Shaped) IN
    [i \in Source |-> IF i \in DOMAIN shaped THEN shaped[i] ELSE None]

\* generate_nvdsanalytics_config: the stream of a device is its position.
Streams(S) ==
  [i \in Source |-> IF i \in DOMAIN Queried(S) THEN OnStream(Queried(S)[i]) ELSE None]

\* generate_config: a device without a profile is left out of the sources.
SourceList(S) == Queried({d \in S : dev[d].token})

\* generate_all_configs asks again which devices the pipeline has.
Configure(r) ==
  /\ run[r].at = "configure"
  /\ LET p == Current(r) IN
     /\ config' = [config EXCEPT ![p] = SourceList(Wanted(p))]
     /\ shapes' = IF Wanted(p) = {} THEN shapes ELSE Streams(Wanted(p))
  /\ run' = [run EXCEPT ![r] = Advance(r, "configure", "clear")]
  /\ UNCHANGED <<dev, redis, container, known, changes, settled>>

\* The devices whose numbers a run has for the pipeline in turn.
Mine(r) == Queried(run[r].mine[Current(r)])

\* The numbers of a pipeline are deleted ...
Clear(r) ==
  /\ run[r].at = "clear"
  /\ redis' = [redis EXCEPT ![Current(r)] = Nothing]
  /\ run' = [run EXCEPT ![r].at = "fill", ![r].left = {i \in Source : i \in DOMAIN Mine(r)}]
  /\ UNCHANGED <<dev, config, shapes, container, known, changes, settled>>

\* ... and then written one after the other, beside the probe's reading and
\* the numbers of other runs.
Fill(r) ==
  /\ run[r].at = "fill"
  /\ \E i \in run[r].left :
       /\ \A j \in run[r].left : i <= j
       /\ redis' = [redis EXCEPT ![Current(r)][i] = Mine(r)[i]]
       /\ run' = [run EXCEPT ![r].left = @ \ {i}]
  /\ UNCHANGED <<dev, config, shapes, container, known, changes, settled>>

Filled(r) == run[r].at = "fill" /\ run[r].left = {}

Boot(p) == [up |-> TRUE, list |-> config[p], shapes |-> shapes]

Finish(r, next) ==
  settled' = IF next.at = "idle" /\ run[r].calm THEN IF run[r].named THEN "all" ELSE "main" ELSE settled

\* Slip: a container without cameras is not stopped.
DockerSlip(r) ==
  /\ Filled(r)
  /\ LET p == Current(r)  next == Advance(r, "clear", "idle") IN
     /\ IF p = Main \/ run[r].named
        THEN /\ container' = [container EXCEPT ![p] = Boot(p)]
             /\ known' = [known EXCEPT ![p] = Nothing]
        ELSE UNCHANGED <<container, known>>
     /\ run' = [run EXCEPT ![r] = next] /\ Finish(r, next)
  /\ UNCHANGED <<dev, config, shapes, redis, changes>>

\* Docker is told to stop a pipeline without cameras; one with cameras is
\* restarted when it is the main one, or when a pipeline was named.
Docker(r) ==
  /\ Filled(r)
  /\ LET p == Current(r)  next == Advance(r, "clear", "idle") IN
     /\ IF run[r].mine[p] = {}
        THEN container' = [container EXCEPT ![p] = Stopped] /\ known' = [known EXCEPT ![p] = Nothing]
        ELSE IF p = Main \/ run[r].named
        THEN container' = [container EXCEPT ![p] = Boot(p)] /\ known' = [known EXCEPT ![p] = Nothing]
        ELSE UNCHANGED <<container, known>>
     /\ run' = [run EXCEPT ![r] = next] /\ Finish(r, next)
  /\ UNCHANGED <<dev, config, shapes, redis, changes>>

\* Without any device all containers are stopped, and nothing else is done.
StopAll(r) ==
  /\ run[r].at = "stop"
  /\ LET p == Current(r)  next == Advance(r, "stop", "idle") IN
     /\ container' = [container EXCEPT ![p] = Stopped] /\ known' = [known EXCEPT ![p] = Nothing]
     /\ run' = [run EXCEPT ![r] = next] /\ Finish(r, next)
  /\ UNCHANGED <<dev, config, shapes, redis, changes>>

\* Docker does not answer: it is logged, and the run goes on.
DockerFails(r) ==
  /\ Change /\ (Filled(r) \/ run[r].at = "stop")
  /\ LET next == IF run[r].at = "stop" THEN Advance(r, "stop", "idle")
                 ELSE Advance(r, "clear", "idle") IN
       run' = [Disturbed EXCEPT ![r] = [next EXCEPT !.calm = FALSE]]
  /\ UNCHANGED <<dev, config, shapes, redis, container, known>>

\* Every five seconds the probe forgets the numbers and reads them again.
Reload(p) ==
  /\ container[p].up /\ known' = [known EXCEPT ![p] = redis[p]]
  /\ UNCHANGED <<dev, config, shapes, redis, container, run, changes, settled>>

\* The probe's event of stream i: who was seen, for whom it is published, if
\* for anyone, and whose shapes it can name.
Event(p, i) == [seen |-> container[p].list[i], device |-> known[p][i],
                shapes |-> container[p].shapes[i]]

Next ==
  \/ \E d \in Device : Edit(d) \/ \E r \in Run : Assign(r, d)
  \/ \E r \in Run : \/ Regenerate(r) \/ Begin(r) \/ Configure(r) \/ Clear(r)
                    \/ Fill(r) \/ Docker(r) \/ StopAll(r) \/ DockerFails(r)
  \/ \E p \in Pipe : Reload(p)

Spec == Init /\ [][Next]_vars

-----------------------------------------------------------------------------
Profiled == \A d \in Device : Ready(d) => dev[d].token
Numbered(list) == [i \in Source |-> IF i \in DOMAIN list THEN list[i] ELSE None]
Applied == IF settled = "all" THEN Pipe ELSE IF settled = "main" THEN {Main} ELSE {}

(* After a regeneration that nothing disturbed, a container it restarts    *)
(* reads the cameras of its pipeline and no other, the events of each are  *)
(* published for that camera, and one without cameras is stopped: the two  *)
(* queries, the two numberings and the files agree.                        *)
EventsAttributed ==
  Profiled => \A p \in Applied :
    IF Wanted(p) = {} THEN ~container[p].up
    ELSE /\ container[p].up /\ container[p].list = Queried(Wanted(p))
         /\ redis[p] = Numbered(container[p].list)
         /\ \A i \in DOMAIN container[p].list \intersect Source :
              Event(p, i).device \in {None, Event(p, i).seen}

(* And its streams have the shapes drawn for their own cameras, as long as *)
(* no other pipeline has cameras: the file is shared.                      *)
ShapesOnTheirStream ==
  Profiled /\ (\A p \in Pipe \ {Main} : Wanted(p) = {}) =>
    \A p \in Applied \intersect {Main} : Wanted(p) # {} =>
      \A i \in DOMAIN container[p].list \intersect Source :
        Event(p, i).shapes = OnStream(Event(p, i).seen)

(* README: a regeneration restarts the containers that have cameras.  Those*)
(* of other pipelines than the main one go on with their old source list,  *)
(* and the new numbers of Redis.                                           *)
RestartsThoseWithCameras ==
  settled # "no" /\ Profiled => \A p \in Pipe : container[p].up => container[p].list = Queried(Wanted(p))
=============================================================================
