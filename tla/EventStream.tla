----------------------------- MODULE EventStream -----------------------------
(***************************************************************************)
(* The service that listens to the cameras' event streams                  *)
(* (event-stream-service/main.py): one asyncio process, a task for each    *)
(* camera, and a loop that reads the table of devices every 30 s.  The     *)
(* requests block, so a task runs alone from one await to the next, and    *)
(* these are the steps here.                                               *)
(***************************************************************************)
EXTENDS Integers, Sequences

CONSTANTS
  Device,
  Flow,          \* what a camera sends: boundaries, and parts of code and data
  ChunkCap,      \* symbols one read brings at most (4096 bytes)
  BufferCap,     \* symbols a buffer without a boundary may hold (10000 bytes)
  BufferKeep,    \* symbols kept of a longer one (4096 bytes)
  FirstDelay,    \* seconds before the first reconnection (5)
  MaxDelay,      \* and at most (120)
  MaxRestarts    \* bound on the restarts of the service

\* A symbol is named by its place in the flow.
Place      == 1..Len(Flow)
Boundaries == {k \in Place : Flow[k] = "boundary"}
Codes      == {k \in Place : Flow[k] = "code"}

ASSUME FlowAssumption == Flow \in Seq({"boundary", "code", "data"})
\* A part begins with the Code that parse_event looks for.
ASSUME PartsAssumption == \A k \in Codes : k - 1 \in Boundaries
ASSUME BufferAssumption == ChunkCap \in Nat /\ BufferCap \in Nat /\ BufferKeep \in 0..BufferCap
ASSUME DelayAssumption == FirstDelay \in Nat \ {0} /\ MaxDelay \in Nat /\ FirstDelay <= MaxDelay
ASSUME RestartsAssumption == MaxRestarts \in Nat

VARIABLES
  desired,     \* the devices get_devices would return now
  task,        \* the task of each device, as the list `tasks` has it
  conn,        \* the connection of each task
  sent,        \* how far each camera is in what it sends
  published,   \* the events that went to Redis, those of a step together
  failed,      \* history: the events that Redis did not take
  restarts,    \* restarts so far
  up,          \* the refresh loop has not failed
  off          \* history: devices this process has cancelled

vars == <<desired, task, conn, sent, published, failed, restarts, up, off>>

NoTask  == [pc |-> "none", cancelled |-> FALSE, delay |-> FirstDelay]
NewTask == [pc |-> "new", cancelled |-> FALSE, delay |-> FirstDelay]

\* Nothing is taken out of the middle of a buffer, so it is what the camera has
\* sent from after the place `kept` up to what was read last.
NoConn == [known |-> FALSE, from |-> 0, chunk |-> 0, kept |-> 0]

TypeOK ==
  /\ desired \subseteq Device
  /\ task \in [Device -> [pc : {"none", "new", "got", "wait", "ended"},
                          cancelled : BOOLEAN, delay : FirstDelay..MaxDelay]]
  /\ conn \in [Device -> [known : BOOLEAN, from : 0..Len(Flow), chunk : 0..ChunkCap,
                          kept : 0..Len(Flow)]]
  /\ sent \in [Device -> 0..Len(Flow)]
  /\ published \in [Device -> Seq(SUBSET Codes)]
  /\ failed \in [Device -> SUBSET Codes]
  /\ restarts \in 0..MaxRestarts
  /\ up \in BOOLEAN
  /\ off \subseteq Device

Init ==
  /\ desired \in SUBSET Device
  /\ task = [d \in Device |-> NoTask]
  /\ conn = [d \in Device |-> NoConn]
  /\ sent = [d \in Device |-> 0]
  /\ published = [d \in Device |-> <<>>]
  /\ failed = [d \in Device |-> {}]
  /\ restarts = 0
  /\ up = TRUE
  /\ off = {}

Live(d) == task[d].pc \in {"new", "got", "wait"}

GoTo(d, pc, delay) ==
  task' = [task EXCEPT ![d] = [pc |-> pc, cancelled |-> @.cancelled, delay |-> delay]]

Doubled(delay) == IF 2 * delay < MaxDelay THEN 2 * delay ELSE MaxDelay

----------------------------------------------------------------------------
(* The refresh loop *)

\* event_listener_enabled or the credentials are edited.
Edit(d) ==
  /\ desired' = (desired \ {d}) \cup ({d} \ desired)
  /\ UNCHANGED <<task, conn, sent, published, failed, restarts, up, off>>

\* Slip: a task whose device is gone is left running.
RefreshSlip ==
  /\ up
  /\ task' = [d \in Device |->
       IF d \in desired /\ task[d].pc = "none" THEN NewTask
       ELSE task[d]]
  /\ off' = off \cup {d \in Device \ desired : Live(d)}
  /\ UNCHANGED <<desired, conn, sent, published, failed, restarts, up>>

\* A task stays in the list after it has ended, so its name still counts as
\* running and the device gets no other one.
Refresh ==
  /\ up
  /\ task' = [d \in Device |->
       IF d \notin desired /\ Live(d) THEN [task[d] EXCEPT !.cancelled = TRUE]
       ELSE IF d \in desired /\ task[d].pc = "none" THEN NewTask
       ELSE task[d]]
  /\ off' = off \cup {d \in Device \ desired : Live(d)}
  /\ UNCHANGED <<desired, conn, sent, published, failed, restarts, up>>

\* get_devices raises: the refresh loop ends, and the process with it.
RefreshFails ==
  /\ up /\ restarts < MaxRestarts
  /\ up' = FALSE
  /\ task' = [d \in Device |-> NoTask]
  /\ conn' = [d \in Device |-> NoConn]
  /\ off' = {}
  /\ UNCHANGED <<desired, sent, published, failed, restarts>>

Restart ==
  /\ ~up
  /\ up' = TRUE
  /\ restarts' = restarts + 1
  /\ UNCHANGED <<desired, task, conn, sent, published, failed, off>>

----------------------------------------------------------------------------
(* A watcher *)

\* A task that was cancelled ends at the await it is in.
EndCancelled(d) ==
  /\ Live(d) /\ task[d].cancelled
  /\ task' = [task EXCEPT ![d].pc = "ended"]
  /\ conn' = [conn EXCEPT ![d] = NoConn]
  /\ UNCHANGED <<desired, sent, published, failed, restarts, up, off>>

\* The read that ends a step: a chunk in hand at the await of
\* _async_iter_content, or the stream ends and the task sleeps.
Read(d, c, delay) ==
  \/ \E k \in 1..ChunkCap :
       /\ sent[d] + k <= Len(Flow)
       /\ sent' = [sent EXCEPT ![d] = @ + k]
       /\ conn' = [conn EXCEPT ![d] = [c EXCEPT !.chunk = k]]
       /\ GoTo(d, "got", delay)
  \/ /\ conn' = [conn EXCEPT ![d] = NoConn]
     /\ GoTo(d, "wait", delay)
     /\ UNCHANGED sent

\* The delay doubles after each sleep.
NextDelay(d) == IF task[d].pc = "wait" THEN Doubled(task[d].delay) ELSE FirstDelay

\* Slip: the exception of a refused connection ends the task.
AttachFailsSlip(d) ==
  /\ task[d].pc \in {"new", "wait"} /\ ~task[d].cancelled
  /\ task' = [task EXCEPT ![d].pc = "ended"]
  /\ UNCHANGED <<desired, conn, sent, published, failed, restarts, up, off>>

\* The camera cannot be reached or refuses.
AttachFails(d) ==
  /\ task[d].pc \in {"new", "wait"} /\ ~task[d].cancelled
  /\ GoTo(d, "wait", NextDelay(d))
  /\ UNCHANGED <<desired, conn, sent, published, failed, restarts, up, off>>

\* The camera sends from its next part on; what it sent while nobody listened
\* is gone.  Connecting sets the delay back to the first one.
Attach(d) ==
  /\ task[d].pc \in {"new", "wait"} /\ ~task[d].cancelled
  /\ \E code \in Codes, k \in 1..ChunkCap :
       LET from == code - 2 IN
       /\ from >= sent[d] - 1 /\ from + k <= Len(Flow)
       /\ sent' = [sent EXCEPT ![d] = from + k]
       /\ conn' = [conn EXCEPT ![d] = [known |-> FALSE, from |-> from, chunk |-> k,
                                           kept |-> from]]
       /\ GoTo(d, "got", FirstDelay)
  /\ UNCHANGED <<desired, published, failed, restarts, up, off>>

\* The camera answers, and its stream ends or falls silent before a chunk has
\* come: the delay is the first one again.
AttachEmpty(d) ==
  /\ task[d].pc \in {"new", "wait"} /\ ~task[d].cancelled
  /\ GoTo(d, "wait", FirstDelay)
  /\ UNCHANGED <<desired, conn, sent, published, failed, restarts, up, off>>

\* The last boundary in a buffer, or where the buffer begins.
Last(kept, read) ==
  LET ends == {kept} \union (Boundaries \intersect kept + 1..read)
  IN CHOOSE k \in ends : \A j \in ends : j <= k

\* Slip: the buffer begins anew with each chunk.
RestSlip(kept, read) == read

\* Everything up to the last boundary is taken off the buffer; the rest is cut
\* when it has grown too long.
Rest(kept, read) ==
  LET last == Last(kept, read)
  IN IF read - last > BufferCap THEN read - BufferKeep ELSE last

\* Slip: the last part is parsed although its boundary has not come.
EventsSlip(kept, read) == Codes \intersect kept + 1..read

\* parse_event: an event for each segment before a boundary that has a Code.
Events(kept, read) == Codes \intersect kept + 1..Last(kept, read)

\* The chunk is added to the buffer.  Nothing is parsed, or cut, until a chunk
\* has announced the boundary.  An event that Redis refuses is logged and no
\* more; it is stored all the same, and neither failing stops the watcher.
Process(d) ==
  /\ task[d].pc = "got" /\ ~task[d].cancelled
  /\ \E known \in {conn[d].known, TRUE} :
       LET c == conn[d]
           kept == IF known THEN Rest(c.kept, sent[d]) ELSE c.kept
           new == IF known THEN Events(c.kept, sent[d]) ELSE {}
       IN /\ \E taken \in SUBSET new :
               /\ published' = [published EXCEPT ![d] =
                                 IF taken = {} THEN @ ELSE Append(@, taken)]
               /\ failed' = [failed EXCEPT ![d] = @ \cup (new \ taken)]
          /\ Read(d, [known |-> known, from |-> c.from, chunk |-> 0, kept |-> kept],
                  task[d].delay)
  /\ UNCHANGED <<desired, restarts, up, off>>

----------------------------------------------------------------------------

Watch(d) ==
  EndCancelled(d) \/ AttachFails(d) \/ AttachEmpty(d) \/ Attach(d) \/ Process(d)

Next ==
  \/ Refresh \/ RefreshFails \/ Restart
  \/ \E d \in Device : Edit(d) \/ Watch(d)

Spec == Init /\ [][Next]_vars

\* The event loop runs every task that is ready and the refresh loop every
\* 30 s; Docker restarts the service.
Fairness ==
  /\ WF_vars(Refresh) /\ WF_vars(Restart)
  /\ \A d \in Device : WF_vars(Watch(d))

FairSpec == Spec /\ Fairness

----------------------------------------------------------------------------
(* Properties *)

\* No event is published twice or after a later one, whatever connections,
\* chunks and restarts it came through (DahuaEventWatcher.run).
PublishedInOrder ==
  \A d \in Device : \A j, k \in 1..Len(published[d]) :
    j < k => \A m \in published[d][j], n \in published[d][k] : m < n

\* The parts that a buffer always holds.
Short(code) == \E k \in Boundaries : code < k /\ k - code <= BufferCap

\* Once the boundary is known, an event of the connection whose closing boundary
\* has been read is published, unless Redis refused it, and one still open is
\* kept whole in the buffer, however the chunks are cut; of what the camera
\* sends, only parts longer than the buffer are lost.
NothingLost ==
  \A d \in Device : conn[d].known =>
    LET read == sent[d] - conn[d].chunk IN
    \A code \in Codes \intersect conn[d].from + 1..read : Short(code) =>
      IF \E k \in Boundaries : code < k /\ k <= read
      THEN \/ code \in failed[d]
           \/ \E j \in 1..Len(published[d]) : code \in published[d][j]
      ELSE code > conn[d].kept

\* A device that stays switched off is not listened to any more.
SwitchedOffStops ==
  \A d \in Device : (<>[](d \notin desired)) => <>[](~Live(d))

\* A device that stays switched on, and that this process has never switched
\* off, keeps a watcher through every failure of its stream.
KeptWatching ==
  \A d \in Device : (<>[](d \in desired /\ d \notin off)) => <>[]Live(d)
=============================================================================
