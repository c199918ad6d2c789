------------------------- MODULE EventStreamProofs -------------------------
(***************************************************************************)
(* What the watchers publish of the cameras' streams, for any devices, any *)
(* flow of parts and boundaries, any chunks and buffers, and any number of *)
(* restarts.                                                               *)
(***************************************************************************)
EXTENDS EventStream, SequenceTheorems, WellFoundedInduction, TLAPS

\* What was published, in whatever step.
Reported(s) == UNION {s[j] : j \in 1..Len(s)}
Ordered(s) == \A j, k \in 1..Len(s) : j < k => \A m \in s[j], n \in s[k] : m < n

ReadUpto(d) == sent[d] - conn[d].chunk

\* The buffer begins where the connection does, until the boundary is known,
\* and never behind what was read; there is one only with a chunk in hand.
Buffered(d) ==
  /\ task[d].pc = "got" => /\ conn[d].from <= conn[d].kept /\ conn[d].kept <= ReadUpto(d)
                           /\ ~conn[d].known => conn[d].kept = conn[d].from
  /\ task[d].pc # "got" => conn[d] = NoConn

\* What was published lies before the buffer, and before all that is yet to come.
Behind(d) ==
  \A m \in Reported(published[d]) :
    m < sent[d] /\ (task[d].pc = "got" => m <= conn[d].kept)

\* What Redis was told, whether it took it or not.
Told(d) == Reported(published[d]) \union failed[d]

\* Redis was told the events of a connection that are closed, and the one that
\* is open is in the buffer.
Complete(d) ==
  conn[d].known =>
    \A code \in Codes \intersect conn[d].from + 1..ReadUpto(d) : Short(code) =>
      IF \E k \in Boundaries : code < k /\ k <= ReadUpto(d)
      THEN code \in Told(d) ELSE code > conn[d].kept

Watched(d) == Buffered(d) /\ Behind(d) /\ Ordered(published[d]) /\ Complete(d)

\* The service is down only to be restarted.
StreamInv ==
  /\ TypeOK
  /\ ~up => restarts < MaxRestarts
  /\ \A d \in Device : Watched(d)

----------------------------------------------------------------------------
(* Places in the flow *)

\* The flow is finite, and no place holds both a boundary and a code.
LEMMA Places ==
  /\ Len(Flow) \in Nat
  /\ Boundaries \subseteq 1..Len(Flow) /\ Codes \subseteq 1..Len(Flow)
  /\ Boundaries \subseteq Nat /\ Codes \subseteq Nat
  /\ \A k \in Codes : k \notin Boundaries
<1>1. Len(Flow) \in Nat
  BY FlowAssumption, LenProperties
<1> QED
  BY <1>1 DEF Boundaries, Codes, Place

\* A buffer has a last boundary, or it begins behind it.
LEMMA LastIsLast ==
  ASSUME NEW kept \in Nat, NEW read \in Nat, kept <= read
  PROVE  /\ Last(kept, read) \in Nat
         /\ kept <= Last(kept, read) /\ Last(kept, read) <= read
         /\ Last(kept, read) = kept \/ Last(kept, read) \in Boundaries
         /\ \A k \in Boundaries : kept < k /\ k <= read => k <= Last(kept, read)
<1> DEFINE ends == {kept} \union (Boundaries \intersect kept + 1..read)
           back == {read - k : k \in ends}
<1>1. /\ ends \subseteq Nat /\ ends # {}
      /\ \A k \in ends : kept <= k /\ k <= read
      /\ \A k \in Boundaries : kept < k /\ k <= read => k \in ends
  BY Places
<1>2. back \in SUBSET Nat /\ back # {}
  BY <1>1
<1>3. PICK b \in back : \A x \in back : ~(<<x, b>> \in OpToRel(<, Nat))
  BY <1>2, WFMin, NatLessThanWellFounded
<1>4. \A x \in back : ~(x < b)
  BY <1>2, <1>3, Zenon DEF OpToRel
<1>5. PICK k \in ends : b = read - k
  OBVIOUS
<1>6. \A j \in ends : j <= k
  <2> SUFFICES ASSUME NEW j \in ends
               PROVE  j <= k
    OBVIOUS
  <2>1. ~(read - j < b)
    BY <1>4
  <2> QED
    BY <1>1, <1>5, <2>1
<1>7. Last(kept, read) = CHOOSE x \in ends : \A j \in ends : j <= x
  BY DEF Last
<1>8. Last(kept, read) \in ends /\ \A j \in ends : j <= Last(kept, read)
  BY <1>6, <1>7
<1> HIDE DEF ends
<1>9. Last(kept, read) = kept \/ Last(kept, read) \in Boundaries
  BY <1>8 DEF ends
<1> QED
  BY <1>1, <1>8, <1>9

\* Taking off what is parsed, and cutting what is too long, moves the start of
\* the buffer on, past the last boundary but not past what was read.
LEMMA RestIsRest ==
  ASSUME NEW kept \in Nat, NEW read \in Nat, kept <= read
  PROVE  /\ Rest(kept, read) \in Nat /\ kept <= Rest(kept, read)
         /\ Last(kept, read) <= Rest(kept, read) /\ Rest(kept, read) <= read
<1> DEFINE last == Last(kept, read)
<1>1. last \in Nat /\ kept <= last /\ last <= read
  BY LastIsLast
<1> HIDE DEF last
<1>2. Rest(kept, read) = IF read - last > BufferCap THEN read - BufferKeep ELSE last
  BY DEF Rest, last
<1> QED
  BY <1>1, <1>2, BufferAssumption DEF last

\* An event that is parsed begins in the buffer and ends before what is left.
LEMMA EventsParsed ==
  ASSUME NEW kept \in Nat, NEW read \in Nat, kept <= read, NEW code \in Events(kept, read)
  PROVE  code \in Codes /\ kept < code /\ code < Last(kept, read)
<1> DEFINE last == Last(kept, read)
<1>1. last \in Nat /\ kept <= last /\ (last = kept \/ last \in Boundaries)
  BY LastIsLast
<1>2. code \in Codes /\ code \in kept + 1..last
  BY DEF Events
<1> HIDE DEF last
<1>3. code \in Nat /\ code \notin Boundaries
  BY <1>2, Places
<1>4. kept < code /\ code <= last /\ code # last
  BY <1>1, <1>2, <1>3
<1> QED
  BY <1>1, <1>2, <1>3, <1>4 DEF last

\* A short part that begins in the buffer is parsed when its boundary is there,
\* and else left as it is.
LEMMA ShortKept ==
  ASSUME NEW kept \in Nat, NEW read \in Nat, kept <= read,
         NEW code \in Codes, Short(code), kept < code, code <= read
  PROVE  IF \E k \in Boundaries : code < k /\ k <= read
         THEN code \in Events(kept, read) ELSE code > Rest(kept, read)
<1> DEFINE last == Last(kept, read)
<1>1. /\ last \in Nat /\ kept <= last /\ last <= read
      /\ last = kept \/ last \in Boundaries
      /\ \A k \in Boundaries : kept < k /\ k <= read => k <= last
  BY LastIsLast
<1>2. code \in Nat /\ Boundaries \subseteq Nat /\ code \notin Boundaries
  BY Places
<1>3. Rest(kept, read) = IF read - last > BufferCap THEN read - BufferKeep ELSE last
  BY DEF Rest
<1>4. Events(kept, read) = Codes \intersect kept + 1..last
  BY DEF Events
<1> HIDE DEF last
<1>5. ASSUME NEW k \in Boundaries, code < k, k <= read
      PROVE  code \in Events(kept, read)
  <2>1. k <= last
    BY <1>1, <1>2, <1>5
  <2> QED
    BY <1>1, <1>2, <1>4, <1>5, <2>1
<1>6. ASSUME ~\E k \in Boundaries : code < k /\ k <= read
      PROVE  code > Rest(kept, read)
  <2>1. PICK k \in Boundaries : code < k /\ k - code <= BufferCap
    BY DEF Short
  <2>2. ~(k <= read)
    BY <1>6, <2>1
  <2>3. last < code
    BY <1>1, <1>2, <1>6
  <2>4. code - 1 \in Boundaries
    BY PartsAssumption
  <2>5. code - 1 <= last
    BY <1>1, <1>2, <2>4
  <2>6. ~(read - last > BufferCap)
    BY <1>1, <1>2, <2>1, <2>2, <2>3, <2>5, BufferAssumption
  <2> QED
    BY <1>1, <1>2, <1>3, <2>3, <2>6
<1> QED
  BY <1>5, <1>6

----------------------------------------------------------------------------
(* What is published *)

\* Nothing but events is published.
LEMMA ReportedTyped ==
  ASSUME NEW s \in Seq(SUBSET Codes)
  PROVE  Reported(s) \subseteq Codes
<1>1. \A j \in 1..Len(s) : s[j] \in SUBSET Codes
  BY ElementOfSeq
<1> QED
  BY <1>1 DEF Reported

\* The events of a step come after all that were published before.
LEMMA Published ==
  ASSUME NEW s \in Seq(SUBSET Codes), NEW new \in SUBSET Codes, NEW kept \in Nat,
         \A m \in Reported(s) : m <= kept, \A n \in new : kept < n,
         Ordered(s), NEW t, t = IF new = {} THEN s ELSE Append(s, new)
  PROVE  /\ t \in Seq(SUBSET Codes) /\ Reported(t) = Reported(s) \union new /\ Ordered(t)
<1>1. CASE new = {}
  BY <1>1
<1>2. CASE new # {}
  <2>1. /\ t \in Seq(SUBSET Codes) /\ Len(t) = Len(s) + 1 /\ Len(s) \in Nat
        /\ t[Len(s) + 1] = new /\ \A i \in 1..Len(s) : t[i] = s[i]
    BY <1>2, AppendProperties, LenProperties
  <2>2. 1..Len(t) = 1..Len(s) \union {Len(s) + 1}
    BY <2>1
  <2>3. Reported(t) = Reported(s) \union new
    <3>1. ASSUME NEW m, m \in Reported(t)
          PROVE  m \in Reported(s) \union new
      BY <2>1, <2>2, <3>1 DEF Reported
    <3>2. ASSUME NEW m, m \in Reported(s) \union new
          PROVE  m \in Reported(t)
      BY <2>1, <2>2, <3>2 DEF Reported
    <3> QED
      BY <3>1, <3>2
  <2>4. ASSUME NEW j \in 1..Len(t), NEW k \in 1..Len(t), j < k,
               NEW m \in t[j], NEW n \in t[k]
        PROVE  m < n
    <3>1. j \in 1..Len(s)
      BY <2>1, <2>2, <2>4
    <3>2. m \in s[j] /\ m \in Reported(s)
      BY <2>1, <2>4, <3>1 DEF Reported
    <3>3. CASE k \in 1..Len(s)
      BY <2>1, <2>4, <3>1, <3>2, <3>3 DEF Ordered
    <3>4. CASE k = Len(s) + 1
      <4>1. m <= kept /\ kept < n
        BY <2>1, <2>4, <3>2, <3>4
      <4>2. s[j] \in SUBSET Codes
        BY <3>1, ElementOfSeq
      <4>3. m \in Codes /\ n \in Codes
        BY <2>1, <2>4, <3>2, <3>4, <4>2
      <4>4. m \in Nat /\ n \in Nat
        BY <4>3, Places
      <4> QED
        BY <4>1, <4>4
    <3> QED
      BY <2>2, <3>3, <3>4
  <2> QED
    BY <2>1, <2>3, <2>4 DEF Ordered
<1> QED
  BY <1>1, <1>2

----------------------------------------------------------------------------
(* The steps of a watcher *)

Watchers    == [pc : {"none", "new", "got", "wait", "ended"}, cancelled : BOOLEAN,
                delay : FirstDelay..MaxDelay]
Connections == [known : BOOLEAN, from : 0..Len(Flow), chunk : 0..ChunkCap,
                kept : 0..Len(Flow)]

\* The types of the watcher of a device, as far as its steps change them.
Typed ==
  /\ task \in [Device -> Watchers] /\ conn \in [Device -> Connections]
  /\ sent \in [Device -> 0..Len(Flow)] /\ published \in [Device -> Seq(SUBSET Codes)]
  /\ failed \in [Device -> SUBSET Codes]

\* What the types say of one device.
LEMMA OfDevice ==
  ASSUME StreamInv, NEW d \in Device
  PROVE  /\ Typed /\ Watched(d)
         /\ task[d] \in Watchers /\ conn[d] \in Connections
         /\ sent[d] \in Nat /\ sent[d] <= Len(Flow) /\ Len(Flow) \in Nat
         /\ published[d] \in Seq(SUBSET Codes) /\ failed[d] \in SUBSET Codes
         /\ conn[d].chunk \in Nat /\ conn[d].kept \in Nat /\ conn[d].from \in Nat
<1>1. Typed
  BY DEF StreamInv, TypeOK, Typed, Watchers, Connections
<1> QED
  BY <1>1, Places, BufferAssumption DEF StreamInv, Typed, Connections

\* A watcher that a step does not touch.
LEMMA Untouched ==
  ASSUME NEW d \in Device, Watched(d), task'[d].pc = task[d].pc, conn'[d] = conn[d],
         sent'[d] = sent[d], published'[d] = published[d], failed'[d] = failed[d]
  PROVE  Watched(d)'
BY DEF Watched, Buffered, Behind, Complete, ReadUpto, Told

\* A watcher without a connection has only to remember what it published.
LEMMA Unconnected ==
  ASSUME NEW d \in Device, Watched(d), task'[d].pc # "got", conn'[d] = NoConn,
         sent'[d] = sent[d], published'[d] = published[d]
  PROVE  Watched(d)'
<1>1. Buffered(d)' /\ Behind(d)'
  BY DEF Watched, Buffered, Behind
<1>2. Complete(d)'
  BY DEF Complete, NoConn
<1> QED
  BY <1>1, <1>2 DEF Watched

\* The step of one watcher leaves the others as they are.
LEMMA OneWatcher ==
  ASSUME StreamInv, NEW d \in Device, NEW pc, NEW delay \in FirstDelay..MaxDelay,
         pc \in {"none", "new", "got", "wait", "ended"},
         NEW c \in Connections, NEW n \in 0..Len(Flow), NEW p \in Seq(SUBSET Codes),
         NEW f \in SUBSET Codes,
         task' = [task EXCEPT ![d] = [pc |-> pc, cancelled |-> task[d].cancelled,
                                      delay |-> delay]],
         conn' = [conn EXCEPT ![d] = c], sent' = [sent EXCEPT ![d] = n],
         published' = [published EXCEPT ![d] = p], failed' = [failed EXCEPT ![d] = f],
         UNCHANGED <<desired, restarts, up, off>>,
         task'[d].pc = pc /\ conn'[d] = c /\ sent'[d] = n /\ published'[d] = p /\ failed'[d] = f
           => Watched(d)'
  PROVE  StreamInv'
<1>1. Typed /\ task[d] \in Watchers
  BY OfDevice
<1>2. [pc |-> pc, cancelled |-> task[d].cancelled, delay |-> delay] \in Watchers
  BY <1>1 DEF Watchers
<1>3. task'[d].pc = pc /\ conn'[d] = c /\ sent'[d] = n /\ published'[d] = p /\ failed'[d] = f
  BY <1>1 DEF Typed
<1>4. Typed'
  BY <1>1, <1>2 DEF Typed
<1>5. TypeOK'
  BY <1>4 DEF StreamInv, TypeOK, Typed, Watchers, Connections
<1>6. ASSUME NEW x \in Device, x # d
      PROVE  Watched(x)'
  <2>1. /\ task'[x] = task[x] /\ conn'[x] = conn[x] /\ sent'[x] = sent[x]
        /\ published'[x] = published[x] /\ failed'[x] = failed[x]
    BY <1>1, <1>6 DEF Typed
  <2> QED
    BY <2>1, Untouched DEF StreamInv
<1> QED
  BY <1>3, <1>5, <1>6 DEF StreamInv

\* Delays stay within their limits.
LEMMA Delays ==
  ASSUME NEW delay \in FirstDelay..MaxDelay
  PROVE  FirstDelay \in FirstDelay..MaxDelay /\ Doubled(delay) \in FirstDelay..MaxDelay
BY DelayAssumption DEF Doubled

\* No connection is one of them.
LEMMA NoConnTyped == NoConn \in Connections
BY Places, BufferAssumption DEF NoConn, Connections

\* The watcher ends, or waits for its next attempt.
LEMMA DetachKeeps ==
  ASSUME StreamInv, NEW d \in Device, EndCancelled(d) \/ AttachFails(d) \/ AttachEmpty(d)
  PROVE  StreamInv'
<1>1. /\ Typed /\ Watched(d) /\ task[d] \in Watchers /\ conn[d] \in Connections
      /\ sent[d] \in 0..Len(Flow) /\ published[d] \in Seq(SUBSET Codes)
      /\ failed[d] \in SUBSET Codes
  BY OfDevice DEF Typed
<1>2. /\ NextDelay(d) \in FirstDelay..MaxDelay /\ task[d].delay \in FirstDelay..MaxDelay
      /\ FirstDelay \in FirstDelay..MaxDelay
  BY <1>1, Delays DEF NextDelay, Watchers
<1>3. PICK pc \in {"ended", "wait"}, delay \in FirstDelay..MaxDelay :
        task' = [task EXCEPT ![d] = [pc |-> pc, cancelled |-> task[d].cancelled,
                                     delay |-> delay]]
  <2>1. CASE EndCancelled(d)
    <3>1. task' = [task EXCEPT ![d] = [pc |-> "ended", cancelled |-> task[d].cancelled,
                                       delay |-> task[d].delay]]
      <4>1. [task[d] EXCEPT !.pc = "ended"] =
              [pc |-> "ended", cancelled |-> task[d].cancelled, delay |-> task[d].delay]
        BY <1>1 DEF Watchers
      <4>2. task' = [task EXCEPT ![d] = [task[d] EXCEPT !.pc = "ended"]]
        BY <2>1 DEF EndCancelled
      <4> QED
        BY <4>1, <4>2
    <3> QED
      BY <1>2, <3>1
  <2>2. CASE AttachFails(d)
    <3>1. task' = [task EXCEPT ![d] = [pc |-> "wait", cancelled |-> task[d].cancelled,
                                       delay |-> NextDelay(d)]]
      BY <2>2 DEF AttachFails, GoTo
    <3> QED
      BY <1>2, <3>1
  <2>3. CASE AttachEmpty(d)
    <3>1. task' = [task EXCEPT ![d] = [pc |-> "wait", cancelled |-> task[d].cancelled,
                                       delay |-> FirstDelay]]
      BY <2>3 DEF AttachEmpty, GoTo
    <3> QED
      BY <1>2, <3>1
  <2> QED
    BY <2>1, <2>2, <2>3
<1>4. /\ conn' = [conn EXCEPT ![d] = NoConn]
      /\ UNCHANGED <<desired, sent, published, failed, restarts, up, off>>
  <2>1. CASE EndCancelled(d)
    BY <2>1 DEF EndCancelled
  <2>2. CASE AttachFails(d) \/ AttachEmpty(d)
    <3>1. conn[d] = NoConn
      BY <1>1, <2>2 DEF AttachFails, AttachEmpty, Watched, Buffered
    <3> QED
      BY <1>1, <2>2, <3>1 DEF AttachFails, AttachEmpty, Typed
  <2> QED
    BY <2>1, <2>2
<1>5. /\ sent' = [sent EXCEPT ![d] = sent[d]] /\ failed' = [failed EXCEPT ![d] = failed[d]]
      /\ published' = [published EXCEPT ![d] = published[d]]
  BY <1>1, <1>4 DEF Typed
<1>6. task'[d].pc = pc /\ conn'[d] = NoConn /\ sent'[d] = sent[d] /\ published'[d] = published[d]
        => Watched(d)'
  BY <1>1, Unconnected
<1> QED
  BY <1>1, <1>3, <1>4, <1>5, <1>6, NoConnTyped, OneWatcher

\* A connection begins behind all that was published.
LEMMA AttachKeeps ==
  ASSUME StreamInv, NEW d \in Device, Attach(d)
  PROVE  StreamInv'
<1>1. /\ Typed /\ Watched(d) /\ task[d] \in Watchers
      /\ sent[d] \in Nat /\ Len(Flow) \in Nat /\ published[d] \in Seq(SUBSET Codes)
      /\ failed[d] \in SUBSET Codes
  BY OfDevice
<1>2. PICK code \in Codes, k \in 1..ChunkCap :
        LET from == code - 2 IN
        /\ from >= sent[d] - 1 /\ from + k <= Len(Flow)
        /\ sent' = [sent EXCEPT ![d] = from + k]
        /\ conn' = [conn EXCEPT ![d] = [known |-> FALSE, from |-> from, chunk |-> k,
                                         kept |-> from]]
        /\ GoTo(d, "got", FirstDelay)
  BY DEF Attach
<1>3. code \in Nat /\ code - 1 \in 1..Len(Flow)
  BY Places, PartsAssumption
<1>4. PICK from \in Nat : from = code - 2
  BY <1>3
<1>5. k \in Nat /\ k > 0 /\ k <= ChunkCap /\ from + k <= Len(Flow) /\ from >= sent[d] - 1
  BY <1>2, <1>4, BufferAssumption
<1> DEFINE c == [known |-> FALSE, from |-> from, chunk |-> k, kept |-> from]
<1>6. /\ sent' = [sent EXCEPT ![d] = from + k] /\ conn' = [conn EXCEPT ![d] = c]
      /\ task' = [task EXCEPT ![d] = [pc |-> "got", cancelled |-> task[d].cancelled,
                                      delay |-> FirstDelay]]
      /\ published' = [published EXCEPT ![d] = published[d]]
      /\ failed' = [failed EXCEPT ![d] = failed[d]]
      /\ UNCHANGED <<desired, restarts, up, off>>
  <2>1. sent' = [sent EXCEPT ![d] = from + k] /\ conn' = [conn EXCEPT ![d] = c]
    BY <1>2, <1>4
  <2>2. task' = [task EXCEPT ![d] = [pc |-> "got", cancelled |-> task[d].cancelled,
                                     delay |-> FirstDelay]]
    BY <1>2 DEF GoTo
  <2>3. UNCHANGED <<desired, published, failed, restarts, up, off>>
    BY DEF Attach
  <2>4. /\ published' = [published EXCEPT ![d] = published[d]]
        /\ failed' = [failed EXCEPT ![d] = failed[d]]
    BY <1>1, <2>3 DEF Typed
  <2> QED
    BY <2>1, <2>2, <2>3, <2>4
<1>7. c \in Connections /\ from + k \in 0..Len(Flow)
  BY <1>1, <1>3, <1>4, <1>5 DEF Connections
<1>8. ASSUME task'[d].pc = "got", conn'[d] = c, sent'[d] = from + k,
             published'[d] = published[d]
      PROVE  Watched(d)'
  <2>1. Buffered(d)'
    BY <1>4, <1>5, <1>8 DEF Buffered, ReadUpto
  <2>2. \A m \in Reported(published[d]) : m \in Nat
    <3>1. Reported(published[d]) \subseteq Codes
      BY <1>1, ReportedTyped
    <3> QED
      BY <3>1, Places
  <2>3. Behind(d)'
    BY <1>1, <1>4, <1>5, <1>8, <2>2 DEF Watched, Behind
  <2>4. Complete(d)'
    BY <1>8 DEF Complete
  <2> QED
    BY <1>1, <1>8, <2>1, <2>3, <2>4 DEF Watched
<1> HIDE DEF c
<1>9. FirstDelay \in FirstDelay..MaxDelay
  BY DelayAssumption
<1> QED
  BY <1>1, <1>6, <1>7, <1>8, <1>9, OneWatcher

\* A chunk is parsed.  Whatever it was cut from, the events before the last
\* boundary are published, and what is open stays in the buffer.
LEMMA ProcessKeeps ==
  ASSUME StreamInv, NEW d \in Device, Process(d)
  PROVE  StreamInv'
<1>1. /\ Typed /\ Watched(d) /\ task[d] \in Watchers /\ conn[d] \in Connections
      /\ sent[d] \in Nat /\ sent[d] <= Len(Flow) /\ Len(Flow) \in Nat
      /\ published[d] \in Seq(SUBSET Codes) /\ failed[d] \in SUBSET Codes
      /\ conn[d].chunk \in Nat /\ conn[d].kept \in Nat /\ conn[d].from \in Nat
  BY OfDevice
<1>2. task[d].pc = "got" /\ conn[d].from <= conn[d].kept /\ conn[d].kept <= sent[d]
      /\ conn[d].kept <= ReadUpto(d) /\ ReadUpto(d) \in Int /\ ReadUpto(d) <= sent[d]
  BY <1>1 DEF Process, Watched, Buffered, ReadUpto
<1>3. PICK lo \in Nat, hi \in Nat : lo = conn[d].kept /\ hi = sent[d]
  BY <1>1
<1>4. PICK known \in BOOLEAN :
        /\ conn[d].known => known
        /\ LET c == conn[d]
               kept == IF known THEN Rest(c.kept, sent[d]) ELSE c.kept
               new == IF known THEN Events(c.kept, sent[d]) ELSE {}
           IN /\ \E taken \in SUBSET new :
                   /\ published' = [published EXCEPT ![d] =
                                     IF taken = {} THEN @ ELSE Append(@, taken)]
                   /\ failed' = [failed EXCEPT ![d] = @ \cup (new \ taken)]
              /\ Read(d, [known |-> known, from |-> c.from, chunk |-> 0, kept |-> kept],
                      task[d].delay)
  BY <1>1 DEF Process, Connections
<1>5. PICK kept \in Nat : kept = IF known THEN Rest(lo, hi) ELSE lo
  BY <1>2, <1>3, RestIsRest
<1>6. PICK new \in SUBSET Codes : new = IF known THEN Events(lo, hi) ELSE {}
  BY DEF Events
<1>6a. PICK taken \in SUBSET new :
         /\ published' = [published EXCEPT ![d] =
                           IF taken = {} THEN @ ELSE Append(@, taken)]
         /\ failed' = [failed EXCEPT ![d] = @ \cup (new \ taken)]
  BY <1>3, <1>4, <1>6
<1>7. PICK p, f : /\ p = IF taken = {} THEN published[d] ELSE Append(published[d], taken)
                  /\ f = failed[d] \cup (new \ taken)
  OBVIOUS
<1>8. /\ lo <= kept /\ kept <= hi
      /\ \A n \in new : lo < n /\ n <= kept /\ n < hi
  <2>1. ASSUME NEW n \in new
        PROVE  lo < n /\ n <= kept /\ n < hi
    <3>1. known /\ n \in Events(lo, hi)
      BY <1>6, <2>1
    <3>2. n \in Codes /\ lo < n /\ n < Last(lo, hi)
      BY <1>2, <1>3, <3>1, EventsParsed
    <3>3. Last(lo, hi) \in Nat /\ Last(lo, hi) <= kept /\ Last(lo, hi) <= hi /\ n \in Nat
      <4>1. lo <= hi /\ kept = Rest(lo, hi)
        BY <1>2, <1>3, <1>5, <3>1
      <4>2. Last(lo, hi) \in Nat /\ Last(lo, hi) <= hi /\ Last(lo, hi) <= Rest(lo, hi)
        BY <4>1, LastIsLast, RestIsRest
      <4> QED
        BY <3>2, <4>1, <4>2, Places
    <3> QED
      BY <3>2, <3>3
  <2> QED
    BY <1>2, <1>3, <1>5, <2>1, RestIsRest
<1>9. \A m \in Reported(published[d]) : m \in Nat /\ m <= lo /\ m < hi
  BY <1>1, <1>2, <1>3, ReportedTyped, Places DEF Watched, Behind
<1>10. /\ p \in Seq(SUBSET Codes) /\ Ordered(p) /\ Reported(p) = Reported(published[d]) \union taken
       /\ f \in SUBSET Codes /\ Reported(p) \union f = Told(d) \union new
  <2>1. taken \in SUBSET Codes /\ \A n \in taken : lo < n
    BY <1>8
  <2>2. p \in Seq(SUBSET Codes) /\ Ordered(p) /\ Reported(p) = Reported(published[d]) \union taken
    BY <1>1, <1>7, <1>9, <2>1, Published DEF Watched
  <2> QED
    BY <1>1, <1>7, <2>2 DEF Told
<1>11. \A m \in Reported(p) : m < hi /\ m <= kept
  BY <1>3, <1>8, <1>9, <1>10
\* What has been read of the connection is parsed, or is in the buffer.
<1>12. ASSUME known, NEW code \in Codes, conn[d].from < code, code <= hi, Short(code)
       PROVE  IF \E k \in Boundaries : code < k /\ k <= hi
              THEN code \in Reported(p) \union f ELSE code > kept
  <2>1. code \in Nat
    BY Places
  <2>2. CASE lo < code
    BY <1>2, <1>3, <1>5, <1>6, <1>10, <1>12, <2>2, ShortKept
  <2>3. CASE ~(lo < code)
    <3>1. conn[d].known /\ code <= ReadUpto(d)
      BY <1>1, <1>2, <1>3, <1>12, <2>1, <2>3 DEF Watched, Buffered
    <3>2. code \in Codes \intersect conn[d].from + 1..ReadUpto(d)
      BY <1>1, <1>2, <1>12, <2>1, <3>1
    <3>3. (\E k \in Boundaries : code < k /\ k <= ReadUpto(d)) /\ code \in Told(d)
      BY <1>1, <1>3, <1>12, <2>1, <2>3, <3>1, <3>2 DEF Watched, Complete
    <3>4. \E k \in Boundaries : code < k /\ k <= hi
      BY <1>2, <1>3, <3>3, Places
    <3> QED
      BY <1>10, <3>3, <3>4
  <2> QED
    BY <2>2, <2>3
<1>13. PICK c0 : c0 = [known |-> known, from |-> conn[d].from, chunk |-> 0, kept |-> kept]
  OBVIOUS
<1>14. /\ Read(d, c0, task[d].delay) /\ published' = [published EXCEPT ![d] = p]
       /\ failed' = [failed EXCEPT ![d] = f]
  <2>1. Read(d, c0, task[d].delay)
    BY <1>3, <1>4, <1>5, <1>13
  <2> QED
    BY <1>7, <1>6a, <2>1
<1>15. UNCHANGED <<desired, restarts, up, off>> /\ task[d].delay \in FirstDelay..MaxDelay
  BY <1>1 DEF Process, Watchers
<1>16. ASSUME NEW k \in 1..ChunkCap, sent[d] + k <= Len(Flow), sent' = [sent EXCEPT ![d] = @ + k],
              conn' = [conn EXCEPT ![d] = [c0 EXCEPT !.chunk = k]],
              GoTo(d, "got", task[d].delay)
       PROVE  StreamInv'
  <2>1. PICK c : c = [known |-> known, from |-> conn[d].from, chunk |-> k, kept |-> kept]
    OBVIOUS
  <2>2. k \in Nat /\ k > 0
    BY BufferAssumption
  <2>3. c \in Connections /\ hi + k \in 0..Len(Flow)
    BY <1>1, <1>3, <1>8, <1>16, <2>1, <2>2 DEF Connections
  <2>4. sent' = [sent EXCEPT ![d] = hi + k] /\ conn' = [conn EXCEPT ![d] = c]
    <3>1. [c0 EXCEPT !.chunk = k] = c
      BY <1>13, <2>1
    <3> QED
      BY <1>3, <1>16, <3>1
  <2>5. task' = [task EXCEPT ![d] = [pc |-> "got", cancelled |-> task[d].cancelled,
                                     delay |-> task[d].delay]]
    BY <1>16 DEF GoTo
  <2>6. ASSUME task'[d].pc = "got", conn'[d] = c, sent'[d] = hi + k, published'[d] = p,
               failed'[d] = f
        PROVE  Watched(d)'
    <3>1. ReadUpto(d)' = hi
      BY <1>3, <2>1, <2>2, <2>6 DEF ReadUpto
    <3>2. Buffered(d)'
      <4>1. ~known => kept = conn[d].from
        BY <1>1, <1>2, <1>3, <1>4, <1>5 DEF Watched, Buffered
      <4> QED
        BY <1>1, <1>2, <1>3, <1>8, <2>1, <2>6, <3>1, <4>1 DEF Buffered
    <3>3. Behind(d)'
      <4>1. \A m \in Reported(p) : m \in Nat
        <5>1. Reported(p) \subseteq Codes
          BY <1>10, ReportedTyped
        <5> QED
          BY <5>1, Places
      <4> QED
        BY <1>11, <2>1, <2>2, <2>6, <4>1 DEF Behind
    <3>4. Complete(d)'
      <4>1. ASSUME known, NEW code \in Codes \intersect conn[d].from + 1..hi, Short(code)
            PROVE  IF \E j \in Boundaries : code < j /\ j <= hi
                   THEN code \in Reported(p) \union f ELSE code > kept
        BY <1>1, <1>12, <4>1
      <4> QED
        BY <2>1, <2>6, <3>1, <4>1 DEF Complete, Told
    <3> QED
      BY <1>10, <2>6, <3>2, <3>3, <3>4 DEF Watched
  <2> QED
    BY <1>10, <1>14, <1>15, <2>3, <2>4, <2>5, <2>6, OneWatcher
<1>17. ASSUME conn' = [conn EXCEPT ![d] = NoConn], UNCHANGED sent,
              GoTo(d, "wait", task[d].delay)
       PROVE  StreamInv'
  <2>1. sent' = [sent EXCEPT ![d] = hi] /\ hi \in 0..Len(Flow)
    BY <1>1, <1>3, <1>17 DEF Typed
  <2>2. task' = [task EXCEPT ![d] = [pc |-> "wait", cancelled |-> task[d].cancelled,
                                     delay |-> task[d].delay]]
    BY <1>17 DEF GoTo
  <2>3. ASSUME task'[d].pc = "wait", conn'[d] = NoConn, sent'[d] = hi, published'[d] = p
        PROVE  Watched(d)'
    <3>1. Buffered(d)' /\ Behind(d)'
      BY <1>11, <2>3 DEF Buffered, Behind
    <3>2. Complete(d)'
      BY <2>3 DEF Complete, NoConn
    <3> QED
      BY <1>10, <2>3, <3>1, <3>2 DEF Watched
  <2> QED
    BY <1>10, <1>14, <1>15, <1>17, <2>1, <2>2, <2>3, NoConnTyped, OneWatcher
<1> QED
  BY <1>14, <1>16, <1>17 DEF Read

----------------------------------------------------------------------------
(* The steps of the service *)

\* The refresh loop starts and cancels, but touches no connection.
LEMMA RefreshKeeps ==
  ASSUME StreamInv, Refresh
  PROVE  StreamInv'
<1>1. \A d \in Device : task[d] \in Watchers /\ Typed /\ Watched(d)
  BY OfDevice
<1>2. NewTask \in Watchers /\ NewTask.pc = "new"
  BY DelayAssumption DEF NewTask, Watchers
<1>3. /\ UNCHANGED <<desired, conn, sent, published, failed, restarts, up>>
      /\ off' = off \cup {d \in Device \ desired : Live(d)}
  BY DEF Refresh
<1>4. ASSUME NEW d \in Device
      PROVE  /\ task'[d] \in Watchers
             /\ task'[d].pc = task[d].pc \/ (task[d].pc = "none" /\ task'[d].pc = "new")
  <2>1. [task[d] EXCEPT !.cancelled = TRUE] \in Watchers
        /\ [task[d] EXCEPT !.cancelled = TRUE].pc = task[d].pc
    BY <1>1 DEF Watchers
  <2>2. task'[d] = IF d \notin desired /\ Live(d) THEN [task[d] EXCEPT !.cancelled = TRUE]
                   ELSE IF d \in desired /\ task[d].pc = "none" THEN NewTask
                   ELSE task[d]
    BY DEF Refresh
  <2> QED
    BY <1>1, <1>2, <2>1, <2>2
<1>5. task' \in [Device -> Watchers]
  <2>1. \E f : task' = [d \in Device |-> f[d]]
    <3>1. task' = [d \in Device |-> task'[d]]
      BY DEF Refresh
    <3> QED
      BY <3>1
  <2> QED
    BY <1>4, <2>1
<1>6. TypeOK'
  BY <1>3, <1>5 DEF StreamInv, TypeOK, Watchers
<1>7. ASSUME NEW d \in Device
      PROVE  Watched(d)'
  <2>1. CASE task'[d].pc = task[d].pc
    BY <1>1, <1>3, <2>1, Untouched
  <2>2. CASE task[d].pc = "none" /\ task'[d].pc = "new"
    <3>1. conn'[d] = NoConn
      BY <1>1, <1>3, <2>2 DEF Watched, Buffered
    <3> QED
      BY <1>1, <1>3, <2>2, <3>1, Unconnected
  <2> QED
    BY <1>4, <2>1, <2>2
<1> QED
  BY <1>3, <1>6, <1>7 DEF StreamInv

\* The process ends, and every connection with it.
LEMMA RefreshFailsKeeps ==
  ASSUME StreamInv, RefreshFails
  PROVE  StreamInv'
<1>1. /\ UNCHANGED <<desired, sent, published, failed, restarts>> /\ up' = FALSE /\ off' = {}
      /\ task' = [d \in Device |-> NoTask] /\ conn' = [d \in Device |-> NoConn]
  BY DEF RefreshFails
<1>2. NoTask \in Watchers /\ NoTask.pc = "none"
  BY DelayAssumption DEF NoTask, Watchers
<1>3. task' \in [Device -> Watchers] /\ conn' \in [Device -> Connections]
  BY <1>1, <1>2, NoConnTyped
<1>4. TypeOK'
  BY <1>1, <1>3 DEF StreamInv, TypeOK, Watchers, Connections
<1>5. ASSUME NEW d \in Device
      PROVE  Watched(d)'
  <2>1. task'[d].pc # "got" /\ conn'[d] = NoConn
    BY <1>1, <1>2
  <2> QED
    BY <1>1, <2>1, Unconnected DEF StreamInv
<1> QED
  BY <1>1, <1>4, <1>5, RestartsAssumption DEF StreamInv, RefreshFails, TypeOK

\* Nothing is listened to, nothing has been published.
LEMMA StreamInit == Init => StreamInv
<1> SUFFICES ASSUME Init
             PROVE  StreamInv
  OBVIOUS
<1>1. NoTask \in Watchers /\ NoTask.pc = "none"
  BY DelayAssumption DEF NoTask, Watchers
<1>2. TypeOK
  BY <1>1, NoConnTyped, Places, RestartsAssumption
    DEF Init, TypeOK, Watchers, Connections
<1>3. Reported(<<>>) = {} /\ Ordered(<<>>)
  BY DEF Reported, Ordered
<1>4. ASSUME NEW d \in Device
      PROVE  Watched(d)
  <2>1. task[d].pc = "none" /\ conn[d] = NoConn /\ published[d] = <<>>
    BY <1>1 DEF Init
  <2>2. Buffered(d)
    BY <2>1 DEF Buffered
  <2>3. Behind(d)
    BY <1>3, <2>1 DEF Behind
  <2>4. Complete(d)
    BY <2>1 DEF Complete, NoConn
  <2> QED
    BY <1>3, <2>1, <2>2, <2>3, <2>4 DEF Watched
<1> QED
  BY <1>2, <1>4 DEF StreamInv, Init

\* Every step of the service and of its watchers keeps the invariant.
LEMMA StreamStep == StreamInv /\ [Next]_vars => StreamInv'
<1> SUFFICES ASSUME StreamInv, [Next]_vars
             PROVE  StreamInv'
  OBVIOUS
<1>1. ASSUME UNCHANGED <<task, conn, sent, published, failed>>, desired' \subseteq Device,
             restarts' \in 0..MaxRestarts, up' \in BOOLEAN, off' = off,
             ~up' => restarts' < MaxRestarts
      PROVE  StreamInv'
  <2>1. TypeOK'
    BY <1>1 DEF StreamInv, TypeOK
  <2>2. \A d \in Device : Watched(d)'
    BY <1>1, Untouched DEF StreamInv
  <2> QED
    BY <1>1, <2>1, <2>2 DEF StreamInv
<1>2. ASSUME NEW d \in Device, Edit(d)
      PROVE  StreamInv'
  BY <1>1, <1>2 DEF Edit, StreamInv, TypeOK
<1>3. CASE Restart
  <2>1. restarts' \in 0..MaxRestarts
    BY <1>3, RestartsAssumption DEF Restart, StreamInv, TypeOK
  <2> QED
    BY <1>1, <1>3, <2>1 DEF Restart, StreamInv, TypeOK
<1>4. CASE UNCHANGED vars
  BY <1>1, <1>4 DEF vars, StreamInv, TypeOK
<1>5. ASSUME NEW d \in Device, Watch(d)
      PROVE  StreamInv'
  BY <1>5, DetachKeeps, AttachKeeps, ProcessKeeps DEF Watch
<1> QED
  BY <1>2, <1>3, <1>4, <1>5, RefreshKeeps, RefreshFailsKeeps DEF Next

\* ... and so it always holds.
LEMMA StreamInvariant == Spec => []StreamInv
BY StreamInit, StreamStep, PTL DEF Spec

----------------------------------------------------------------------------
(* The theorems *)

\* Every variable keeps its type; a delay never passes its limit, and a buffer
\* never leaves the flow.
THEOREM StreamTyped == Spec => []TypeOK
<1>1. StreamInv => TypeOK
  BY DEF StreamInv
<1> QED
  BY <1>1, StreamInvariant, PTL

\* Whatever connections fail and however their chunks are cut, no event is
\* published twice, or after one the camera sent later.
THEOREM PublishesInOrder == Spec => []PublishedInOrder
<1>1. StreamInv => PublishedInOrder
  BY DEF StreamInv, Watched, Ordered, PublishedInOrder
<1> QED
  BY <1>1, StreamInvariant, PTL

\* And once a connection has announced its boundary, each of its events that
\* fits into the buffer is published as soon as it is closed, if Redis takes it.
THEOREM LosesNothing == Spec => []NothingLost
<1>1. ASSUME StreamInv
      PROVE  NothingLost
  <2> SUFFICES ASSUME NEW d \in Device, conn[d].known,
                      NEW code \in Codes \intersect conn[d].from + 1..ReadUpto(d), Short(code)
               PROVE  IF \E k \in Boundaries : code < k /\ k <= ReadUpto(d)
                      THEN \/ code \in failed[d]
                           \/ \E j \in 1..Len(published[d]) : code \in published[d][j]
                      ELSE code > conn[d].kept
    BY DEF NothingLost, ReadUpto
  <2>1. Complete(d)
    BY <1>1 DEF StreamInv, Watched
  <2> QED
    BY <2>1 DEF Complete, Told, Reported
<1> QED
  BY <1>1, StreamInvariant, PTL
=============================================================================
