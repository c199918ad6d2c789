------------------------- MODULE IncidentLifecycle -------------------------
(***************************************************************************)
(* What the incident subsystem promises of each incident: it is opened     *)
(* once, at level 1; it only climbs; it is closed once, by whoever comes   *)
(* first, and never opens again.                                           *)
(***************************************************************************)
EXTENDS Integers

CONSTANTS Incident, MaxLevel

VARIABLES state, level

lifecycleVars == <<state, level>>

LifecycleInit ==
  /\ state = [i \in Incident |-> "none"]
  /\ level = [i \in Incident |-> 1]

Open(i) ==
  /\ state[i] = "none"
  /\ state' = [state EXCEPT ![i] = "open"]
  /\ UNCHANGED level

Climb(i) ==
  /\ state[i] # "none"
  /\ \E l \in (level[i] + 1)..MaxLevel : level' = [level EXCEPT ![i] = l]
  /\ UNCHANGED state

Close(i) ==
  /\ state[i] = "open"
  /\ state' = [state EXCEPT ![i] = "closed"]
  /\ UNCHANGED level

LifecycleNext == \E i \in Incident : Open(i) \/ Climb(i) \/ Close(i)

LifecycleSpec ==
  /\ LifecycleInit /\ [][LifecycleNext]_lifecycleVars
  /\ \A i \in Incident : WF_lifecycleVars(Close(i))
=============================================================================
