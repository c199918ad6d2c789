---------------------------- MODULE MCIncidents ----------------------------
(***************************************************************************)
(* Instances of Incidents for TLC: the timeouts and the ladders of each    *)
(* run.                                                                    *)
(***************************************************************************)
EXTENDS Incidents, TLC

\* Each level lasts one unit of time.
UnitTimeout == [l \in Level |-> 1]

\* The whole ladder.
FullLadder == {Level}

\* Ladders with a gap at the first level, and a site without levels.
AnyLadder == {{}, {2}, {1, 3}, Level}

\* A ladder that starts at its second level, and one that does not.
SkippedLadder == {{2}, Level}

\* The two passes of a safety run are interchangeable.
WorkerSymmetry == Permutations(Worker)
=============================================================================
