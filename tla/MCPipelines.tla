----------------------------- MODULE MCPipelines -----------------------------
(* Two devices, the second a file, two pipelines, two overlapping runs.     *)
EXTENDS Pipelines
CONSTANTS d1, d2, main, face, r1, r2
MCOrder == <<d1, d2>>
MCPipes == <<main, face>>
MCRun   == {r1, r2}
Runs    == Permutations(MCRun)
=============================================================================
