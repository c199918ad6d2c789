---------------------------- MODULE MCNodeStatus ----------------------------
EXTENDS NodeStatus
MCTroubles == {{}, {"fps_low", "pipeline_stalled"}}
=============================================================================
