----------------------------- MODULE MCPipelineRun -----------------------------
\* Values for TLC: two runs, of a step and of an index that names none.
EXTENDS PipelineRun

MCEmitters == {1, 2, 3}
MCRequests == {<<0, 7>>}
=============================================================================
