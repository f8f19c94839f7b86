----------------------------- MODULE MCPipeline -----------------------------
(* A small instance of the pipeline: two workers, a channel of one slot,   *)
(* three blocks in flight and four in memory at most, one reorganisation.  *)
EXTENDS Pipeline

MCLimits == Backpressure(3, 4)
MCNoBypass == <<>>
MCBypass == Bypass(<<>>, 1, 1)
=============================================================================
