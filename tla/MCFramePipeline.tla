--------------------------- MODULE MCFramePipeline ---------------------------
(* FramePipeline for TLC: MCPipeline.cfg gives the constants.                *)
EXTENDS FramePipeline
==============================================================================
