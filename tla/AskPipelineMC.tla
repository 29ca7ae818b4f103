--------------------------- MODULE AskPipelineMC ----------------------------
(* Instances of AskPipeline for TLC. *)
EXTENDS AskPipeline
=============================================================================
