-------------------------- MODULE MCMemoryPipeline --------------------------
(* Model-checking instance of MemoryPipeline. *)
EXTENDS MemoryPipeline

AllKinds == [eligible : BOOLEAN, tracking : {TRUE}]
=============================================================================
