------------------------- MODULE MCEngineImplements -------------------------
(* Instances of EngineImplements for TLC, those of Engine. *)
EXTENDS EngineImplements, MCEngine
=============================================================================
