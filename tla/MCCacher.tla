------------------------------ MODULE MCCacher ------------------------------
(* Small instances of Cacher for TLC. *)
EXTENDS Cacher

MCFallbacks == <<1>>
MCPrevious  == {1}
=============================================================================
