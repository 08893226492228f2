------------------------- MODULE MCEngineController -------------------------
(***************************************************************************)
(* A small engine for TLC: three calls in flight, two files, two process   *)
(* identities, and a readiness loop of at most two polls.                  *)
(***************************************************************************)
EXTENDS EngineController, TLC

CONSTANTS c1, c2, c3, gemma, qwen, p1, p2

MCCalls == {c1, c2, c3}
MCFiles == {gemma, qwen}
MCPids == {p1, p2}
=============================================================================
