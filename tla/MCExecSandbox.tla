--------------------------- MODULE MCExecSandbox ---------------------------
(***************************************************************************)
(* A small sandbox for TLC: two tool calls in flight, two server processes *)
(* one after the other.                                                    *)
(***************************************************************************)
EXTENDS ExecSandbox, TLC

CONSTANTS c1, c2

MCCalls == {c1, c2}
=============================================================================
