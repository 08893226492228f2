---------------------------- MODULE MCWebClient ----------------------------
(***************************************************************************)
(* One operator with two approvals to decide on and three tasks to submit, *)
(* four sockets and two failed handshakes in a row, three frames on the    *)
(* way in each direction.                                                  *)
(***************************************************************************)
EXTENDS WebClient, TLC

CONSTANTS a1, a2

MCApprovals == {a1, a2}
=============================================================================
