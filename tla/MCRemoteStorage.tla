-------------------------- MODULE MCRemoteStorage --------------------------
(***************************************************************************)
(* Two tool calls on one writable connector; at most three connections and *)
(* two drops of the network.                                               *)
(***************************************************************************)
EXTENDS RemoteStorage, TLC

CONSTANTS c1, c2

MCCalls == {c1, c2}
=============================================================================
