--------------------------- MODULE MCAgentSession ---------------------------
(***************************************************************************)
(* Small instances of AgentSession for TLC: one safe action, one that      *)
(* needs confirmation, one that is blocked; one or two principals may      *)
(* approve.                                                                *)
(***************************************************************************)
EXTENDS AgentSession, TLC

CONSTANTS i1, i2, i3, s1, s2, read, del, wipe, alice, bob, fRead, fDel, fWipe,
          worker

TwoIds == {i1, i2}
ThreeIds == {i1, i2, i3}
OneSession == {s1}
TwoSessions == {s1, s2}

AllActions == {read, del, wipe}
ConfirmOnly == {del}

MCPrincipals == {alice, bob}
AliceApproves == {alice}
BothApprove == {alice, bob}
MCPrincipalOf == [s \in Sessions |-> IF s = s1 THEN alice ELSE bob]

MCFingerprint == [a \in Actions |-> CASE a = read -> fRead
                                      [] a = del -> fDel
                                      [] a = wipe -> fWipe]
MCTools == {worker}
MCToolOf == [a \in Actions |-> worker]
MCVerdict == [a \in Actions |-> CASE a = read -> "safe"
                                  [] a = del -> "needs_confirmation"
                                  [] a = wipe -> "blocked"]

SymmetricTwoIds == Permutations(TwoIds)
SymmetricThreeIds == Permutations(ThreeIds)
=============================================================================
