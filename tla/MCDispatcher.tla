---------------------------- MODULE MCDispatcher ----------------------------
(***************************************************************************)
(* A small dispatcher for TLC: two approval ids; a safe action, two        *)
(* actions of one tool that need confirmation, one action of that tool     *)
(* that is blocked, and one that cannot be fingerprinted.                  *)
(***************************************************************************)
EXTENDS Dispatcher, TLC

CONSTANTS i1, i2, read, del, send, wipe, odd, alice, bob,
          fRead, fDel, fSend, fWipe, reader, writer

MCIds == {i1, i2}
MCActions == {read, del, send, wipe, odd}
MCPrincipals == {alice, bob}
MCApprovers == {alice}
MCFingerprint == read :> fRead @@ del :> fDel @@ send :> fSend @@ wipe :> fWipe
                 @@ odd :> NoFingerprint
MCTools == {reader, writer}
MCToolOf == [a \in MCActions |-> IF a = read THEN reader ELSE writer]
MCVerdict == read :> "safe" @@ del :> "needs_confirmation"
             @@ send :> "needs_confirmation" @@ wipe :> "blocked"
             @@ odd :> "needs_confirmation"

MCSymmetry == Permutations(MCIds)
=============================================================================
