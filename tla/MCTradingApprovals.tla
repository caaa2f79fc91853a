-------------------------- MODULE MCTradingApprovals --------------------------
(***************************************************************************)
(* An instance of TradingApprovals: two requests of one user in one room,  *)
(* one of another user there.                                              *)
(***************************************************************************)
EXTENDS TradingApprovals, TLC

CONSTANTS r1, r2, r3, ann, bob, room, k1, k2

ThreeReqs == {r1, r2, r3}
OneRoom == [r \in ThreeReqs |-> room]
TwoUsers == [r \in ThreeReqs |-> IF r = r3 THEN bob ELSE ann]
Asked == [r \in ThreeReqs |-> IF r = r1 THEN "none" ELSE IF r = r2 THEN "live" ELSE "shadow"]
Papers == [u \in {ann, bob} |-> "paper"]
=============================================================================
