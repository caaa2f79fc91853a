---- MODULE MCOrderExecution ----
(***************************************************************************)
(* Instances of OrderExecution: two requests for one intent, and three     *)
(* requests for one key of which two have the same intent.                 *)
(***************************************************************************)
EXTENDS OrderExecution, TLC

CONSTANTS r1, r2, r3, a, b, f1, f2, f3, p1, btc

MCKeys == {btc}
TwoReqs == {r1, r2}
ThreeReqs == {r1, r2, r3}
SameIntent == [r \in TwoReqs |-> a]
TwoIntents == [r \in ThreeReqs |-> IF r = r3 THEN b ELSE a]
Fresh2 == [r \in TwoReqs |-> IF r = r1 THEN f1 ELSE f2]
Fresh3 == [r \in ThreeReqs |-> CASE r = r1 -> f1 [] r = r2 -> f2 [] r = r3 -> f3]
OneKey2 == [r \in TwoReqs |-> btc]
OneKey3 == [r \in ThreeReqs |-> btc]
====
