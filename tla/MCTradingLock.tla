---- MODULE MCTradingLock ----
(***************************************************************************)
(* Instances of TradingLock: calls on one key, of which some outstay the   *)
(* TTL, and beside them three prompt calls on another key.                 *)
(***************************************************************************)
EXTENDS TradingLock

CONSTANTS c1, c2, c3, d1, d2, d3, btc, eth

BtcCalls == {c1, c2, c3}
AllCalls == BtcCalls \union {d1, d2, d3}
MCKeys == {btc, eth}
KeyOfAll == [c \in AllCalls |-> IF c \in BtcCalls THEN btc ELSE eth]
====
