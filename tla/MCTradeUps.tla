----------------------------- MODULE MCTradeUps -----------------------------
(* TradeUps for TLC: an account with two items and one with one, and trade- *)
(* ups of a single item.                                                    *)
EXTENDS TradeUps

CONSTANTS a, b, i, j, k

MCBelongings == [acct \in {a, b} |-> IF acct = a THEN {i, j} ELSE {k}]

MCSelections == {{i}, {j}, {k}}
=============================================================================
