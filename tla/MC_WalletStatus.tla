---------------------------- MODULE MC_WalletStatus ----------------------------
(* WalletStatus with one valid address, one invalid, and recipient lists  *)
(* that reach every return of sendCoins's checks.                          *)
EXTENDS WalletStatus, TLC

CONSTANTS d1, bad

MCDests == {d1}

MCSendLists ==
    { <<[address |-> d1, amount |-> 1]>>,
      <<[address |-> bad, amount |-> 1]>>,
      <<[address |-> d1, amount |-> 1], [address |-> d1, amount |-> 1]>> }
=============================================================================
