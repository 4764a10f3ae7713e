---------------------------- MODULE MCBtPolicy ----------------------------
(* BtPolicy on one to three phones, for TLC.                               *)
EXTENDS BtPolicy, TLC

Phones == Permutations(Addrs)

\* What the phones are bonded for.
AllCalls == [a \in Addrs |-> {"HFP"}]
AllMusic == [a \in Addrs |-> {"A2DP"}]
===========================================================================
