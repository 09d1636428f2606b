---------------------------- MODULE MinterBridge ----------------------------
(***************************************************************************)
(* CkDogeMinter as an implementation of Bridge: a payout's change is back  *)
(* when its block is confirmed; heights, the tip, the canister's stores    *)
(* and the open calls are hidden.                                          *)
(***************************************************************************)
EXTENDS CkDogeMinter

Settled(t) == network[t].height \in 1..ConfirmedHeight
BridgePayouts ==
  [t \in DOMAIN network |->
     [ins |-> network[t].ins, burn |-> network[t].block + 1,
      change |-> network[t].change, back |-> Settled(t)]]

B == INSTANCE Bridge WITH coins <- utxos, payouts <- BridgePayouts

\* README.md:29, :46-48: whatever fails and however calls interleave, deposits,
\* mints, burns and payouts happen as Bridge says, as long as a principal has
\* one mint_ckdoge open at a time.
ImplementsBridge == B!Spec
=============================================================================
