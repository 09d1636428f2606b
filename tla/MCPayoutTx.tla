------------------------------ MODULE MCPayoutTx ------------------------------
(* Instances of PayoutTx for TLC. *)
EXTENDS PayoutTx

CONSTANTS alice, bob, minter, receiver, none, u1, u2, u3

\* Two owners and the minter itself; u2 alone pays a burn to the dust.
SomeValues == u1 :> 9000000 @@ u2 :> 11500000 @@ u3 :> 4000000
SomeOwners == u1 :> alice @@ u2 :> bob @@ u3 :> minter
=============================================================================
