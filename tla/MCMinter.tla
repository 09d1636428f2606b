------------------------------ MODULE MCMinter ------------------------------
(* Instances of CkDogeMinter for TLC. *)
EXTENDS MinterBridge

CONSTANTS alice, bob, minter, m1, m2, b1, b2, f1, f2, k1

\* Two principals, one slot of each kind for each of them.
OwnSlots == [c \in MintCalls \cup BurnCalls |->
               IF c \in {m2, b2} THEN bob ELSE alice]
\* One principal that opens every call.
SharedSlots == [c \in MintCalls \cup BurnCalls |-> alice]
=============================================================================
