------------------------------- MODULE Bridge -------------------------------
(***************************************************************************)
(* What ckDOGE promises, without the canister that keeps the promise: the  *)
(* deposits and the payouts as Dogecoin shows them, and the blocks of the  *)
(* token's ledger.                                                         *)
(*                                                                         *)
(*   coins    : outputs [owner, value] confirmed at the minter's addresses *)
(*   payouts  : transactions [ins, burn, change, back] of the minter; back *)
(*              says that the change has become a coin                     *)
(*   log      : the ledger's blocks [op, user, amount, utxo]               *)
(*   balances : user -> tokens                                             *)
(*                                                                         *)
(* Every coin is minted for at most once, by its owner and for its value;  *)
(* a burn is covered by the balance; a payout serves one burn that no      *)
(* other has served, from coins that no other has spent, and gives up no   *)
(* more than the burned amount and dust; its change comes back once.       *)
(***************************************************************************)
EXTENDS Integers, Sequences, FiniteSets, FiniteSetsExt, SequencesExt

CONSTANTS Users, Minter, Values, DustLimit, Fee

VARIABLES coins, payouts, log, balances

vars == <<coins, payouts, log, balances>>

BridgeAssumption ==
  /\ Minter \notin Users
  /\ Values \subseteq Nat \ {0}
  /\ DustLimit \in Nat /\ Fee \in Nat

SumOver(f, S) == MapThenSumSet(LAMBDA x : f[x], S)
CoinValue == [u \in DOMAIN coins |-> coins[u].value]
Amount    == [i \in DOMAIN log |-> log[i].amount]
Change    == [t \in DOMAIN payouts |-> payouts[t].change]

Blocks(op) == {i \in DOMAIN log : log[i].op = op}
Value(S)   == SumOver(CoinValue, S)
Unspent    == {u \in DOMAIN coins : \A t \in DOMAIN payouts : u \notin payouts[t].ins}
Above(a, b) == IF a > b THEN a - b ELSE 0

-----------------------------------------------------------------------------

Init == coins = << >> /\ payouts = << >> /\ log = << >>
          /\ balances = [p \in Users |-> 0]

Deposit(p, v) ==
  /\ coins' = Append(coins, [owner |-> p, value |-> v])
  /\ UNCHANGED <<payouts, log, balances>>

Mint(u) ==   \* for the owner of a coin that has not been minted for
  /\ coins[u].owner \in Users
  /\ \A i \in Blocks("mint") : log[i].utxo # u
  /\ log' = Append(log, [op |-> "mint", user |-> coins[u].owner,
                         amount |-> coins[u].value, utxo |-> u])
  /\ balances' = [balances EXCEPT ![coins[u].owner] = @ + coins[u].value]
  /\ UNCHANGED <<coins, payouts>>

Burn(p, amount) ==
  /\ log' = Append(log, [op |-> "burn", user |-> p, amount |-> amount, utxo |-> 0])
  /\ balances' = [balances EXCEPT ![p] = @ - amount]
  /\ UNCHANGED <<coins, payouts>>

\* What a payout of S for a burned amount returns to the minter.
ChangeOf(S, amount) ==
  LET rest == Above(Value(S), amount) IN IF rest <= DustLimit THEN 0 ELSE rest

Pay(i, S) ==   \* serve burn i from the coins S
  /\ \A t \in DOMAIN payouts : payouts[t].burn # i
  /\ Above(log[i].amount, Fee) + ChangeOf(S, log[i].amount) <= Value(S)
  /\ payouts' = Append(payouts, [ins |-> S, burn |-> i, back |-> FALSE,
                                 change |-> ChangeOf(S, log[i].amount)])
  /\ UNCHANGED <<coins, log, balances>>

\* The change of the payouts R comes back, one coin for each, in some order.
Returns(R) ==
  /\ \A t \in R : ~payouts[t].back
  /\ payouts' = [t \in DOMAIN payouts |->
       IF t \in R THEN [payouts[t] EXCEPT !.back = TRUE] ELSE payouts[t]]
  /\ \E order \in SetToSeqs({t \in R : payouts[t].change > 0}) :
       coins' = coins \o [i \in DOMAIN order |->
                            [owner |-> Minter, value |-> payouts[order[i]].change]]
  /\ UNCHANGED <<log, balances>>

Next ==
  \/ \E R \in SUBSET DOMAIN payouts : Returns(R)
  \/ \E p \in Users, v \in Values : Deposit(p, v)
  \/ \E u \in DOMAIN coins : Mint(u)
  \/ \E p \in Users : \E amount \in 1..balances[p] : Burn(p, amount)
  \/ \E i \in Blocks("burn"), S \in SUBSET Unspent : Pay(i, S)

Spec == Init /\ [][Next]_vars

-----------------------------------------------------------------------------

\* The supply is covered by the coins that are not spent and the change that
\* is on its way, but for the dust that each payout may leave to the miners.
Issued    == SumOver(Amount, Blocks("mint"))
Destroyed == SumOver(Amount, Blocks("burn"))
Returning == {t \in DOMAIN payouts : ~payouts[t].back}
InHand    == Value(Unspent) + SumOver(Change, Returning)
Backed    == Issued - Destroyed <= InHand + DustLimit * Len(payouts)
=============================================================================
