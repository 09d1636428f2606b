---------------------------- MODULE BridgeSafety ----------------------------
(***************************************************************************)
(* Backed is an invariant of Bridge, for every value of its constants: the *)
(* supply is covered but for dust.                                         *)
(***************************************************************************)
EXTENDS Bridge, Sums, SequenceTheorems

\* The shape of the state, with what a mint and a payout refer to.
CoinSet == [owner : Users \cup {Minter}, value : Nat]
PaySet  == [ins : SUBSET DOMAIN coins, burn : Nat, change : Nat, back : BOOLEAN]
LogSet  == [op : {"mint", "burn"}, user : Users, amount : Nat, utxo : Nat]
CoinTypes ==
  /\ coins \in Seq(CoinSet)
  /\ payouts \in Seq(PaySet)
  /\ log \in Seq(LogSet)
  /\ balances \in [Users -> Nat]

\* A mint is for a coin of a user, at its value, and for no other's coin.
UserCoins == {u \in DOMAIN coins : coins[u].owner \in Users}
MintsExact ==
  /\ \A i \in Blocks("mint") : /\ log[i].utxo \in UserCoins
                               /\ log[i].amount = coins[log[i].utxo].value
  /\ \A i, j \in Blocks("mint") : log[i].utxo = log[j].utxo => i = j

\* A payout is for a burn, and for no other's.
PaysBurns ==
  /\ \A t \in DOMAIN payouts : payouts[t].burn \in Blocks("burn")
  /\ \A s, t \in DOMAIN payouts : payouts[s].burn = payouts[t].burn => s = t

\* What the users have brought is still there, or was paid out for a burn, or
\* was left as dust.
PaidFor == [t \in DOMAIN payouts |-> log[payouts[t].burn].amount]
Covered ==
  Sum(CoinValue, UserCoins) <=
    Sum(CoinValue, Unspent) + Sum(Change, Returning)
      + DustLimit * Len(payouts) + Sum(PaidFor, DOMAIN payouts)

BackedInv == CoinTypes /\ MintsExact /\ PaysBurns /\ Covered

-----------------------------------------------------------------------------
(* Facts about the sums of a state *)

LEMMA SumOverIsSum == ASSUME NEW f, NEW S PROVE SumOver(f, S) = Sum(f, S)
  BY DEF SumOver, Sum, MapThenSumSet, MapThenFoldSet

LEMMA Lengths ==
  ASSUME CoinTypes
  PROVE  /\ Len(coins) \in Nat /\ DOMAIN coins = 1..Len(coins)
         /\ Len(payouts) \in Nat /\ DOMAIN payouts = 1..Len(payouts)
         /\ Len(log) \in Nat /\ DOMAIN log = 1..Len(log)
         /\ IsFiniteSet(DOMAIN coins) /\ IsFiniteSet(DOMAIN payouts)
         /\ IsFiniteSet(DOMAIN log)
<1>1. /\ Len(coins) \in Nat /\ DOMAIN coins = 1..Len(coins)
      /\ Len(payouts) \in Nat /\ DOMAIN payouts = 1..Len(payouts)
      /\ Len(log) \in Nat /\ DOMAIN log = 1..Len(log)
  BY DEF CoinTypes
<1> QED BY <1>1, FS_Interval

LEMMA Elements ==
  ASSUME CoinTypes
  PROVE  /\ \A u \in DOMAIN coins : /\ CoinValue[u] = coins[u].value /\ CoinValue[u] \in Nat
                                    /\ coins[u].owner \in Users \cup {Minter}
         /\ \A i \in DOMAIN log : Amount[i] = log[i].amount /\ Amount[i] \in Nat
         /\ \A t \in DOMAIN payouts : /\ Change[t] = payouts[t].change /\ Change[t] \in Nat
                                      /\ payouts[t].ins \subseteq DOMAIN coins
                                      /\ payouts[t].back \in BOOLEAN
<1>1. \A u \in DOMAIN coins : coins[u] \in CoinSet
  BY DEF CoinTypes
<1>2. \A i \in DOMAIN log : log[i] \in LogSet
  BY DEF CoinTypes
<1>3. \A t \in DOMAIN payouts : payouts[t] \in PaySet
  BY DEF CoinTypes
<1> QED BY <1>1, <1>2, <1>3 DEF CoinValue, Amount, Change, CoinSet, LogSet, PaySet

LEMMA Parts ==
  ASSUME CoinTypes
  PROVE  /\ Unspent \subseteq DOMAIN coins /\ UserCoins \subseteq DOMAIN coins
         /\ Returning \subseteq DOMAIN payouts
         /\ \A op : Blocks(op) \subseteq DOMAIN log
         /\ IsFiniteSet(Unspent) /\ IsFiniteSet(UserCoins) /\ IsFiniteSet(Returning)
         /\ \A op : IsFiniteSet(Blocks(op))
<1>1. /\ Unspent \subseteq DOMAIN coins /\ UserCoins \subseteq DOMAIN coins
      /\ Returning \subseteq DOMAIN payouts
      /\ \A op : Blocks(op) \subseteq DOMAIN log
  BY DEF Unspent, UserCoins, Returning, Blocks
<1> QED BY <1>1, Lengths, FS_Subset

LEMMA PaidNat ==
  ASSUME CoinTypes, PaysBurns
  PROVE  \A t \in DOMAIN payouts : /\ PaidFor[t] = Amount[payouts[t].burn]
                                   /\ PaidFor[t] \in Nat
                                   /\ payouts[t].burn \in DOMAIN log
<1>1. \A t \in DOMAIN payouts : payouts[t].burn \in DOMAIN log
  BY DEF PaysBurns, Blocks
<1> QED BY <1>1, Elements DEF PaidFor

-----------------------------------------------------------------------------
(* BackedInv implies Backed *)

\* The mints add up to no more than the users' coins.
LEMMA IssuedBound ==
  ASSUME BackedInv PROVE Sum(Amount, Blocks("mint")) <= Sum(CoinValue, UserCoins)
<1> DEFINE M == Blocks("mint")
           r == [i \in M |-> log[i].utxo]
           Im == {r[i] : i \in M}
           h == [i \in M |-> CoinValue[r[i]]]
<1>1. IsFiniteSet(M) /\ M \subseteq DOMAIN log
  BY Parts DEF BackedInv
<1>2. /\ \A i \in M : r[i] \in UserCoins /\ CoinValue[r[i]] \in Nat
                      /\ CoinValue[r[i]] = Amount[i]
      /\ \A i, j \in M : r[i] = r[j] => i = j
  BY <1>1, Elements, Parts DEF BackedInv, MintsExact
<1>3. Sum(Amount, M) = Sum(h, M)
  <2>1. \A i \in M : Amount[i] = h[i]
    BY <1>2
  <2> HIDE DEF M, h
  <2> QED BY <2>1, SumSame
<1>4. Sum(CoinValue, Im) = Sum(h, M)
  <2> HIDE DEF M, r
  <2> QED BY <1>1, <1>2, SumRenamed
<1>5. Im \in SUBSET UserCoins /\ IsFiniteSet(UserCoins)
      /\ \A u \in UserCoins : CoinValue[u] \in Nat
  BY <1>2, Parts, Elements DEF BackedInv
<1>6. Sum(CoinValue, Im) <= Sum(CoinValue, UserCoins)
  <2> HIDE DEF Im
  <2> QED BY <1>5, SumSubset
<1> QED BY <1>3, <1>4, <1>6

\* The burns add up to no less than what was paid for.
LEMMA DestroyedBound ==
  ASSUME BackedInv
  PROVE  /\ Sum(PaidFor, DOMAIN payouts) <= Sum(Amount, Blocks("burn"))
         /\ Sum(PaidFor, DOMAIN payouts) \in Nat
<1> DEFINE D == DOMAIN payouts
           r == [t \in D |-> payouts[t].burn]
           Im == {r[t] : t \in D}
           h == [t \in D |-> Amount[r[t]]]
<1>1. IsFiniteSet(D) /\ \A t \in D : PaidFor[t] \in Nat
  BY Lengths, PaidNat DEF BackedInv
<1>2. /\ \A t \in D : r[t] \in Blocks("burn") /\ Amount[r[t]] \in Nat
                      /\ Amount[r[t]] = PaidFor[t]
      /\ \A s, t \in D : r[s] = r[t] => s = t
  BY PaidNat DEF BackedInv, PaysBurns
<1>3. Sum(PaidFor, D) = Sum(h, D)
  <2>1. \A t \in D : PaidFor[t] = h[t]
    BY <1>2
  <2> HIDE DEF D, h
  <2> QED BY <2>1, SumSame
<1>4. Sum(Amount, Im) = Sum(h, D)
  <2> HIDE DEF D, r
  <2> QED BY <1>1, <1>2, SumRenamed
<1>5. Im \in SUBSET Blocks("burn") /\ IsFiniteSet(Blocks("burn"))
      /\ \A i \in Blocks("burn") : Amount[i] \in Nat
  BY <1>2, Parts, Elements DEF BackedInv
<1>6. Sum(Amount, Im) <= Sum(Amount, Blocks("burn"))
  <2> HIDE DEF Im
  <2> QED BY <1>5, SumSubset
<1>7. Sum(PaidFor, D) \in Nat
  <2> HIDE DEF D
  <2> QED BY <1>1, SumInNat
<1> QED BY <1>3, <1>4, <1>6, <1>7

LEMMA InvBacked == ASSUME BridgeAssumption, BackedInv PROVE Backed
<1>1. /\ Issued = Sum(Amount, Blocks("mint")) /\ Destroyed = Sum(Amount, Blocks("burn"))
      /\ InHand = Sum(CoinValue, Unspent) + Sum(Change, Returning)
  BY SumOverIsSum DEF Issued, Destroyed, InHand, Value
<1>2. /\ Sum(Amount, Blocks("mint")) \in Nat /\ Sum(Amount, Blocks("burn")) \in Nat
      /\ Sum(CoinValue, Unspent) \in Nat /\ Sum(Change, Returning) \in Nat
      /\ Sum(CoinValue, UserCoins) \in Nat
  BY Parts, Elements, SumInNat DEF BackedInv
<1>3. DustLimit * Len(payouts) \in Nat
  BY Lengths DEF BackedInv, BridgeAssumption
<1>4. Sum(CoinValue, UserCoins) <=
        Sum(CoinValue, Unspent) + Sum(Change, Returning)
          + DustLimit * Len(payouts) + Sum(PaidFor, DOMAIN payouts)
  BY DEF BackedInv, Covered
<1> QED BY <1>1, <1>2, <1>3, <1>4, IssuedBound, DestroyedBound DEF Backed

-----------------------------------------------------------------------------
(* Every step keeps BackedInv *)

LEMMA DepositKeeps ==
  ASSUME BridgeAssumption, BackedInv, NEW p \in Users, NEW v \in Values, Deposit(p, v)
  PROVE  BackedInv'
<1> DEFINE n == Len(coins) + 1
           c == [owner |-> p, value |-> v]
<1>0. /\ coins' = Append(coins, c) /\ UNCHANGED <<payouts, log, balances>>
      /\ c \in CoinSet /\ c.owner \in Users /\ c.value \in Nat
      /\ coins \in Seq(CoinSet)
  BY DEF Deposit, BridgeAssumption, CoinSet, BackedInv, CoinTypes
<1> HIDE DEF c
<1>1. /\ coins' \in Seq(CoinSet) /\ DOMAIN coins' = DOMAIN coins \cup {n}
      /\ n \notin DOMAIN coins /\ coins'[n] = c
      /\ \A u \in DOMAIN coins : coins'[u] = coins[u]
  BY <1>0, AppendProperties
<1> HIDE DEF n
<1>2. CoinTypes'
  <2>1. payouts \in Seq(PaySet) /\ PaySet \subseteq PaySet'
    BY <1>1 DEF BackedInv, CoinTypes, PaySet
  <2>2. payouts \in Seq(PaySet')
    BY <2>1
  <2>3. /\ log \in Seq(LogSet) /\ balances \in [Users -> Nat]
        /\ LogSet' = LogSet /\ CoinSet' = CoinSet
    BY DEF BackedInv, CoinTypes, LogSet, CoinSet
  <2> QED BY <1>0, <1>1, <2>2, <2>3 DEF CoinTypes
<1>3. /\ UserCoins' = UserCoins \cup {n} /\ n \notin UserCoins
      /\ Unspent' = Unspent \cup {n} /\ n \notin Unspent
  <2>1. \A t \in DOMAIN payouts : n \notin payouts[t].ins
    BY <1>1, Elements DEF BackedInv
  <2> QED BY <1>0, <1>1, <2>1 DEF UserCoins, Unspent
<1>4. /\ CoinValue'[n] = v /\ v \in Nat
      /\ \A u \in DOMAIN coins : CoinValue'[u] = CoinValue[u] /\ CoinValue[u] \in Nat
  BY <1>0, <1>1, Elements DEF CoinValue, c, BackedInv
<1>5. \A S \in SUBSET DOMAIN coins : IsFiniteSet(S) =>
        /\ Sum(CoinValue', S \cup {n}) = v + Sum(CoinValue, S)
        /\ Sum(CoinValue, S) \in Nat
  <2> TAKE S \in SUBSET DOMAIN coins
  <2> HAVE IsFiniteSet(S)
  <2>1. Sum(CoinValue', S) = Sum(CoinValue, S)
    BY <1>4, SumSame
  <2>2. n \notin S /\ \A y \in S \cup {n} : CoinValue'[y] \in Nat
    BY <1>1, <1>4
  <2>3. Sum(CoinValue', S \cup {n}) = CoinValue'[n] + Sum(CoinValue', S)
    BY <2>2, SumAdd
  <2>4. Sum(CoinValue, S) \in Nat
    BY <1>4, SumInNat
  <2> QED BY <1>4, <2>1, <2>3, <2>4
<1>6. /\ Change' = Change /\ Returning' = Returning /\ PaidFor' = PaidFor
      /\ Len(payouts') = Len(payouts) /\ DOMAIN payouts' = DOMAIN payouts
  BY <1>0 DEF Change, Returning, PaidFor
<1>7. Covered'
  <2>1. /\ Sum(CoinValue', UserCoins') = v + Sum(CoinValue, UserCoins)
        /\ Sum(CoinValue', Unspent') = v + Sum(CoinValue, Unspent)
        /\ Sum(CoinValue, UserCoins) \in Nat /\ Sum(CoinValue, Unspent) \in Nat
    BY <1>3, <1>5, Parts DEF BackedInv
  <2>2. /\ Sum(Change, Returning) \in Nat /\ DustLimit * Len(payouts) \in Nat
        /\ Sum(PaidFor, DOMAIN payouts) \in Nat
    BY Parts, Elements, Lengths, SumInNat, DestroyedBound DEF BackedInv, BridgeAssumption
  <2>3. Sum(CoinValue, UserCoins) <=
          Sum(CoinValue, Unspent) + Sum(Change, Returning)
            + DustLimit * Len(payouts) + Sum(PaidFor, DOMAIN payouts)
    BY DEF BackedInv, Covered
  <2> QED BY <1>4, <1>6, <2>1, <2>2, <2>3 DEF Covered
<1>8. MintsExact' /\ PaysBurns'
  <2>1. Blocks("mint")' = Blocks("mint") /\ Blocks("burn")' = Blocks("burn")
    BY <1>0 DEF Blocks
  <2>2. UserCoins \subseteq DOMAIN coins
    BY DEF UserCoins
  <2> QED BY <1>0, <1>1, <1>3, <2>1, <2>2 DEF BackedInv, MintsExact, PaysBurns
<1> QED BY <1>2, <1>7, <1>8 DEF BackedInv

\* The ledger's log grows by a block of either kind.
LEMMA LogGrows ==
  ASSUME BackedInv, NEW e \in LogSet, log' = Append(log, e),
         balances' \in [Users -> Nat], UNCHANGED <<coins, payouts>>
  PROVE  /\ CoinTypes' /\ PaysBurns' /\ Covered'
         /\ log'[Len(log) + 1] = e /\ UserCoins' = UserCoins
         /\ \A i \in DOMAIN log : log'[i] = log[i]
         /\ \A op : Blocks(op)' = Blocks(op) \cup
                      (IF e.op = op THEN {Len(log) + 1} ELSE {})
<1> DEFINE n == Len(log) + 1
<1>1. /\ log' \in Seq(LogSet) /\ DOMAIN log' = DOMAIN log \cup {n}
      /\ n \notin DOMAIN log /\ log'[n] = e
      /\ \A i \in DOMAIN log : log'[i] = log[i]
  <2>1. log \in Seq(LogSet)
    BY DEF BackedInv, CoinTypes
  <2> QED BY <2>1, AppendProperties
<1> HIDE DEF n
<1>2. CoinTypes'
  <2>1. LogSet' = LogSet /\ CoinSet' = CoinSet /\ PaySet' = PaySet
    BY DEF LogSet, CoinSet, PaySet
  <2> QED BY <1>1, <2>1 DEF BackedInv, CoinTypes
<1>3. \A op : Blocks(op)' = Blocks(op) \cup (IF e.op = op THEN {n} ELSE {})
  BY <1>1 DEF Blocks
<1>4. PaysBurns'
  <2>1. Blocks("burn") \subseteq Blocks("burn")'
    BY <1>3
  <2> QED BY <2>1 DEF BackedInv, PaysBurns
<1>5. /\ CoinValue' = CoinValue /\ UserCoins' = UserCoins /\ Unspent' = Unspent
      /\ Change' = Change /\ Returning' = Returning
  BY DEF CoinValue, UserCoins, Unspent, Change, Returning
<1>6. PaidFor' = PaidFor
  <2>1. \A t \in DOMAIN payouts : log'[payouts[t].burn] = log[payouts[t].burn]
    BY <1>1, PaidNat DEF BackedInv
  <2> QED BY <2>1 DEF PaidFor
<1>7. Covered'
  BY <1>5, <1>6 DEF BackedInv, Covered
<1> QED BY <1>1, <1>2, <1>3, <1>4, <1>5, <1>7 DEF n

LEMMA MintKeeps ==
  ASSUME BackedInv, NEW u \in DOMAIN coins, Mint(u) PROVE BackedInv'
<1> DEFINE e == [op |-> "mint", user |-> coins[u].owner,
                 amount |-> coins[u].value, utxo |-> u]
           n == Len(log) + 1
<1>1. /\ coins[u].owner \in Users /\ \A i \in Blocks("mint") : log[i].utxo # u
      /\ log' = Append(log, e) /\ UNCHANGED <<coins, payouts>>
      /\ balances' = [balances EXCEPT ![coins[u].owner] = @ + coins[u].value]
  BY DEF Mint
<1>2. u \in Nat /\ coins[u].value \in Nat
  BY Lengths, Elements DEF BackedInv
<1>3. /\ e \in LogSet /\ balances' \in [Users -> Nat]
      /\ e.op = "mint" /\ e.utxo = u /\ e.amount = coins[u].value
  BY <1>1, <1>2 DEF BackedInv, CoinTypes, LogSet
<1> HIDE DEF e
<1>4. /\ CoinTypes' /\ PaysBurns' /\ Covered'
      /\ log'[n] = e /\ UserCoins' = UserCoins
      /\ \A i \in DOMAIN log : log'[i] = log[i]
      /\ Blocks("mint")' = Blocks("mint") \cup {n}
  BY <1>1, <1>3, LogGrows
<1>5. u \in UserCoins /\ Blocks("mint") \subseteq DOMAIN log
  BY <1>1 DEF UserCoins, Blocks
<1> HIDE DEF n
<1>6. MintsExact'
  BY <1>1, <1>3, <1>4, <1>5 DEF BackedInv, MintsExact
<1> QED BY <1>4, <1>6 DEF BackedInv

LEMMA BurnKeeps ==
  ASSUME BackedInv, NEW p \in Users, NEW amount \in 1..balances[p], Burn(p, amount)
  PROVE  BackedInv'
<1> DEFINE e == [op |-> "burn", user |-> p, amount |-> amount, utxo |-> 0]
<1>1. /\ log' = Append(log, e) /\ UNCHANGED <<coins, payouts>>
      /\ balances' = [balances EXCEPT ![p] = @ - amount]
  BY DEF Burn
<1>2. balances[p] \in Nat /\ balances \in [Users -> Nat]
  BY DEF BackedInv, CoinTypes
<1>3. e \in LogSet /\ balances' \in [Users -> Nat] /\ e.op = "burn"
  BY <1>1, <1>2 DEF LogSet
<1> HIDE DEF e
<1>4. /\ CoinTypes' /\ PaysBurns' /\ Covered' /\ UserCoins' = UserCoins
      /\ \A i \in DOMAIN log : log'[i] = log[i]
      /\ Blocks("mint")' = Blocks("mint")
  <2>1. Blocks("mint")' = Blocks("mint") \cup (IF e.op = "mint" THEN {Len(log) + 1} ELSE {})
    BY <1>1, <1>3, LogGrows
  <2> QED BY <1>1, <1>3, <2>1, LogGrows
<1>5. Blocks("mint") \subseteq DOMAIN log
  BY DEF Blocks
<1>6. MintsExact'
  BY <1>1, <1>4, <1>5 DEF BackedInv, MintsExact
<1> QED BY <1>4, <1>6 DEF BackedInv

\* What a payout takes from the coins is its change, the burned amount, and
\* at most DustLimit.
LEMMA ChangeBound ==
  ASSUME BridgeAssumption, BackedInv, NEW S \in SUBSET Unspent, NEW amount \in Nat
  PROVE  /\ Value(S) = Sum(CoinValue, S) /\ Sum(CoinValue, S) \in Nat
         /\ ChangeOf(S, amount) \in Nat
         /\ Value(S) <= ChangeOf(S, amount) + amount + DustLimit
<1>1. Value(S) = Sum(CoinValue, S)
  BY SumOverIsSum DEF Value
<1>2. Sum(CoinValue, S) \in Nat
  <2>1. S \subseteq DOMAIN coins /\ IsFiniteSet(S)
    BY Parts, FS_Subset DEF BackedInv
  <2> QED BY <2>1, Elements, SumInNat DEF BackedInv
<1> QED BY <1>1, <1>2 DEF ChangeOf, Above, BridgeAssumption

LEMMA PayKeeps ==
  ASSUME BridgeAssumption, BackedInv, NEW i \in Blocks("burn"), NEW S \in SUBSET Unspent,
         Pay(i, S)
  PROVE  BackedInv'
<1> DEFINE n == Len(payouts) + 1
           change == ChangeOf(S, log[i].amount)
           pay == [ins |-> S, burn |-> i, back |-> FALSE, change |-> change]
<1>1. /\ payouts' = Append(payouts, pay) /\ UNCHANGED <<coins, log, balances>>
      /\ \A t \in DOMAIN payouts : payouts[t].burn # i
  BY DEF Pay
<1>2. /\ i \in DOMAIN log /\ i \in Nat /\ log[i].amount \in Nat
  <2>1. i \in DOMAIN log
    BY DEF Blocks
  <2> QED BY <2>1, Lengths, Elements DEF BackedInv
<1>3. /\ change \in Nat /\ Value(S) = Sum(CoinValue, S) /\ Sum(CoinValue, S) \in Nat
      /\ Value(S) <= change + log[i].amount + DustLimit
  BY <1>2, ChangeBound
<1> HIDE DEF change
<1>4. /\ pay \in PaySet /\ pay.ins = S /\ pay.burn = i /\ pay.back = FALSE
      /\ pay.change = change
  BY <1>2, <1>3, Parts DEF PaySet, BackedInv
<1> HIDE DEF pay
<1>5. /\ payouts' \in Seq(PaySet) /\ DOMAIN payouts' = DOMAIN payouts \cup {n}
      /\ n \notin DOMAIN payouts /\ payouts'[n] = pay
      /\ Len(payouts') = n /\ Len(payouts) \in Nat
      /\ \A t \in DOMAIN payouts : payouts'[t] = payouts[t]
  <2>1. payouts \in Seq(PaySet)
    BY DEF BackedInv, CoinTypes
  <2> QED BY <1>1, <1>4, <2>1, AppendProperties
<1>6. CoinTypes'
  <2>1. LogSet' = LogSet /\ CoinSet' = CoinSet /\ PaySet' = PaySet
    BY <1>1 DEF LogSet, CoinSet, PaySet
  <2> QED BY <1>1, <1>5, <2>1 DEF BackedInv, CoinTypes
<1>7. MintsExact' /\ PaysBurns'
  <2>1. /\ Blocks("mint")' = Blocks("mint") /\ Blocks("burn")' = Blocks("burn")
        /\ UserCoins' = UserCoins
    BY <1>1 DEF Blocks, UserCoins
  <2>2. MintsExact'
    BY <1>1, <2>1 DEF BackedInv, MintsExact
  <2>3. PaysBurns'
    BY <1>1, <1>4, <1>5, <2>1 DEF BackedInv, PaysBurns
  <2> QED BY <2>2, <2>3
<1>8. /\ Unspent' = Unspent \ S /\ Returning' = Returning \cup {n}
      /\ UserCoins' = UserCoins /\ CoinValue' = CoinValue /\ n \notin Returning
  BY <1>1, <1>4, <1>5 DEF Unspent, Returning, UserCoins, CoinValue
<1>9. /\ \A t \in DOMAIN payouts : Change'[t] = Change[t] /\ PaidFor'[t] = PaidFor[t]
      /\ Change'[n] = change /\ PaidFor'[n] = log[i].amount
  BY <1>1, <1>4, <1>5 DEF Change, PaidFor
<1>10. Sum(CoinValue, Unspent) = Sum(CoinValue, S) + Sum(CoinValue, Unspent')
  <2>1. IsFiniteSet(Unspent) /\ \A u \in Unspent : CoinValue[u] \in Nat
    BY Parts, Elements DEF BackedInv
  <2> QED BY <1>8, <2>1, SumSubset
<1>11. Sum(Change', Returning') = change + Sum(Change, Returning)
  <2>1. IsFiniteSet(Returning) /\ Returning \subseteq DOMAIN payouts
    BY Parts DEF BackedInv
  <2>2. \A y \in Returning \cup {n} : Change'[y] \in Nat
    BY <1>3, <1>9, <2>1, Elements DEF BackedInv
  <2>3. Sum(Change', Returning \cup {n}) = Change'[n] + Sum(Change', Returning)
    BY <1>8, <2>1, <2>2, SumAdd
  <2>4. Sum(Change', Returning) = Sum(Change, Returning)
    BY <1>9, <2>1, SumSame
  <2> QED BY <1>8, <1>9, <2>3, <2>4
<1>12. Sum(PaidFor', DOMAIN payouts') = log[i].amount + Sum(PaidFor, DOMAIN payouts)
  <2>1. IsFiniteSet(DOMAIN payouts) /\ \A t \in DOMAIN payouts : PaidFor[t] \in Nat
    BY Lengths, PaidNat DEF BackedInv
  <2>2. \A y \in DOMAIN payouts \cup {n} : PaidFor'[y] \in Nat
    BY <1>2, <1>9, <2>1
  <2>3. Sum(PaidFor', DOMAIN payouts \cup {n})
          = PaidFor'[n] + Sum(PaidFor', DOMAIN payouts)
    BY <1>5, <2>1, <2>2, SumAdd
  <2>4. Sum(PaidFor', DOMAIN payouts) = Sum(PaidFor, DOMAIN payouts)
    BY <1>9, SumSame
  <2> QED BY <1>5, <1>9, <2>3, <2>4
<1>13. Covered'
  <2>1. Sum(CoinValue, UserCoins) <=
          Sum(CoinValue, Unspent) + Sum(Change, Returning)
            + DustLimit * Len(payouts) + Sum(PaidFor, DOMAIN payouts)
    BY DEF BackedInv, Covered
  <2>2. /\ Sum(CoinValue, UserCoins) \in Nat /\ Sum(CoinValue, Unspent') \in Nat
        /\ Sum(Change, Returning) \in Nat
        /\ Sum(PaidFor, DOMAIN payouts) \in Nat
    <3>1. IsFiniteSet(Unspent') /\ \A u \in Unspent' : CoinValue[u] \in Nat
      BY <1>8, Parts, Elements, FS_Subset DEF BackedInv
    <3>2. Sum(CoinValue, Unspent') \in Nat
      BY <3>1, SumInNat
    <3> QED BY <3>2, Parts, Elements, SumInNat, DestroyedBound DEF BackedInv
  <2>3. /\ DustLimit * n = DustLimit * Len(payouts) + DustLimit
        /\ DustLimit * Len(payouts) \in Nat /\ DustLimit \in Nat
    BY <1>5 DEF BridgeAssumption
  <2>4. /\ Sum(CoinValue', UserCoins') = Sum(CoinValue, UserCoins)
        /\ Sum(CoinValue', Unspent') = Sum(CoinValue, Unspent')
        /\ DustLimit * Len(payouts') = DustLimit * Len(payouts) + DustLimit
    BY <1>5, <1>8, <2>3
  <2>5. Sum(CoinValue', UserCoins') <=
          Sum(CoinValue', Unspent') + Sum(Change', Returning')
            + DustLimit * Len(payouts') + Sum(PaidFor', DOMAIN payouts')
    <3> DEFINE a == Sum(CoinValue, UserCoins)
               b == Sum(CoinValue, Unspent')
               s == Sum(CoinValue, S)
               r == Sum(Change, Returning)
               d == DustLimit * Len(payouts)
               f == Sum(PaidFor, DOMAIN payouts)
               x == log[i].amount
    <3>1. /\ a \in Nat /\ b \in Nat /\ s \in Nat /\ r \in Nat /\ d \in Nat /\ f \in Nat
          /\ x \in Nat /\ change \in Nat /\ DustLimit \in Nat
      BY <1>2, <1>3, <2>2, <2>3
    <3>2. a <= (s + b) + r + d + f /\ s <= change + x + DustLimit
      BY <1>3, <1>10, <2>1
    <3>3. a <= b + (change + r) + (d + DustLimit) + (x + f)
      <4> HIDE DEF a, b, s, r, d, f, x
      <4> QED BY <3>1, <3>2
    <3> QED BY <1>11, <1>12, <2>4, <3>3
  <2> QED BY <2>5 DEF Covered
<1> QED BY <1>6, <1>7, <1>13 DEF BackedInv

\* The orders in which the change of R can come back; the coins from k on have
\* the values of the change in such an order.
Orders(R) == SetToSeqs({t \in R : payouts[t].change > 0})
InOrder(f, k, order) == \A i \in DOMAIN order : f[k + i] = payouts[order[i]].change

\* The values of the coins that come back add up to the change they were.
LEMMA ChangeReturns ==
  ASSUME CoinTypes, NEW R \in SUBSET Returning,
         NEW order \in Orders(R), NEW f, NEW k \in Nat, InOrder(f, k, order)
  PROVE  /\ DOMAIN order = 1..Len(order) /\ Len(order) \in Nat
         /\ \A i \in DOMAIN order : /\ order[i] \in R
                                    /\ payouts[order[i]].change \in Nat
         /\ Sum(f, (k + 1)..(k + Len(order))) = Sum(Change, R)
<1> DEFINE Q == {t \in R : payouts[t].change > 0}
           N == (k + 1)..(k + Len(order))
           r == [j \in N |-> order[j - k]]
           h == [j \in N |-> Change[r[j]]]
<1>0. /\ R \subseteq DOMAIN payouts /\ IsFiniteSet(R) /\ IsFiniteSet(Q) /\ IsFiniteSet(R \ Q)
      /\ \A t \in R : Change[t] = payouts[t].change /\ Change[t] \in Nat
  <2>1. R \subseteq DOMAIN payouts /\ IsFiniteSet(R)
    BY Parts, FS_Subset
  <2>2. IsFiniteSet(Q) /\ IsFiniteSet(R \ Q)
    BY <2>1, FS_Subset
  <2> QED BY <2>1, <2>2, Elements
<1>1. /\ order \in [1..Cardinality(Q) -> Q] /\ Cardinality(Q) \in Nat
      /\ \A i, j \in 1..Cardinality(Q) : i # j => order[i] # order[j]
  BY <1>0, FS_CardinalityType DEF SetToSeqs, Orders
<1>2. \A t \in Q : \E i \in 1..Cardinality(Q) : order[i] = t
  <2> DEFINE C == 1..Cardinality(Q)
  <2>1. order \in Injection(C, Q)
    BY <1>1 DEF Injection, IsInjective
  <2>2. Cardinality(C) = Cardinality(Q)
    BY <1>1, FS_Interval
  <2> HIDE DEF Q, C
  <2>3. order \in Surjection(C, Q)
    BY <1>0, <2>1, <2>2, FS_Injection
  <2> QED BY <2>3 DEF Surjection, C
<1>3. DOMAIN order = 1..Cardinality(Q) /\ Len(order) = Cardinality(Q)
  BY <1>1
<1>4. Sum(Change, {r[j] : j \in N}) = Sum(h, N)
  <2>1. IsFiniteSet(N)
    BY <1>1, <1>3, FS_Interval
  <2>2. \A j \in N : j - k \in 1..Cardinality(Q) /\ r[j] = order[j - k] /\ r[j] \in Q
    BY <1>1, <1>3
  <2>3. \A d, e \in N : r[d] = r[e] => d = e
    BY <1>1, <2>2
  <2>4. \A j \in N : Change[r[j]] \in Nat
    BY <1>0, <2>2
  <2> HIDE DEF N, r
  <2> QED BY <2>1, <2>3, <2>4, SumRenamed
<1>5. {r[j] : j \in N} = Q
  <2>1. ASSUME NEW t \in Q PROVE t \in {r[j] : j \in N}
    <3>1. PICK i \in 1..Cardinality(Q) : order[i] = t
      BY <1>2
    <3>2. k + i \in N /\ (k + i) - k = i
      BY <1>1, <1>3
    <3> QED BY <3>1, <3>2
  <2>2. ASSUME NEW j \in N PROVE r[j] \in Q
    BY <1>1, <1>3
  <2> QED BY <2>1, <2>2
<1>6. Sum(f, N) = Sum(h, N)
  <2>1. ASSUME NEW j \in N PROVE f[j] = h[j]
    <3>1. j - k \in DOMAIN order /\ k + (j - k) = j
      BY <1>1, <1>3
    <3>2. f[j] = payouts[order[j - k]].change
      BY <3>1 DEF InOrder
    <3>3. order[j - k] \in R
      BY <1>1, <1>3, <3>1
    <3> QED BY <1>0, <3>2, <3>3
  <2> HIDE DEF N, h
  <2> QED BY <2>1, SumSame
<1>7. Sum(Change, R) = Sum(Change, Q)
  <2>1. \A t \in R \ Q : Change[t] = 0
    BY <1>0
  <2>2. Sum(Change, R \ Q) = 0
    <3> HIDE DEF Q
    <3> QED BY <1>0, <2>1, SumZero
  <2>3. Sum(Change, Q) \in Nat
    <3>1. \A t \in Q : Change[t] \in Nat
      BY <1>0
    <3> HIDE DEF Q
    <3> QED BY <1>0, <3>1, SumInNat
  <2>4. Sum(Change, R) = Sum(Change, Q) + Sum(Change, R \ Q)
    <3>1. Q \in SUBSET R
      OBVIOUS
    <3> HIDE DEF Q
    <3> QED BY <1>0, <3>1, SumSubset
  <2> QED BY <2>2, <2>3, <2>4
<1>8. \A i \in DOMAIN order : order[i] \in R /\ payouts[order[i]].change \in Nat
  BY <1>0, <1>1, <1>3
<1> QED BY <1>1, <1>3, <1>4, <1>5, <1>6, <1>7, <1>8

LEMMA ReturnsKeeps ==
  ASSUME BridgeAssumption, BackedInv, NEW R \in SUBSET DOMAIN payouts, Returns(R)
  PROVE  BackedInv'
<1> DEFINE n == Len(coins)
<1>1. /\ R \in SUBSET Returning
      /\ UNCHANGED <<log, balances>>
      /\ payouts' = [t \in DOMAIN payouts |->
           IF t \in R THEN [payouts[t] EXCEPT !.back = TRUE] ELSE payouts[t]]
  BY DEF Returns, Returning
<1>2. PICK order \in Orders(R) :
        coins' = coins \o [i \in DOMAIN order |->
                             [owner |-> Minter, value |-> payouts[order[i]].change]]
  BY DEF Returns, Orders
<1> DEFINE m == Len(order)
           new == [i \in DOMAIN order |->
                     [owner |-> Minter, value |-> payouts[order[i]].change]]
           N == (n + 1)..(n + m)
<1>3. /\ DOMAIN order = 1..m /\ m \in Nat
      /\ \A i \in DOMAIN order : payouts[order[i]].change \in Nat
  <2> DEFINE f == [j \in Nat |-> payouts[order[j]].change]
  <2>1. InOrder(f, 0, order)
    <3>1. DOMAIN order \subseteq Nat
      <4>1. \E S : order \in [1..Cardinality(S) -> S]
        BY <1>2 DEF SetToSeqs, Orders
      <4> QED BY <4>1
    <3> QED BY <3>1 DEF InOrder
  <2>2. CoinTypes /\ 0 \in Nat
    BY DEF BackedInv
  <2> HIDE DEF f
  <2>3. /\ DOMAIN order = 1..Len(order) /\ Len(order) \in Nat
        /\ \A i \in DOMAIN order : payouts[order[i]].change \in Nat
    BY <1>1, <1>2, <2>1, <2>2, ChangeReturns
  <2> QED BY <2>3
<1>4. /\ new \in Seq(CoinSet) /\ Len(new) = m
      /\ \A i \in 1..m : new[i].owner = Minter /\ new[i].value = payouts[order[i]].change
  BY <1>3 DEF CoinSet
<1> HIDE DEF new
<1>5. /\ n \in Nat /\ DOMAIN coins = 1..n /\ coins' \in Seq(CoinSet)
      /\ DOMAIN coins' = DOMAIN coins \cup N /\ DOMAIN coins \cap N = {}
      /\ \A u \in DOMAIN coins : coins'[u] = coins[u]
      /\ \A i \in 1..m : n + i \in N /\ coins'[n + i] = new[i]
      /\ \A j \in N : j - n \in 1..m /\ coins'[j] = new[j - n]
  <2>1. coins \in Seq(CoinSet) /\ coins' = coins \o new
    BY <1>2 DEF BackedInv, CoinTypes, new
  <2>2. /\ coins' \in Seq(CoinSet) /\ Len(coins') = n + m
        /\ \A i \in 1..(n + m) : coins'[i] = IF i <= n THEN coins[i] ELSE new[i - n]
    <3>1. /\ coins \o new \in Seq(CoinSet) /\ Len(coins \o new) = Len(coins) + Len(new)
          /\ \A i \in 1..(Len(coins) + Len(new)) : (coins \o new)[i] =
               IF i <= Len(coins) THEN coins[i] ELSE new[i - Len(coins)]
      BY <1>4, <2>1, ConcatProperties
    <3> QED BY <1>4, <2>1, <3>1
  <2>3. n \in Nat /\ DOMAIN coins = 1..n
    BY <2>1
  <2>4. DOMAIN coins' = 1..(n + m)
    BY <2>2
  <2> QED BY <1>3, <2>2, <2>3, <2>4
<1>6. /\ DOMAIN payouts' = DOMAIN payouts /\ Len(payouts') = Len(payouts)
      /\ \A t \in DOMAIN payouts :
           /\ payouts'[t].ins = payouts[t].ins /\ payouts'[t].burn = payouts[t].burn
           /\ payouts'[t].change = payouts[t].change
           /\ payouts'[t].back = (t \in R \/ payouts[t].back)
           /\ payouts'[t] \in PaySet /\ payouts[t] \in PaySet
  <2>1. payouts \in Seq(PaySet)
    BY DEF BackedInv, CoinTypes
  <2>2. \A t \in DOMAIN payouts : payouts[t] \in PaySet
    BY <2>1
  <2>3. DOMAIN payouts' = DOMAIN payouts /\ Len(payouts') = Len(payouts)
    BY <1>1, <2>1
  <2>4. \A t \in DOMAIN payouts :
           /\ payouts'[t].ins = payouts[t].ins /\ payouts'[t].burn = payouts[t].burn
           /\ payouts'[t].change = payouts[t].change
           /\ payouts'[t].back = (t \in R \/ payouts[t].back)
           /\ payouts'[t] \in PaySet
    BY <1>1, <2>2 DEF PaySet
  <2> QED BY <2>2, <2>3, <2>4
<1> HIDE DEF n, m, N
<1>7. CoinTypes'
  <2>1. LogSet' = LogSet /\ CoinSet' = CoinSet /\ PaySet \subseteq PaySet'
    BY <1>5 DEF LogSet, CoinSet, PaySet
  <2>2. payouts' \in Seq(PaySet')
    <3>1. /\ Len(payouts) \in Nat /\ DOMAIN payouts = 1..Len(payouts)
      BY Lengths DEF BackedInv
    <3>2. payouts' = [t \in 1..Len(payouts) |-> payouts'[t]]
      BY <1>1, <3>1
    <3>3. \A t \in 1..Len(payouts) : payouts'[t] \in PaySet'
      BY <1>6, <2>1, <3>1
    <3> QED BY <3>1, <3>2, <3>3
  <2>3. log \in Seq(LogSet) /\ balances \in [Users -> Nat]
    BY DEF BackedInv, CoinTypes
  <2> QED BY <1>1, <1>5, <2>1, <2>2, <2>3 DEF CoinTypes
<1>8. UserCoins' = UserCoins
  <2>1. \A j \in N : coins'[j].owner = Minter
    BY <1>4, <1>5
  <2> QED BY <1>5, <2>1 DEF UserCoins, BridgeAssumption
<1>9. MintsExact' /\ PaysBurns'
  <2>1. Blocks("mint")' = Blocks("mint") /\ Blocks("burn")' = Blocks("burn")
    BY <1>1 DEF Blocks
  <2>2. UserCoins \subseteq DOMAIN coins
    BY DEF UserCoins
  <2>3. MintsExact'
    BY <1>1, <1>5, <1>8, <2>1, <2>2 DEF BackedInv, MintsExact
  <2>4. PaysBurns'
    BY <1>6, <2>1 DEF BackedInv, PaysBurns
  <2> QED BY <2>3, <2>4
<1>10. /\ Unspent' = Unspent \cup N /\ Unspent \cap N = {}
       /\ Returning' = Returning \ R
  <2>1. \A t \in DOMAIN payouts : payouts[t].ins \subseteq DOMAIN coins /\ payouts[t].back \in BOOLEAN
    BY Elements DEF BackedInv
  <2>2. \A u \in N : \A t \in DOMAIN payouts : u \notin payouts[t].ins
    BY <1>5, <2>1
  <2>3. Unspent' = Unspent \cup N /\ Unspent \cap N = {}
    BY <1>5, <1>6, <2>2 DEF Unspent
  <2>4. Returning' = Returning \ R
    BY <1>6, <2>1 DEF Returning
  <2> QED BY <2>3, <2>4
<1>11. /\ \A u \in DOMAIN coins : CoinValue'[u] = CoinValue[u] /\ CoinValue[u] \in Nat
       /\ \A j \in N : CoinValue'[j] = coins'[j].value
       /\ \A t \in DOMAIN payouts : /\ Change'[t] = Change[t] /\ Change[t] \in Nat
                                    /\ PaidFor'[t] = PaidFor[t] /\ PaidFor[t] \in Nat
  BY <1>1, <1>5, <1>6, Elements, PaidNat DEF CoinValue, Change, PaidFor, BackedInv
<1>12. Sum(CoinValue', N) = Sum(Change, R)
  <2>1. ASSUME NEW i \in DOMAIN order PROVE CoinValue'[n + i] = payouts[order[i]].change
    <3>1. i \in 1..m /\ n + i \in N
      BY <1>3, <1>5
    <3>2. CoinValue'[n + i] = coins'[n + i].value
      BY <1>11, <3>1
    <3>3. coins'[n + i] = new[i] /\ new[i].value = payouts[order[i]].change
      BY <1>4, <1>5, <3>1
    <3> QED BY <3>2, <3>3
  <2>2. Sum(CoinValue', (n + 1)..(n + Len(order))) = Sum(Change, R)
    <3> DEFINE f == CoinValue'
    <3>1. InOrder(f, n, order) /\ CoinTypes /\ n \in Nat
      BY <1>5, <2>1 DEF InOrder, BackedInv
    <3> HIDE DEF f
    <3>2. Sum(f, (n + 1)..(n + Len(order))) = Sum(Change, R)
      BY <1>1, <1>2, <3>1, ChangeReturns
    <3> QED BY <3>2 DEF f
  <2> QED BY <2>2 DEF N, m
<1>13. Sum(CoinValue', Unspent') = Sum(CoinValue, Unspent) + Sum(Change, R)
  <2>1. IsFiniteSet(Unspent) /\ IsFiniteSet(N) /\ Unspent \subseteq DOMAIN coins
    BY <1>3, <1>5, Parts, FS_Interval DEF BackedInv, N
  <2>2. ASSUME NEW j \in N PROVE CoinValue'[j] \in Nat
    <3>1. CoinValue'[j] = coins'[j].value /\ j - n \in 1..m /\ coins'[j] = new[j - n]
      BY <1>5, <1>11
    <3>2. coins'[j] \in CoinSet
      <4>1. coins' \in Seq(CoinSet) /\ j \in DOMAIN coins'
        BY <1>5
      <4> QED BY <4>1
    <3> QED BY <3>1, <3>2 DEF CoinSet
  <2>3. \A u \in Unspent \cup N : CoinValue'[u] \in Nat
    BY <1>11, <2>1, <2>2
  <2>4. Sum(CoinValue', Unspent \cup N) = Sum(CoinValue', Unspent) + Sum(CoinValue', N)
    BY <1>10, <2>1, <2>3, SumUnion
  <2>5. Sum(CoinValue', Unspent) = Sum(CoinValue, Unspent)
    BY <1>11, <2>1, SumSame
  <2> QED BY <1>10, <1>12, <2>4, <2>5
<1>14. Sum(Change, Returning) = Sum(Change, R) + Sum(Change', Returning')
  <2>1. IsFiniteSet(Returning) /\ Returning \subseteq DOMAIN payouts
    BY Parts DEF BackedInv
  <2>2. Sum(Change, Returning) = Sum(Change, R) + Sum(Change, Returning \ R)
    BY <1>1, <1>11, <2>1, SumSubset
  <2>3. Sum(Change', Returning \ R) = Sum(Change, Returning \ R)
    BY <1>11, <2>1, SumSame
  <2> QED BY <1>10, <2>2, <2>3
<1>15. /\ Sum(CoinValue', UserCoins') = Sum(CoinValue, UserCoins)
       /\ Sum(PaidFor', DOMAIN payouts') = Sum(PaidFor, DOMAIN payouts)
  <2>1. Sum(CoinValue', UserCoins) = Sum(CoinValue, UserCoins)
    BY <1>11, SumSame DEF UserCoins
  <2>2. Sum(PaidFor', DOMAIN payouts) = Sum(PaidFor, DOMAIN payouts)
    BY <1>11, SumSame
  <2> QED BY <1>6, <1>8, <2>1, <2>2
<1>16. Covered'
  <2>1. /\ Sum(CoinValue, Unspent) \in Nat /\ Sum(Change, R) \in Nat
        /\ Sum(Change', Returning') \in Nat
    <3>1. /\ IsFiniteSet(R) /\ IsFiniteSet(Returning \ R)
          /\ \A t \in Returning : Change'[t] \in Nat /\ Change[t] \in Nat
      BY <1>1, <1>11, Parts, FS_Subset DEF BackedInv
    <3>2. Sum(Change', Returning \ R) \in Nat /\ Sum(Change, R) \in Nat
      BY <1>1, <3>1, SumInNat
    <3>3. Sum(CoinValue, Unspent) \in Nat
      BY Parts, Elements, SumInNat DEF BackedInv
    <3> QED BY <1>10, <3>2, <3>3
  <2>2. Sum(CoinValue', Unspent') + Sum(Change', Returning')
          = Sum(CoinValue, Unspent) + Sum(Change, Returning)
    BY <1>13, <1>14, <2>1
  <2> QED BY <1>6, <1>15, <2>2 DEF BackedInv, Covered
<1> QED BY <1>7, <1>9, <1>16 DEF BackedInv

LEMMA InitBackedInv == ASSUME BridgeAssumption, Init PROVE BackedInv
<1>1. coins = << >> /\ payouts = << >> /\ log = << >> /\ balances = [p \in Users |-> 0]
  BY DEF Init
<1>2. /\ CoinTypes /\ UserCoins = {} /\ Unspent = {} /\ Returning = {}
      /\ DOMAIN payouts = {} /\ \A op : Blocks(op) = {}
  BY <1>1 DEF CoinTypes, UserCoins, Unspent, Returning, Blocks
<1>3. Covered
  <2>1. DustLimit * Len(payouts) = 0
    BY <1>1 DEF BridgeAssumption
  <2> QED BY <1>2, <2>1, SumEmpty DEF Covered
<1> QED BY <1>2, <1>3 DEF BackedInv, MintsExact, PaysBurns

LEMMA NextBackedInv ==
  ASSUME BridgeAssumption, BackedInv, [Next]_vars PROVE BackedInv'
<1>1. CASE UNCHANGED vars
  BY <1>1 DEF vars, BackedInv, CoinTypes, CoinSet, PaySet, LogSet, MintsExact, PaysBurns,
     Covered, CoinValue, UserCoins, Unspent, Change, Returning, PaidFor, Blocks
<1>2. CASE Next
  BY <1>2, DepositKeeps, MintKeeps, BurnKeeps, PayKeeps, ReturnsKeeps DEF Next
<1> QED BY <1>1, <1>2

\* README.md:29, of the bridge as it is promised: the supply is covered by the
\* coins that are not spent and the change that is on its way, but for dust.
THEOREM BridgeBacked == ASSUME BridgeAssumption PROVE Spec => []Backed
<1>1. Init => BackedInv
  BY InitBackedInv
<1>2. BackedInv /\ [Next]_vars => BackedInv'
  BY NextBackedInv
<1>3. BackedInv => Backed
  BY InvBacked
<1> QED BY <1>1, <1>2, <1>3, PTL DEF Spec
=============================================================================
