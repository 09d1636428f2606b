----------------------------- MODULE MCSyncing -----------------------------
(* Instances of DogeSyncing for TLC: a trunk of blocks 1..6 from genesis,   *)
(* and a fork 14, 15, 16 that leaves it after block 3.  Block b of the trunk*)
(* has height b - 1.  Block 24 spends an output that does not exist; only a *)
(* faulty agent shows it, and block 25 after it.                            *)
EXTENDS DogeSyncing

CONSTANTS l1, l2, c1, c2, a0, a1, a2

\* Three agents; a1 and a2 share a name.
AgentName == [a \in Agents |-> IF a = a0 THEN "node" ELSE "proxy"]
NoAgents    == << >>
OneAttester == <<a0, a1>>
NoLists  == {}
TwoLists == {<<a0, a1>>, <<a1, a0, a2>>}
TwoSigners == {l1, c1}

Trunk    == 1..6
WithFork == Trunk \cup {14, 15, 16}
LongFork == WithFork \cup {7, 17}
WithBad  == (1..5) \cup {14, 24, 25}

PrevBlock == [b \in Blocks |->
  IF b \in {14, 24} THEN 3 ELSE IF b = 1 THEN NoBlock ELSE b - 1]
HeightOf == [b \in Blocks |->
  CASE b < 10 -> b - 1 [] b \in 14..17 -> b - 11 [] OTHER -> b - 21]

\* t1 has two outputs, t2 spends the first and pays one without an address
\* besides, t3 spends the second and t2's; in the fork x3 spends only the
\* first of these two, and x5 the other one.
\* The coinbase transactions are alike: none is indexed.
Coinbase == "cb"
Transactions == [b \in Blocks |->
  CASE b = 2  -> <<Coinbase, "t1">>
    [] b = 3  -> <<Coinbase, "t2">>
    [] b = 4  -> <<Coinbase, "t3", "t4">>
    [] b = 5  -> <<Coinbase, "t5">>
    [] b = 15 -> <<Coinbase, "x3">>
    [] b = 24 -> <<Coinbase, "t6">>
    [] b = 16 -> <<Coinbase, "x5">>
    [] OTHER  -> <<Coinbase>>]
Out(t, v) == [tx |-> t, vout |-> v]
Inputs == [cb |-> << >>,
  t1 |-> <<Out("old", 1)>>,
  t2 |-> <<Out("t1", 1)>>,
  t3 |-> <<Out("t1", 2), Out("t2", 1)>>,
  t4 |-> <<Out("t3", 1)>>,
  t5 |-> <<Out("t4", 1)>>,
  t6 |-> <<Out("t2", 1), Out("t2", 9)>>,
  x3 |-> <<Out("t1", 2)>>,
  x5 |-> <<Out("x3", 1), Out("t2", 1)>>]
Outs == [cb |-> 1, t1 |-> 2, t2 |-> 2, t3 |-> 1, t4 |-> 2, t5 |-> 1, t6 |-> 1,
         x3 |-> 1, x5 |-> 1]

\* Blocks for the runs whose question does not depend on transactions.
CoinbaseOnly == [b \in Blocks |-> <<Coinbase>>]
Nameless == {Out("t2", 2)}

\* Without the invalid block the chains are those of the theorems.
ASSUME NetworkValid == 24 \notin Blocks => ChainsValid
=============================================================================
