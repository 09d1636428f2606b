---------------------------- MODULE SyncingSafety ----------------------------
(***************************************************************************)
(* Proofs about the syncing of the ck-doge-canister, for every set of      *)
(* blocks, agents, loops and restarts: the tip, the queue, the processed   *)
(* and the confirmed block stay on one chain, a confirmed block stays on   *)
(* it, and agents in use have their tokens refreshed.  While no block is   *)
(* reorganised away and each list of agents has an honest attester, what   *)
(* is processed is under the tip of the network, and the index has only    *)
(* transactions of that chain.  When the blocks are valid, the index lists *)
(* only outputs of the chain that is followed which nothing on it spends.  *)
(* When besides there is one loop, not reset before it first confirms, no  *)
(* block is skipped, hence the index lists all that it should.             *)
(***************************************************************************)
EXTENDS DogeSyncing, Sums, SequenceTheorems

-----------------------------------------------------------------------------
(* The chain below a block *)

\* What holds of a block when it holds of the previous one holds of all.
LEMMA BlockInduction ==
  ASSUME NEW G, \A b \in Blocks : Prev[b] = NoBlock \/ Prev[b] \in G => b \in G
  PROVE  Blocks \subseteq G
<1> DEFINE T == {Height[b] : b \in Blocks \ G}
<1>1. SUFFICES ASSUME T # {} PROVE FALSE
  OBVIOUS
<1>2. T \subseteq Nat
  BY ChainAssumption
<1>3. PICK n \in T : \A m \in T : n <= m
  <2> HIDE DEF T
  <2> QED BY <1>1, <1>2, LeastNat
<1>4. PICK b \in Blocks \ G : Height[b] = n
  BY <1>3
<1>5. Prev[b] \in Blocks \ G /\ Height[b] = Height[Prev[b]] + 1
  BY <1>4, ChainAssumption
<1>6. Height[Prev[b]] \in T /\ Height[Prev[b]] \in Nat
  BY <1>5, ChainAssumption
<1> HIDE DEF T
<1>7. n <= Height[Prev[b]] /\ n = Height[Prev[b]] + 1
  BY <1>3, <1>4, <1>5, <1>6
<1> QED BY <1>6, <1>7

\* The recursion of Ancestors has a solution: the least closed sets.
Closed(S) == \A x \in S : Prev[x] # NoBlock => Prev[x] \in S
Up(b) == {a \in Blocks : \A S \in SUBSET Blocks : b \in S /\ Closed(S) => a \in S}
UpTo(b) == {b} \cup (IF Prev[b] = NoBlock THEN {} ELSE Up(Prev[b]))

LEMMA UpRecursive == ASSUME NEW b \in Blocks PROVE Up(b) = UpTo(b)
<1>1. \A x \in Blocks : Prev[x] # NoBlock => Prev[x] \in Blocks
  BY ChainAssumption
<1>2. UpTo(b) \subseteq Up(b)
  BY <1>1 DEF Up, UpTo, Closed
<1>3. Closed(UpTo(b))
  <2>1. \A c \in Blocks : Closed(Up(c)) /\ c \in Up(c)
    BY <1>1 DEF Up, Closed
  <2> QED BY <1>1, <2>1 DEF UpTo, Closed
<1>4. UpTo(b) \in SUBSET Blocks /\ b \in UpTo(b)
  BY <1>1 DEF Up, UpTo
<1>5. Up(b) \subseteq UpTo(b)
  BY <1>3, <1>4 DEF Up
<1> QED BY <1>2, <1>5

LEMMA AncestorsRecursive ==
  ASSUME NEW b \in Blocks
  PROVE  Ancestors[b] = {b} \cup (IF Prev[b] = NoBlock THEN {} ELSE Ancestors[Prev[b]])
<1> DEFINE P(f) == f = [c \in Blocks |->
                     {c} \cup (IF Prev[c] = NoBlock THEN {} ELSE f[Prev[c]])]
           U == [c \in Blocks |-> Up(c)]
<1>1. P(U)
  <2>1. \A c \in Blocks : U[c] = {c} \cup (IF Prev[c] = NoBlock THEN {} ELSE U[Prev[c]])
    BY UpRecursive, ChainAssumption DEF UpTo
  <2> QED BY <2>1
<1>2. P(Ancestors)
  <2>1. Ancestors = CHOOSE f : P(f)
    BY DEF Ancestors
  <2> HIDE DEF P
  <2> QED BY <1>1, <2>1
<1> QED BY <1>2

\* a is b or a block below it.
Under(a, b) == b \in Blocks /\ a \in Ancestors[b]

\* Blocks under a block: they are blocks, lower unless they are the block
\* itself, and what is under one of them is under it.
LEMMA UnderFacts ==
  \A b \in Blocks : \A a \in Ancestors[b] :
     a \in Blocks /\ (a = b \/ Height[a] < Height[b]) /\ Ancestors[a] \subseteq Ancestors[b]
<1> DEFINE G == {b \in Blocks : \A a \in Ancestors[b] :
                   a \in Blocks /\ (a = b \/ Height[a] < Height[b])
                   /\ Ancestors[a] \subseteq Ancestors[b]}
<1>1. ASSUME NEW b \in Blocks, Prev[b] = NoBlock \/ Prev[b] \in G
      PROVE  b \in G
  <2>1. CASE Prev[b] = NoBlock
    BY <2>1, AncestorsRecursive
  <2>2. CASE Prev[b] # NoBlock
    <3>1. /\ Ancestors[b] = {b} \cup Ancestors[Prev[b]]
          /\ Prev[b] \in G /\ Height[b] = Height[Prev[b]] + 1
      BY <1>1, <2>2, AncestorsRecursive, ChainAssumption
    <3>2. \A a \in Ancestors[Prev[b]] :
            a \in Blocks /\ Height[a] < Height[b] /\ Ancestors[a] \subseteq Ancestors[b]
      <4>1. \A a \in Blocks : Height[a] \in Nat
        BY ChainAssumption
      <4> QED BY <3>1, <4>1
    <3> QED BY <3>1, <3>2
  <2> QED BY <2>1, <2>2
<1>2. Blocks \subseteq G
  <2> HIDE DEF G
  <2> QED BY <1>1, BlockInduction
<1> QED BY <1>2

LEMMA UnderSelf == ASSUME NEW b \in Blocks PROVE Under(b, b)
  BY AncestorsRecursive DEF Under

LEMMA UnderPrev ==
  ASSUME NEW b \in Blocks, Prev[b] # NoBlock
  PROVE  Prev[b] \in Blocks /\ Height[b] = Height[Prev[b]] + 1 /\ Under(Prev[b], b)
<1>1. Prev[b] \in Blocks /\ Height[b] = Height[Prev[b]] + 1
  BY ChainAssumption
<1>2. Prev[b] \in Ancestors[Prev[b]] /\ Ancestors[Prev[b]] \subseteq Ancestors[b]
  BY <1>1, AncestorsRecursive
<1> QED BY <1>1, <1>2 DEF Under

LEMMA UnderTrans ==
  ASSUME NEW a, NEW b, NEW c, Under(a, b), Under(b, c)
  PROVE  Under(a, c)
  BY UnderFacts DEF Under

LEMMA UnderHeight ==
  ASSUME NEW a, NEW b, Under(a, b)
  PROVE  /\ a \in Blocks /\ b \in Blocks
         /\ Height[a] \in Nat /\ Height[b] \in Nat
         /\ Height[a] <= Height[b]
         /\ Height[a] = Height[b] => a = b
<1>1. a \in Blocks /\ b \in Blocks /\ (a = b \/ Height[a] < Height[b])
  BY UnderFacts DEF Under
<1>2. Height[a] \in Nat /\ Height[b] \in Nat
  BY <1>1, ChainAssumption
<1> QED BY <1>1, <1>2

-----------------------------------------------------------------------------
(* Tokens: a call that writes back a list it did not set found a timer *)

AgentInv ==
  /\ rpc_agents \in Seq(Agents) /\ refresh_timer \in BOOLEAN
  /\ signing \in [Signers -> [list : Seq(Agents), left : Nat, set : BOOLEAN]]
  /\ \A s \in Signers : signing[s] # IdleSigner =>
       signing[s].list # << >> /\ (signing[s].set \/ refresh_timer)

LEMMA CountNat == \A list \in Seq(Agents) : Cardinality(Names(list)) \in Nat
<1> SUFFICES ASSUME NEW list \in Seq(Agents) PROVE Cardinality(Names(list)) \in Nat
  OBVIOUS
<1>1. IsFiniteSet(DOMAIN list)
  BY FS_Interval
<1>2. IsFiniteSet(Names(list))
  <2> DEFINE f == [i \in DOMAIN list |-> NameOf[list[i]]]
  <2>1. f \in Surjection(DOMAIN list, Names(list))
    BY DEF Names, Surjection
  <2> HIDE DEF f
  <2> QED BY <1>1, <2>1, FS_Surjection
<1> QED BY <1>2, FS_CardinalityType

LEMMA SignKeeps ==
  ASSUME AgentInv, NEW s \in Signers, NEW list \in Seq(Agents), NEW set \in BOOLEAN,
         list # << >>, set \/ refresh_timer,
         Sign(s, list, set), UNCHANGED <<rpc_agents, refresh_timer>>
  PROVE  AgentInv'
<1> DEFINE r == [list |-> list, left |-> Cardinality(Names(list)), set |-> set]
<1>1. r \in [list : Seq(Agents), left : Nat, set : BOOLEAN]
  BY CountNat
<1>2. signing' = [signing EXCEPT ![s] = r] /\ r.set = set /\ r.list = list
  BY DEF Sign
<1> HIDE DEF r
<1> QED BY <1>1, <1>2 DEF AgentInv

LEMMA RefreshKeeps ==
  ASSUME AgentInv, TokensRefreshed, NEW s \in Signers, Refresh(s)
  PROVE  AgentInv' /\ UNCHANGED <<rpc_agents, refresh_timer>>
<1>1. CASE rpc_agents = << >>
  BY <1>1 DEF Refresh, AgentInv
<1>2. CASE rpc_agents # << >>
  <2>1. rpc_agents \in Seq(Agents) /\ refresh_timer
    BY <1>2 DEF AgentInv, TokensRefreshed
  <2>2. Sign(s, rpc_agents, FALSE) /\ UNCHANGED <<rpc_agents, refresh_timer>>
    BY <1>2 DEF Refresh
  <2> QED BY <1>2, <2>1, <2>2, SignKeeps
<1> QED BY <1>1, <1>2

\* What a step does to the agents.
AgentMove ==
  \/ UNCHANGED agents
  \/ UpgradeAgents
  \/ \E s \in Signers :
       \/ \E list \in AgentLists : AdminSetAgent(s, list)
       \/ Refresh(s) \/ TokenSigned(s) \/ TokensSigned(s) \/ SignFails(s)

LEMMA AgentMoves == ASSUME [Next]_vars PROVE AgentMove
<1>1. CASE \E l \in Loops : LoopSteps(l)
  <2>1. PICK l \in Loops : LoopSteps(l)
    BY <1>1
  <2>2. l \in Signers
    BY SyncingAssumption
  <2>3. CASE UpgradeSteps(l)
    BY <2>2, <2>3 DEF UpgradeSteps, UpgradedStart, UpgradedSigned, UpgradedFails, AgentMove
  <2>4. CASE ~UpgradeSteps(l)
    <3>1. UNCHANGED world
      BY <2>1, <2>4 DEF LoopSteps, FetchStart, FetchNoAgent, FetchAnswers, FetchHash,
         FetchWait, FetchBlockFails, FetchAppend, FetchReorg, AttestOk, AttestFails,
         ProcessSteps, ProcessNothing, ProcessOutOfOrder, ProcessBlock, ProcessFails,
         ConfirmSteps, ConfirmNothing, Confirm, ConfirmFails
    <3> QED BY <3>1 DEF world, AgentMove
  <2> QED BY <2>3, <2>4
<1>2. CASE AdminRestart \/ \E s \in {0, 0 - 1, 0 - 2, 0 - 3} : AdminRestartFor(s)
  BY <1>2 DEF AdminRestart, AdminRestartFor, RefreshAfter, AgentCalls, AgentMove
<1>3. CASE AdminRestartInvalid \/ NewBest
  BY <1>3 DEF AdminRestartInvalid, NewBest, AgentMove
<1>4. CASE Upgrade
  BY <1>4 DEF Upgrade, AgentMove
<1>5. CASE \E c \in AgentCalls : AgentStep(c)
  BY <1>5 DEF AgentStep, RefreshTick, AgentCalls, AgentMove
<1>6. CASE UNCHANGED vars
  BY <1>6 DEF vars, AgentMove
<1> QED BY <1>1, <1>2, <1>3, <1>4, <1>5, <1>6 DEF Next

LEMMA AgentStepKeeps ==
  ASSUME AgentInv, TokensRefreshed, AgentMove
  PROVE  AgentInv' /\ TokensRefreshed'
<1>1. CASE UNCHANGED agents
  BY <1>1 DEF agents, AgentInv, TokensRefreshed
<1>2. CASE UpgradeAgents
  BY <1>2 DEF UpgradeAgents, AgentInv, TokensRefreshed
<1>3. ASSUME NEW s \in Signers, NEW list \in AgentLists, AdminSetAgent(s, list)
      PROVE  AgentInv' /\ TokensRefreshed'
  <2>1. list \in Seq(Agents)
    BY AgentsAssumption
  <2>2. AgentInv'
    BY <1>3, <2>1, SignKeeps DEF AdminSetAgent
  <2> QED BY <1>3, <2>2 DEF AdminSetAgent, TokensRefreshed
<1>4. ASSUME NEW s \in Signers, Refresh(s)
      PROVE  AgentInv' /\ TokensRefreshed'
  BY <1>4, RefreshKeeps DEF TokensRefreshed
<1>5. ASSUME NEW s \in Signers, TokenSigned(s)
      PROVE  AgentInv' /\ TokensRefreshed'
  <2>1. signing[s] # IdleSigner
    BY <1>5 DEF TokenSigned, IdleSigner
  <2> DEFINE r == [signing[s] EXCEPT !.left = @ - 1]
  <2>2. /\ signing' = [signing EXCEPT ![s] = r]
        /\ UNCHANGED <<rpc_agents, refresh_timer>>
        /\ signing[s] \in [list : Seq(Agents), left : Nat, set : BOOLEAN]
        /\ signing[s].left > 1
    BY <1>5 DEF TokenSigned, AgentInv
  <2>3. /\ r \in [list : Seq(Agents), left : Nat, set : BOOLEAN]
        /\ r.set = signing[s].set
        /\ r.list = signing[s].list
    BY <2>2
  <2> HIDE DEF r
  <2> QED BY <2>1, <2>2, <2>3 DEF AgentInv, TokensRefreshed
<1>6. ASSUME NEW s \in Signers, TokensSigned(s)
      PROVE  AgentInv' /\ TokensRefreshed'
  <2>1. signing[s] # IdleSigner /\ IdleSigner \in [list : Seq(Agents), left : Nat, set : BOOLEAN]
    BY <1>6 DEF TokensSigned, IdleSigner
  <2>2. refresh_timer' = TRUE /\ (refresh_timer' = refresh_timer \/ signing[s].set)
    BY <1>6, <2>1 DEF TokensSigned, Armed, AgentInv
  <2>3. signing' = [signing EXCEPT ![s] = IdleSigner] /\ rpc_agents' = signing[s].list
    BY <1>6 DEF TokensSigned
  <2> QED BY <2>1, <2>2, <2>3 DEF AgentInv, TokensRefreshed
<1>7. ASSUME NEW s \in Signers, SignFails(s)
      PROVE  AgentInv' /\ TokensRefreshed'
  <2>1. IdleSigner \in [list : Seq(Agents), left : Nat, set : BOOLEAN]
    BY DEF IdleSigner
  <2> QED BY <1>7, <2>1 DEF SignFails, AgentInv, TokensRefreshed
<1> QED BY <1>1, <1>2, <1>3, <1>4, <1>5, <1>6, <1>7 DEF AgentMove

LEMMA AgentInit == ASSUME Init PROVE AgentInv /\ TokensRefreshed
<1>1. IdleSigner \in [list : Seq(Agents), left : Nat, set : BOOLEAN]
  BY DEF IdleSigner
<1> QED BY <1>1, AgentsAssumption DEF Init, InitAgents, AgentInv, TokensRefreshed

LEMMA AgentsAlways == Spec => [](AgentInv /\ TokensRefreshed)
<1>1. AgentInv /\ TokensRefreshed /\ [Next]_vars => (AgentInv /\ TokensRefreshed)'
  BY AgentMoves, AgentStepKeeps
<1> QED BY <1>1, AgentInit, PTL DEF Spec

\* Whichever calls that sign tokens overlap or fail, and after upgrades,
\* agents in use have a timer that refreshes their tokens.
THEOREM RefreshTimerSet == Spec => []TokensRefreshed
  BY AgentsAlways, PTL

-----------------------------------------------------------------------------
(* Loops: an answered getblockhash is a block of the height asked for      *)

LoopRec == [pc : {"off"} \cup Waiting \cup Awaiting,
            agent : {<< >>} \cup {<<a>> : a \in Agents},
            height : Nat, hash : Blocks \cup {NoBlock}, left : Seq(Agents)]
GoodLoop == {loop \in LoopRec :
  /\ loop.pc = "block" => loop.hash \in Blocks /\ Height[loop.hash] = loop.height
  /\ loop.pc = "attest" => loop.left # << >>}
LoopInv == best \in Blocks /\ loops \in [Loops -> GoodLoop]

LEMMA TimerGood ==
  /\ IdleLoop \in GoodLoop
  /\ \A pc \in Waiting : [IdleLoop EXCEPT !.pc = pc] \in GoodLoop
<1>1. << >> \in Seq(Agents)
  OBVIOUS
<1>2. [pc |-> "off", agent |-> << >>, height |-> 0, hash |-> NoBlock, left |-> << >>]
        \in GoodLoop
  BY <1>1 DEF GoodLoop, LoopRec
<1>3. \A pc \in Waiting :
        [pc |-> pc, agent |-> << >>, height |-> 0, hash |-> NoBlock, left |-> << >>]
          \in GoodLoop
  BY <1>1 DEF GoodLoop, LoopRec, Waiting
<1>4. \A pc : [IdleLoop EXCEPT !.pc = pc] =
        [pc |-> pc, agent |-> << >>, height |-> 0, hash |-> NoBlock, left |-> << >>]
  BY DEF IdleLoop
<1> QED BY <1>2, <1>3, <1>4 DEF IdleLoop

LEMMA OneLoop ==
  ASSUME LoopInv, NEW l \in Loops, NEW r \in GoodLoop,
         loops' = [loops EXCEPT ![l] = r], UNCHANGED best
  PROVE  LoopInv'
  BY DEF LoopInv, GoodLoop, LoopRec

LEMMA TimerKeeps ==
  ASSUME LoopInv, NEW l \in Loops, UNCHANGED best,
         (\E pc \in Waiting : SetTimer(l, pc)) \/ (\E e : Stop(l, e))
           \/ loops' = [loops EXCEPT ![l] = IdleLoop]
  PROVE  LoopInv'
<1>1. \E r \in GoodLoop : loops' = [loops EXCEPT ![l] = r]
  BY TimerGood DEF SetTimer, Stop
<1> QED BY <1>1, OneLoop

LEMMA AskKeeps ==
  ASSUME LoopInv, NEW l \in Loops, NEW list \in Seq(Agents), list # << >>,
         tip.height \in Nat, AskHash(l, list), UNCHANGED best
  PROVE  LoopInv'
<1> DEFINE h == IF tip.hash = NoBlock THEN 0 ELSE tip.height + 1
           a == <<Agent(list)>>
           r == [IdleLoop EXCEPT !.pc = "hash", !.agent = a, !.height = h]
<1>1. loops' = [loops EXCEPT ![l] = r]
  BY DEF AskHash
<1>2. h \in Nat /\ a \in {<<x>> : x \in Agents}
  BY HeadTailProperties DEF Agent
<1>3. r \in GoodLoop
  <2> HIDE DEF h, a
  <2>1. IdleLoop \in LoopRec
    BY TimerGood DEF GoodLoop
  <2> QED BY <1>2, <2>1 DEF GoodLoop, LoopRec, Awaiting
<1> HIDE DEF r
<1> QED BY <1>1, <1>3, OneLoop

\* Every answer to getblockhash(h) that a loop takes is a block of height h.
LEMMA AnswerHeight ==
  ASSUME best \in Blocks, NEW a, NEW h, NEW b \in AgentAt(a, h)
  PROVE  b \in Blocks /\ Height[b] = h
  BY UnderFacts DEF AgentAt, BestAt

LEMMA FetchHashKeeps ==
  ASSUME LoopInv, NEW l \in Loops, FetchHash(l)
  PROVE  LoopInv'
<1>1. PICK b \in AgentAt(Agent(loops[l].agent), loops[l].height) :
        loops' = [loops EXCEPT ![l].pc = "block", ![l].hash = b]
  BY DEF FetchHash
<1>2. b \in Blocks /\ Height[b] = loops[l].height
  BY AnswerHeight DEF LoopInv
<1> DEFINE r == [loops[l] EXCEPT !.pc = "block", !.hash = b]
<1>3. loops[l] \in LoopRec
  BY DEF LoopInv, GoodLoop
<1>4. r \in GoodLoop
  BY <1>2, <1>3 DEF GoodLoop, LoopRec, Awaiting
<1>5. loops' = [loops EXCEPT ![l] = r] /\ UNCHANGED best
  BY <1>1, <1>3 DEF FetchHash, world, LoopInv, LoopRec
<1> HIDE DEF r
<1> QED BY <1>4, <1>5, OneLoop

LEMMA AttestedKeeps ==
  ASSUME LoopInv, NEW l \in Loops, NEW left \in Seq(Agents), Attested(l, left),
         UNCHANGED best
  PROVE  LoopInv'
<1>1. CASE left = << >>
  BY <1>1, TimerKeeps DEF Attested, Waiting
<1>2. CASE left # << >>
  <2> DEFINE r == [loops[l] EXCEPT !.pc = "attest", !.left = left]
  <2>1. loops[l] \in LoopRec
    BY DEF LoopInv, GoodLoop
  <2>2. r \in GoodLoop
    BY <1>2, <2>1 DEF GoodLoop, LoopRec, Awaiting
  <2>3. loops' = [loops EXCEPT ![l] = r]
    BY <1>2, <2>1 DEF Attested, LoopInv, LoopRec
  <2> HIDE DEF r
  <2> QED BY <2>2, <2>3, OneLoop
<1> QED BY <1>1, <1>2

LEMMA StartKeeps ==
  ASSUME LoopInv, NEW others \in [Loops -> GoodLoop], NEW l \in Loops, NEW pc \in Waiting,
         StartLoop(others, l, pc), UNCHANGED best
  PROVE  LoopInv'
<1>1. \E r \in GoodLoop : loops' = [others EXCEPT ![l] = r]
  BY TimerGood DEF StartLoop
<1> QED BY <1>1 DEF LoopInv, GoodLoop, LoopRec

-----------------------------------------------------------------------------
(* The chain the canister follows.  Linked heights are not enough: a block *)
(* is processed because its height is the next one, so every block of the  *)
(* queue and every processed one has the height of its hash.               *)

Elem   == [height : Nat, hash : Blocks]
Ok(p)  == p \in Blk /\ p.height = (IF p.hash = NoBlock THEN 0 ELSE Height[p.hash])
Oks(q) == /\ q \in Seq(Elem)
          /\ \A i \in DOMAIN q : q[i].height = Height[q[i].hash]

Linked(q, t) ==
  /\ q # << >> => t = q[Len(q)]
  /\ \A i \in 2..Len(q) : Prev[q[i].hash] = q[i - 1].hash
  /\ \A i \in DOMAIN q : Under(q[i].hash, t.hash)

\* The block the front of the queue extends; the queue may have lost others.
Beneath(q, t) == IF q = << >> THEN t.hash ELSE Prev[q[1].hash]
OnTop(q, t, p) ==
  p.hash # NoBlock => Under(p.hash, Beneath(q, t)) /\ Under(p.hash, t.hash)

Confirming(p, pb, c) ==
  /\ \A i \in DOMAIN pb : Under(pb[i].hash, p.hash)
  /\ \A i, j \in DOMAIN pb : i <= j => Under(pb[i].hash, pb[j].hash)
  /\ c.hash # NoBlock => /\ Under(c.hash, p.hash)
                         /\ \A i \in DOMAIN pb : Under(c.hash, pb[i].hash)

Chain(q, t, p, pb, c) ==
  /\ Ok(t) /\ Ok(p) /\ Ok(c) /\ Oks(q) /\ Oks(pb)
  /\ Linked(q, t) /\ OnTop(q, t, p) /\ Confirming(p, pb, c)

ChainInv == Chain(queue, tip, processed, processed_blocks, confirmed)

\* Sequences that lose their front, their first elements, or grow at the end.
LEMMA SeqFacts ==
  ASSUME NEW S, NEW q \in Seq(S)
  PROVE  /\ DOMAIN q = 1..Len(q) /\ Len(q) \in Nat /\ q = << >> <=> Len(q) = 0
         /\ \A i \in DOMAIN q : q[i] \in S
  BY ElementOfSeq, EmptySeq, LenProperties

LEMMA SeqTail ==
  ASSUME NEW S, NEW q \in Seq(S), q # << >>
  PROVE  /\ Head(q) = q[1] /\ 1 \in DOMAIN q /\ Tail(q) \in Seq(S)
         /\ Len(Tail(q)) = Len(q) - 1 /\ DOMAIN Tail(q) = 1..(Len(q) - 1)
         /\ Tail(q) = << >> <=> Len(q) = 1
         /\ \A i \in DOMAIN Tail(q) : Tail(q)[i] = q[i + 1] /\ i + 1 \in DOMAIN q
<1>1. Tail(q) \in Seq(S) /\ Len(Tail(q)) = Len(q) - 1
      /\ \A i \in 1..Len(Tail(q)) : Tail(q)[i] = q[i + 1]
  BY HeadTailProperties
<1>2. DOMAIN Tail(q) = 1..Len(Tail(q)) /\ Tail(q) = << >> <=> Len(Tail(q)) = 0
  BY <1>1, SeqFacts
<1>3. DOMAIN q = 1..Len(q) /\ Len(q) \in Nat /\ Len(q) # 0 /\ Head(q) = q[1]
  BY SeqFacts
<1> DEFINE r == Tail(q)
<1>4. /\ r \in Seq(S) /\ Len(r) = Len(q) - 1 /\ DOMAIN r = 1..Len(r)
      /\ (r = << >> <=> Len(r) = 0) /\ \A i \in 1..Len(r) : r[i] = q[i + 1]
  BY <1>1, <1>2
<1> HIDE DEF r
<1>5. /\ r \in Seq(S) /\ Len(r) = Len(q) - 1 /\ DOMAIN r = 1..(Len(q) - 1)
      /\ r = << >> <=> Len(q) = 1
      /\ \A i \in DOMAIN r : r[i] = q[i + 1] /\ i + 1 \in DOMAIN q
  BY <1>3, <1>4
<1> QED BY <1>3, <1>5 DEF r

LEMMA SeqAppend ==
  ASSUME NEW S, NEW q \in Seq(S), NEW e \in S
  PROVE  /\ Append(q, e) \in Seq(S) /\ Append(q, e) # << >>
         /\ Len(Append(q, e)) = Len(q) + 1 /\ DOMAIN Append(q, e) = 1..(Len(q) + 1)
         /\ Append(q, e)[Len(q) + 1] = e
         /\ \A i \in DOMAIN q : Append(q, e)[i] = q[i]
  BY AppendProperties, LenProperties

LEMMA SeqFrom ==
  ASSUME NEW S, NEW q \in Seq(S), NEW i \in DOMAIN q
  PROVE  /\ SubSeq(q, i + 1, Len(q)) \in Seq(S)
         /\ \A j \in DOMAIN SubSeq(q, i + 1, Len(q)) :
              /\ SubSeq(q, i + 1, Len(q))[j] = q[i + j]
              /\ i + j \in DOMAIN q /\ j \in Nat /\ i \in Nat
<1>1. DOMAIN q = 1..Len(q) /\ Len(q) \in Nat /\ i \in Nat /\ i <= Len(q)
      /\ \A k \in (i + 1)..Len(q) : q[k] \in S
  BY SeqFacts
<1> DEFINE r == SubSeq(q, i + 1, Len(q))
<1>2. /\ r \in Seq(S)
      /\ Len(r) = IF i + 1 <= Len(q) THEN Len(q) - (i + 1) + 1 ELSE 0
      /\ \A j \in 1..(Len(q) - (i + 1) + 1) : r[j] = q[(i + 1) + j - 1]
  BY <1>1, SubSeqProperties
<1> HIDE DEF r
<1>3. DOMAIN r = 1..(Len(q) - i)
  BY <1>1, <1>2, SeqFacts
<1>4. \A j \in DOMAIN r : r[j] = q[i + j] /\ i + j \in DOMAIN q /\ j \in Nat /\ i \in Nat
  <2> SUFFICES ASSUME NEW j \in DOMAIN r
               PROVE  r[j] = q[i + j] /\ i + j \in DOMAIN q /\ j \in Nat /\ i \in Nat
    OBVIOUS
  <2>1. j \in 1..(Len(q) - (i + 1) + 1) /\ (i + 1) + j - 1 = i + j
    BY <1>1, <1>3
  <2> QED BY <1>1, <1>2, <2>1
<1> QED BY <1>2, <1>4 DEF r

LEMMA NoBlockUnder == \A a, b : Under(a, b) => a # NoBlock /\ b # NoBlock
  BY UnderHeight, ChainAssumption

LEMMA AtOk ==
  ASSUME NEW b \in Blocks
  PROVE  /\ Ok(At(Height[b], b)) /\ At(Height[b], b) \in Elem
         /\ At(Height[b], b).height = Height[b] /\ At(Height[b], b).hash = b
  BY ChainAssumption DEF Ok, At, Blk, Elem

\* The elements of the queues are such blocks.
LEMMA ElementOk ==
  ASSUME NEW q, Oks(q), NEW i \in DOMAIN q
  PROVE  /\ Ok(q[i]) /\ q[i] \in Elem
         /\ q[i].hash \in Blocks /\ q[i].hash # NoBlock
         /\ q[i].height = Height[q[i].hash] /\ q[i].height \in Nat
<1>1. q[i] \in Elem
  BY SeqFacts DEF Oks
<1> QED BY <1>1, ChainAssumption DEF Elem, Oks, Ok, Blk

LEMMA AppendOk ==
  ASSUME NEW q, Oks(q), NEW e \in Elem, e.height = Height[e.hash]
  PROVE  Oks(Append(q, e))
<1>1. /\ q \in Seq(Elem) /\ \A i \in DOMAIN q : q[i].height = Height[q[i].hash]
      /\ DOMAIN q = 1..Len(q) /\ Len(q) \in Nat
  BY SeqFacts DEF Oks
<1> DEFINE r == Append(q, e)
<1>2. /\ r \in Seq(Elem) /\ DOMAIN r = 1..(Len(q) + 1)
      /\ r[Len(q) + 1] = e /\ \A i \in DOMAIN q : r[i] = q[i]
  BY <1>1, SeqAppend
<1> HIDE DEF r
<1>3. Oks(r)
  BY <1>1, <1>2 DEF Oks
<1> QED BY <1>3 DEF r

LEMMA TailOk == ASSUME NEW q, Oks(q), q # << >> PROVE Oks(Tail(q))
  BY SeqTail DEF Oks

LEMMA SubSeqOk ==
  ASSUME NEW q, Oks(q), NEW i \in DOMAIN q
  PROVE  Oks(SubSeq(q, i + 1, Len(q)))
  BY SeqFrom DEF Oks

\* FetchAppend: the new block extends the tip.
LEMMA AppendKeeps ==
  ASSUME NEW q, NEW t, NEW p, NEW pb, NEW c, Chain(q, t, p, pb, c),
         NEW b \in Blocks, Prev[b] = t.hash
  PROVE  Chain(Append(q, At(Height[b], b)), At(Height[b], b), p, pb, c)
<1> DEFINE e == At(Height[b], b)
           r == Append(q, e)
<1>1. Ok(e) /\ e \in Elem /\ e.height = Height[b] /\ e.hash = b
  BY AtOk
<1> HIDE DEF e
<1>2. Oks(r)
  BY <1>1, AppendOk DEF Chain
<1>3. /\ q \in Seq(Elem) /\ Len(r) = Len(q) + 1
      /\ r # << >> /\ r[Len(r)] = e /\ \A i \in 1..Len(q) : r[i] = q[i]
      /\ DOMAIN q = 1..Len(q) /\ DOMAIN r = 1..Len(q) + 1 /\ Len(q) \in Nat
      /\ q = << >> <=> Len(q) = 0
  BY <1>1, SeqAppend, SeqFacts DEF Chain, Oks
<1> HIDE DEF r
<1>4. \A a : Under(a, t.hash) => Under(a, b)
  <2> SUFFICES ASSUME NEW a, Under(a, t.hash) PROVE Under(a, b)
    OBVIOUS
  <2>1. t.hash # NoBlock
    BY NoBlockUnder
  <2> QED BY <2>1, UnderPrev, UnderTrans
<1>5. Linked(r, e)
  <2>1. \A i \in 2..Len(r) : Prev[r[i].hash] = r[i - 1].hash
    <3> SUFFICES ASSUME NEW i \in 2..Len(r) PROVE Prev[r[i].hash] = r[i - 1].hash
      OBVIOUS
    <3>1. CASE i = Len(r)
      <4>1. i - 1 = Len(q) /\ i - 1 \in 1..Len(q) /\ r[i] = e
        BY <1>3, <3>1
      <4>2. r[i - 1] = t
        BY <1>3, <4>1 DEF Chain, Linked
      <4> QED BY <1>1, <4>1, <4>2
    <3>2. CASE i # Len(r)
      <4>1. i \in 2..Len(q) /\ r[i] = q[i] /\ r[i - 1] = q[i - 1]
        BY <1>3, <3>2
      <4> QED BY <4>1 DEF Chain, Linked
    <3> QED BY <3>1, <3>2
  <2>2. \A i \in DOMAIN r : Under(r[i].hash, e.hash)
    <3> SUFFICES ASSUME NEW i \in DOMAIN r PROVE Under(r[i].hash, b)
      BY <1>1
    <3>1. CASE i = Len(r)
      BY <1>1, <1>3, <3>1, UnderSelf
    <3>2. CASE i # Len(r)
      <4>1. i \in DOMAIN q /\ r[i] = q[i]
        BY <1>3, <3>2
      <4> QED BY <1>4, <4>1 DEF Chain, Linked
    <3> QED BY <3>1, <3>2
  <2> QED BY <1>3, <2>1, <2>2 DEF Linked
<1>6. OnTop(r, e, p)
  <2>1. Beneath(r, e) = Beneath(q, t)
    <3>1. CASE q = << >>
      BY <1>1, <1>3, <3>1 DEF Beneath
    <3>2. CASE q # << >>
      <4>1. r[1] = q[1] /\ r # << >>
        BY <1>3, <3>2
      <4> QED BY <3>2, <4>1 DEF Beneath
    <3> QED BY <3>1, <3>2
  <2> QED BY <1>1, <1>4, <2>1 DEF Chain, OnTop
<1> QED BY <1>1, <1>2, <1>5, <1>6 DEF Chain, e, r

\* What the front of the queue extends.
LEMMA FrontExtends ==
  ASSUME NEW q, NEW t, NEW p, NEW pb, NEW c, Chain(q, t, p, pb, c), q # << >>
  PROVE  /\ 1 \in DOMAIN q /\ Head(q) = q[1] /\ Beneath(q, t) = Prev[q[1].hash]
         /\ Beneath(Tail(q), t) = q[1].hash
         /\ Under(q[1].hash, t.hash)
         /\ p.hash # NoBlock => /\ Prev[q[1].hash] \in Blocks
                                /\ Height[q[1].hash] = Height[Prev[q[1].hash]] + 1
                                /\ Under(p.hash, Prev[q[1].hash])
                                /\ Under(p.hash, q[1].hash)
<1>1. /\ q \in Seq(Elem) /\ 1 \in DOMAIN q /\ Head(q) = q[1]
      /\ Beneath(q, t) = Prev[q[1].hash]
  BY SeqTail DEF Chain, Oks, Beneath
<1>2. Beneath(Tail(q), t) = q[1].hash
  <2>1. CASE Tail(q) = << >>
    <3>1. Len(q) = 1
      BY <1>1, <2>1, SeqTail
    <3> QED BY <2>1, <3>1 DEF Chain, Linked, Beneath
  <2>2. CASE Tail(q) # << >>
    <3>1. Tail(q)[1] = q[2] /\ 2 \in 2..Len(q)
      <4>1. Len(q) # 1 /\ Len(q) \in Nat /\ Len(q) # 0
        BY <1>1, <2>2, SeqTail, SeqFacts
      <4>2. 1 \in 1..(Len(q) - 1) /\ 1 + 1 = 2 /\ 2 \in 2..Len(q)
        <5> SUFFICES ASSUME NEW n \in Nat, n # 0, n # 1
                     PROVE  1 \in 1..(n - 1) /\ 1 + 1 = 2 /\ 2 \in 2..n
          BY <4>1
        <5> QED OBVIOUS
      <4>3. 1 \in DOMAIN Tail(q) => Tail(q)[1] = q[1 + 1]
        BY <1>1, SeqTail
      <4>4. DOMAIN Tail(q) = 1..(Len(q) - 1)
        BY <1>1, SeqTail
      <4> QED BY <4>2, <4>3, <4>4
    <3>2. Prev[q[2].hash] = q[2 - 1].hash
      BY <3>1 DEF Chain, Linked
    <3> QED BY <2>2, <3>1, <3>2 DEF Beneath
  <2> QED BY <2>1, <2>2
<1>3. ASSUME p.hash # NoBlock
      PROVE  /\ Prev[q[1].hash] \in Blocks
             /\ Height[q[1].hash] = Height[Prev[q[1].hash]] + 1
             /\ Under(p.hash, Prev[q[1].hash]) /\ Under(p.hash, q[1].hash)
  <2>1. Under(p.hash, Prev[q[1].hash])
    BY <1>1, <1>3 DEF Chain, OnTop
  <2>2. Prev[q[1].hash] # NoBlock /\ q[1].hash \in Blocks
    BY <1>1, <2>1, NoBlockUnder, ElementOk DEF Chain
  <2> QED BY <2>1, <2>2, UnderPrev, UnderTrans
<1>4. Under(q[1].hash, t.hash)
  BY <1>1 DEF Chain, Linked
<1> QED BY <1>1, <1>2, <1>3, <1>4

LEMMA TailLinked ==
  ASSUME NEW q, NEW t, Oks(q), Linked(q, t), q # << >>
  PROVE  Linked(Tail(q), t)
<1> DEFINE r == Tail(q)
<1>1. /\ Len(r) = Len(q) - 1 /\ Len(q) \in Nat /\ Len(q) > 0
      /\ DOMAIN q = 1..Len(q) /\ DOMAIN r = 1..Len(r)
      /\ \A i \in 1..Len(r) : r[i] = q[i + 1]
      /\ r = << >> <=> Len(r) = 0
  BY SeqTail, SeqFacts DEF Oks
<1> HIDE DEF r
<1>2. r # << >> => t = r[Len(r)]
  <2> SUFFICES ASSUME r # << >> PROVE t = r[Len(r)]
    OBVIOUS
  <2>1. Len(r) \in 1..Len(r) /\ Len(r) + 1 = Len(q)
    BY <1>1
  <2> QED BY <1>1, <2>1 DEF Linked
<1>3. \A i \in 2..Len(r) : Prev[r[i].hash] = r[i - 1].hash
  <2> SUFFICES ASSUME NEW i \in 2..Len(r) PROVE Prev[r[i].hash] = r[i - 1].hash
    OBVIOUS
  <2>1. i + 1 \in 2..Len(q) /\ r[i] = q[i + 1] /\ r[i - 1] = q[(i - 1) + 1] /\ (i - 1) + 1 = (i + 1) - 1
    BY <1>1
  <2> QED BY <2>1 DEF Linked
<1>4. \A i \in DOMAIN r : Under(r[i].hash, t.hash)
  <2>1. \A i \in DOMAIN r : r[i] = q[i + 1] /\ i + 1 \in DOMAIN q
    BY <1>1
  <2> QED BY <2>1 DEF Linked
<1> QED BY <1>2, <1>3, <1>4 DEF Linked, r

\* ProcessOutOfOrder, ProcessFails: the front block is dropped.
LEMMA DropKeeps ==
  ASSUME NEW q, NEW t, NEW p, NEW pb, NEW c, Chain(q, t, p, pb, c), q # << >>
  PROVE  Chain(Tail(q), t, p, pb, c)
<1>1. Oks(Tail(q)) /\ Linked(Tail(q), t)
  BY TailOk, TailLinked DEF Chain
<1>2. OnTop(Tail(q), t, p)
  BY FrontExtends DEF OnTop, Chain
<1> QED BY <1>1, <1>2 DEF Chain

\* ProcessBlock: the front block becomes the processed one.
LEMMA ProcessKeeps ==
  ASSUME NEW q, NEW t, NEW p, NEW pb, NEW c, Chain(q, t, p, pb, c), q # << >>
  PROVE  Chain(Tail(q), t, Head(q), Append(pb, Head(q)), c)
<1> DEFINE e == Head(q)
           r == Append(pb, e)
<1>1. /\ Ok(e) /\ e \in Elem /\ e.hash \in Blocks
      /\ e.height = Height[e.hash] /\ e = q[1]
  BY FrontExtends, ElementOk DEF Chain
<1>2. p.hash # NoBlock => Under(p.hash, e.hash)
  BY <1>1, FrontExtends
<1>3. Beneath(Tail(q), t) = e.hash /\ Under(e.hash, t.hash) /\ Under(e.hash, e.hash)
  BY <1>1, FrontExtends, UnderSelf
<1> HIDE DEF e
<1>4. Oks(r) /\ Oks(Tail(q)) /\ Linked(Tail(q), t)
  BY <1>1, AppendOk, TailOk, TailLinked DEF Chain
<1>5. OnTop(Tail(q), t, e)
  BY <1>3 DEF OnTop
<1>6. /\ DOMAIN pb = 1..Len(pb) /\ DOMAIN r = 1..Len(pb) + 1 /\ Len(pb) \in Nat
      /\ r[Len(pb) + 1] = e /\ \A i \in 1..Len(pb) : r[i] = pb[i]
  BY <1>1, SeqAppend, SeqFacts DEF Chain, Oks
<1> HIDE DEF r
<1>7. \A i \in DOMAIN r : (i \in DOMAIN pb /\ r[i] = pb[i]) \/ (i = Len(pb) + 1 /\ r[i] = e)
  BY <1>6
<1>8. \A a : Under(a, p.hash) => Under(a, e.hash)
  <2> SUFFICES ASSUME NEW a, Under(a, p.hash) PROVE Under(a, e.hash)
    OBVIOUS
  <2> QED BY <1>2, NoBlockUnder, UnderTrans
<1>9. Confirming(e, r, c)
  <2>1. \A i \in DOMAIN r : Under(r[i].hash, e.hash)
    BY <1>3, <1>7, <1>8 DEF Chain, Confirming
  <2>2. \A i, j \in DOMAIN r : i <= j => Under(r[i].hash, r[j].hash)
    <3> SUFFICES ASSUME NEW i \in DOMAIN r, NEW j \in DOMAIN r, i <= j
                 PROVE  Under(r[i].hash, r[j].hash)
      OBVIOUS
    <3>1. CASE r[j] = e
      BY <2>1, <3>1
    <3>2. CASE j \in DOMAIN pb /\ r[j] = pb[j]
      <4>1. i \in DOMAIN pb /\ r[i] = pb[i]
        BY <1>6, <3>2
      <4> QED BY <3>2, <4>1 DEF Chain, Confirming
    <3> QED BY <1>7, <3>1, <3>2
  <2>3. c.hash # NoBlock => /\ Under(c.hash, e.hash)
                            /\ \A i \in DOMAIN r : Under(c.hash, r[i].hash)
    BY <1>7, <1>8 DEF Chain, Confirming
  <2> QED BY <2>1, <2>2, <2>3 DEF Confirming
<1> QED BY <1>1, <1>4, <1>5, <1>9 DEF Chain, e, r

\* Confirm: some processed block, and those after it are left to confirm.
LEMMA ConfirmKeeps ==
  ASSUME NEW q, NEW t, NEW p, NEW pb, NEW c, Chain(q, t, p, pb, c), NEW i \in DOMAIN pb
  PROVE  Chain(q, t, p, SubSeq(pb, i + 1, Len(pb)), pb[i])
<1> DEFINE r == SubSeq(pb, i + 1, Len(pb))
<1>1. Oks(r) /\ Ok(pb[i])
  BY SubSeqOk, ElementOk DEF Chain
<1>2. \A j \in DOMAIN r : r[j] = pb[i + j] /\ i + j \in DOMAIN pb /\ j \in Nat /\ i \in Nat
  BY SeqFrom DEF Chain, Oks
<1>3. /\ \A j \in DOMAIN r : i <= i + j
      /\ \A j, k \in DOMAIN r : j <= k => i + j <= i + k
  BY <1>2
<1> HIDE DEF r
<1>4. Confirming(p, r, pb[i])
  BY <1>2, <1>3 DEF Chain, Confirming
<1> QED BY <1>1, <1>4 DEF Chain, r

\* ConfirmFails and clearing: no processed blocks are left to confirm, and the
\* processed block may go back to the confirmed one.
LEMMA ForgetKeeps ==
  ASSUME NEW q, NEW t, NEW p, NEW pb, NEW c, Chain(q, t, p, pb, c)
  PROVE  Chain(q, t, p, << >>, c) /\ Chain(q, t, c, << >>, c)
<1>1. Oks(<< >>)
  BY EmptySeq DEF Oks
<1>2. c.hash # NoBlock => Under(c.hash, c.hash) /\ Under(c.hash, p.hash)
  BY UnderSelf DEF Chain, Ok, Blk, Confirming
<1>3. OnTop(q, t, c)
  <2> SUFFICES ASSUME c.hash # NoBlock
               PROVE  Under(c.hash, Beneath(q, t)) /\ Under(c.hash, t.hash)
    BY DEF OnTop
  <2>1. p.hash # NoBlock
    BY <1>2, NoBlockUnder
  <2> QED BY <1>2, <2>1, UnderTrans DEF Chain, OnTop
<1>4. Confirming(p, << >>, c) /\ Confirming(c, << >>, c)
  BY <1>2 DEF Confirming
<1> QED BY <1>1, <1>3, <1>4 DEF Chain

\* The queue is emptied, and the tip goes back to the processed block or stays.
LEMMA ClearKeeps ==
  ASSUME NEW q, NEW t, NEW p, NEW pb, NEW c, Chain(q, t, p, pb, c),
         NEW u, u = t \/ (u = p /\ p.height > 0)
  PROVE  Chain(<< >>, u, p, pb, c)
<1>1. Ok(u) /\ Oks(<< >>)
  BY DEF Chain, Oks
<1>2. p.hash # NoBlock => Under(p.hash, u.hash)
  BY UnderSelf DEF Chain, OnTop, Ok, Blk
<1>3. Linked(<< >>, u) /\ OnTop(<< >>, u, p)
  BY <1>2 DEF Linked, OnTop, Beneath
<1> QED BY <1>1, <1>3 DEF Chain

-----------------------------------------------------------------------------
(* Steps *)

\* A step of a loop that leaves everything but the loops alone, or ends in an
\* error or a timer, keeps the loops' invariant.
LEMMA LoopStepKeeps ==
  ASSUME LoopInv, AgentInv, tip.height \in Nat, NEW l \in Loops, LoopSteps(l)
  PROVE  LoopInv'
<1>0. /\ "fetch" \in Waiting /\ "process" \in Waiting /\ "confirm" \in Waiting
      /\ l \in Signers
  BY SyncingAssumption DEF Waiting
<1>1. CASE FetchStart(l)
  <2>1. AskHash(l, rpc_agents) /\ rpc_agents # << >> /\ UNCHANGED best
    BY <1>1 DEF FetchStart, world
  <2> QED BY <2>1, AskKeeps DEF AgentInv
<1>2. CASE FetchNoAgent(l)
  <2>1. loops' = [loops EXCEPT ![l] = IdleLoop] /\ UNCHANGED best
    BY <1>2 DEF FetchNoAgent, world
  <2> QED BY <2>1, TimerKeeps
<1>3. CASE FetchHash(l)
  BY <1>3, FetchHashKeeps
<1>4. CASE FetchWait(l) \/ FetchReorg(l) \/ ProcessNothing(l) \/ ProcessBlock(l)
             \/ ConfirmNothing(l) \/ Confirm(l)
  <2>1. (\E pc \in Waiting : SetTimer(l, pc)) /\ UNCHANGED best
    BY <1>0, <1>4 DEF FetchWait, FetchReorg, ProcessNothing, ProcessBlock, ConfirmNothing,
       Confirm, AfterConfirm, world
  <2> QED BY <2>1, TimerKeeps
<1>5. CASE FetchBlockFails(l) \/ AttestFails(l) \/ ProcessOutOfOrder(l) \/ ProcessFails(l)
             \/ ConfirmFails(l)
  <2>1. (\E e : Stop(l, e)) /\ UNCHANGED best
    BY <1>5 DEF FetchBlockFails, AttestFails, ProcessOutOfOrder, ProcessFails,
       ConfirmFails, world
  <2> QED BY <2>1, TimerKeeps
<1>6. CASE FetchAppend(l)
  <2>1. Attested(l, AttestAgents(rpc_agents)) /\ UNCHANGED best
    BY <1>6 DEF FetchAppend, world
  <2>2. AttestAgents(rpc_agents) \in Seq(Agents)
    BY HeadTailProperties, EmptySeq DEF AttestAgents, AgentInv
  <2> QED BY <2>1, <2>2, AttestedKeeps
<1>7. CASE AttestOk(l)
  <2>1. Attested(l, Tail(loops[l].left)) /\ UNCHANGED best /\ loops[l].pc = "attest"
    BY <1>7 DEF AttestOk, world
  <2>2. loops[l].left \in Seq(Agents) /\ loops[l].left # << >>
    BY <2>1 DEF LoopInv, GoodLoop, LoopRec
  <2>3. Tail(loops[l].left) \in Seq(Agents)
    BY <2>2, HeadTailProperties
  <2> QED BY <2>1, <2>3, AttestedKeeps
<1>8. CASE UpgradedStart(l)
  <2> DEFINE r == [loops[l] EXCEPT !.pc = "tokens"]
  <2>1. loops[l] \in LoopRec
    BY DEF LoopInv, GoodLoop
  <2>2. r \in GoodLoop
    BY <2>1 DEF GoodLoop, LoopRec, Awaiting
  <2>3. loops' = [loops EXCEPT ![l] = r] /\ UNCHANGED best
    BY <1>8, <2>1 DEF UpgradedStart, LoopInv, LoopRec
  <2> HIDE DEF r
  <2> QED BY <2>2, <2>3, OneLoop
<1>9. CASE UpgradedSigned(l)
  <2>1. CASE TokenSigned(l) /\ UNCHANGED <<loops, status>>
    BY <1>9, <2>1 DEF UpgradedSigned, LoopInv, GoodLoop, LoopRec
  <2>2. CASE TokensSigned(l) /\ AskHash(l, rpc_agents')
    <3>1. signing[l] # IdleSigner /\ rpc_agents' = signing[l].list
      BY <2>2 DEF TokensSigned, IdleSigner
    <3>2. rpc_agents' \in Seq(Agents) /\ rpc_agents' # << >> /\ UNCHANGED best
      BY <1>0, <1>9, <3>1 DEF AgentInv, UpgradedSigned
    <3> QED BY <2>2, <3>2, AskKeeps
  <2> QED BY <1>9, <2>1, <2>2 DEF UpgradedSigned
<1>10. CASE UpgradedFails(l)
  <2>1. loops' = [loops EXCEPT ![l] = IdleLoop] /\ UNCHANGED best
    BY <1>10 DEF UpgradedFails
  <2> QED BY <2>1, TimerKeeps
<1> QED BY <1>1, <1>2, <1>3, <1>4, <1>5, <1>6, <1>7, <1>8, <1>9, <1>10
     DEF LoopSteps, FetchAnswers, ProcessSteps, ConfirmSteps, UpgradeSteps

LEMMA LoopsKeep ==
  ASSUME LoopInv, AgentInv, tip.height \in Nat, [Next]_vars
  PROVE  LoopInv'
<1>0. "fetch" \in Waiting /\ "upgraded" \in Waiting
  BY DEF Waiting
<1>1. Cleared \in [Loops -> GoodLoop] /\ loops \in [Loops -> GoodLoop]
      /\ [k \in Loops |-> IdleLoop] \in [Loops -> GoodLoop]
  BY TimerGood DEF Cleared, LoopInv
<1>2. CASE \E l \in Loops : LoopSteps(l)
  BY <1>2, LoopStepKeeps
<1>3. CASE AdminRestart \/ \E s \in {0, 0 - 1, 0 - 2, 0 - 3} : AdminRestartFor(s)
  <2>1. /\ \E l \in Loops : StartLoop(loops, l, "fetch") \/ StartLoop(Cleared, l, "fetch")
        /\ UNCHANGED best
    BY <1>3 DEF AdminRestart, AdminRestartFor, Restarted
  <2> QED BY <1>0, <1>1, <2>1, StartKeeps
<1>4. CASE AdminRestartInvalid
  BY <1>1, <1>4 DEF AdminRestartInvalid, Restarted, LoopInv, GoodLoop, LoopRec
<1>5. CASE Upgrade
  <2>1. /\ \E l \in Loops : StartLoop([k \in Loops |-> IdleLoop], l, "upgraded")
        /\ UNCHANGED best
    BY <1>5 DEF Upgrade
  <2> QED BY <1>0, <1>1, <2>1, StartKeeps
<1>6. CASE \E c \in AgentCalls : AgentStep(c)
  BY <1>6 DEF AgentStep, LoopInv, GoodLoop, LoopRec
<1>7. CASE NewBest
  BY <1>7 DEF NewBest, LoopInv, GoodLoop, LoopRec
<1>8. CASE UNCHANGED vars
  BY <1>8 DEF vars, LoopInv, GoodLoop, LoopRec
<1> QED BY <1>2, <1>3, <1>4, <1>5, <1>6, <1>7, <1>8 DEF Next

\* What a step does to the chain that is followed.
Extend ==
  /\ \E b \in Blocks : /\ Prev[b] = tip.hash
                       /\ queue' = Append(queue, At(Height[b], b))
                       /\ tip' = At(Height[b], b)
  /\ UNCHANGED <<processed, processed_blocks, confirmed>>
BackToProcessed ==
  /\ queue' = << >> /\ tip' = TipReset(processed)
  /\ UNCHANGED <<processed, processed_blocks, confirmed>>
BackToConfirmed ==
  /\ queue' = << >> /\ tip' = TipReset(confirmed)
  /\ processed' = confirmed /\ processed_blocks' = << >>
  /\ UNCHANGED confirmed
DropFront ==
  /\ queue # << >> /\ queue' = Tail(queue)
  /\ UNCHANGED <<tip, processed, processed_blocks, confirmed>>
TakeFront ==
  /\ queue # << >> /\ InOrder(Head(queue).height)
  /\ queue' = Tail(queue) /\ processed' = Head(queue)
  /\ processed_blocks' = Append(processed_blocks, Head(queue))
  /\ UNCHANGED <<tip, confirmed>>
TakeConfirmed ==
  /\ \E i \in DOMAIN processed_blocks :
       /\ confirmed' = processed_blocks[i]
       /\ processed_blocks' = SubSeq(processed_blocks, i + 1, Len(processed_blocks))
  /\ UNCHANGED <<queue, tip, processed>>
ForgetProcessed ==
  /\ processed_blocks' = << >>
  /\ UNCHANGED <<queue, tip, processed, confirmed>>
chain == <<queue, tip, processed, processed_blocks, confirmed>>
ChainMove ==
  \/ Extend \/ BackToProcessed \/ BackToConfirmed \/ DropFront \/ TakeFront
  \/ TakeConfirmed \/ ForgetProcessed \/ UNCHANGED chain

LEMMA ChainMoves == ASSUME LoopInv, [Next]_vars PROVE ChainMove
<1> USE DEF chain
<1>1. ASSUME NEW l \in Loops, LoopSteps(l) PROVE ChainMove
  <2>1. CASE FetchAppend(l)
    <3> DEFINE h == loops[l].height
               b == loops[l].hash
    <3>1. b \in Blocks /\ Height[b] = h
      BY <2>1 DEF FetchAppend, LoopInv, GoodLoop
    <3>2. Prev[b] = tip.hash
      BY <2>1 DEF FetchAppend, Appends
    <3>3. /\ queue' = Append(queue, At(h, b)) /\ tip' = At(h, b)
          /\ UNCHANGED <<processed, processed_blocks, confirmed>>
      BY <2>1 DEF FetchAppend
    <3>4. Extend
      <4> HIDE DEF b, h
      <4> QED BY <3>1, <3>2, <3>3 DEF Extend
    <3> QED BY <3>4 DEF ChainMove
  <2>2. CASE FetchReorg(l)
    BY <2>2 DEF FetchReorg, ClearForConfirm, BackToConfirmed, ChainMove
  <2>3. CASE ProcessOutOfOrder(l)
    BY <2>3 DEF ProcessOutOfOrder, DropFront, ChainMove
  <2>4. CASE ProcessBlock(l)
    BY <2>4 DEF ProcessBlock, TakeFront, ChainMove
  <2>5. CASE ProcessFails(l)
    BY <2>5 DEF ProcessFails, DropFront, ChainMove
  <2>6. CASE Confirm(l)
    BY <2>6 DEF Confirm, AtTarget, TakeConfirmed, ChainMove
  <2>7. CASE ConfirmFails(l)
    BY <2>7 DEF ConfirmFails, ForgetProcessed, ChainMove
  <2>8. CASE UNCHANGED store
    BY <2>8 DEF store, ChainMove
  <2>9. \/ FetchAppend(l) \/ FetchReorg(l) \/ ProcessOutOfOrder(l) \/ ProcessBlock(l)
        \/ ProcessFails(l) \/ Confirm(l) \/ ConfirmFails(l) \/ UNCHANGED store
    BY <1>1 DEF LoopSteps, FetchStart, FetchNoAgent, FetchAnswers, FetchHash, FetchWait,
       FetchBlockFails, AttestOk, AttestFails, ProcessSteps, ProcessNothing,
       ConfirmSteps, ConfirmNothing, UpgradeSteps, UpgradedStart, UpgradedSigned,
       UpgradedFails
  <2> QED BY <2>1, <2>2, <2>3, <2>4, <2>5, <2>6, <2>7, <2>8, <2>9
<1>2. ASSUME NEW s, ResetFor(s) PROVE ChainMove
  BY <1>2 DEF ResetFor, ClearForProcess, ClearForConfirm, store, BackToProcessed,
     BackToConfirmed, ChainMove
<1>3. CASE AdminRestart \/ \E s \in {0, 0 - 1, 0 - 2, 0 - 3} : AdminRestartFor(s)
  BY <1>2, <1>3 DEF AdminRestart, AdminRestartFor
<1>4. CASE Upgrade
  BY <1>4 DEF Upgrade, ClearForProcess, BackToProcessed, ChainMove
<1>5. CASE AdminRestartInvalid \/ NewBest \/ (\E c \in AgentCalls : AgentStep(c))
             \/ UNCHANGED vars
  BY <1>5 DEF AdminRestartInvalid, NewBest, AgentStep, vars, store, ChainMove
<1> QED BY <1>1, <1>3, <1>4, <1>5 DEF Next

LEMMA ChainKeeps == ASSUME ChainInv, ChainMove PROVE ChainInv'
<1> SUFFICES Chain(queue', tip', processed', processed_blocks', confirmed')
  BY DEF ChainInv
<1>0. Chain(queue, tip, processed, processed_blocks, confirmed)
  BY DEF ChainInv
<1>1. CASE Extend
  BY <1>0, <1>1, AppendKeeps DEF Extend
<1>2. CASE BackToProcessed
  BY <1>0, <1>2, ClearKeeps DEF BackToProcessed, TipReset
<1>3. CASE BackToConfirmed
  <2>1. Chain(queue, tip, confirmed, << >>, confirmed)
    BY <1>0, ForgetKeeps
  <2> QED BY <1>3, <2>1, ClearKeeps DEF BackToConfirmed, TipReset
<1>4. CASE DropFront
  BY <1>0, <1>4, DropKeeps DEF DropFront
<1>5. CASE TakeFront
  BY <1>0, <1>5, ProcessKeeps DEF TakeFront
<1>6. CASE TakeConfirmed
  <2>1. PICK i \in DOMAIN processed_blocks :
          /\ confirmed' = processed_blocks[i]
          /\ processed_blocks' = SubSeq(processed_blocks, i + 1, Len(processed_blocks))
    BY <1>6 DEF TakeConfirmed
  <2>2. UNCHANGED <<queue, tip, processed>>
    BY <1>6 DEF TakeConfirmed
  <2>3. Chain(queue, tip, processed,
              SubSeq(processed_blocks, i + 1, Len(processed_blocks)), processed_blocks[i])
    BY <1>0, ConfirmKeeps
  <2> QED BY <2>1, <2>2, <2>3
<1>7. CASE ForgetProcessed
  BY <1>0, <1>7, ForgetKeeps DEF ForgetProcessed
<1>8. CASE UNCHANGED chain
  BY <1>0, <1>8 DEF chain
<1> QED BY <1>1, <1>2, <1>3, <1>4, <1>5, <1>6, <1>7, <1>8 DEF ChainMove

SyncInv == AgentInv /\ TokensRefreshed /\ LoopInv /\ ChainInv

LEMMA SyncInit == ASSUME Init PROVE SyncInv
<1>1. LoopInv
  BY TimerGood, ChainAssumption DEF Init, LoopInv
<1>2. Ok(tip) /\ Ok(processed) /\ Ok(confirmed)
  BY ChainAssumption DEF Init, Ok, Blk, At
<1>3. Oks(queue) /\ Oks(processed_blocks)
  BY EmptySeq DEF Init, Oks
<1>4. processed.hash = NoBlock /\ confirmed.hash = NoBlock
      /\ queue = << >> /\ processed_blocks = << >>
  BY DEF Init, At
<1>5. Linked(queue, tip) /\ OnTop(queue, tip, processed)
      /\ Confirming(processed, processed_blocks, confirmed)
  BY <1>4 DEF Linked, OnTop, Confirming
<1> QED BY <1>1, <1>2, <1>3, <1>5, AgentInit DEF SyncInv, ChainInv, Chain

LEMMA SyncStep == ASSUME SyncInv, [Next]_vars PROVE SyncInv'
<1>1. tip.height \in Nat
  BY DEF SyncInv, ChainInv, Chain, Ok, Blk
<1>2. AgentInv' /\ TokensRefreshed'
  BY AgentMoves, AgentStepKeeps DEF SyncInv
<1>3. LoopInv'
  BY <1>1, LoopsKeep DEF SyncInv
<1>4. ChainInv'
  BY ChainMoves, ChainKeeps DEF SyncInv
<1> QED BY <1>2, <1>3, <1>4 DEF SyncInv

LEMMA SyncAlways == Spec => []SyncInv
  BY SyncInit, SyncStep, PTL DEF Spec

-----------------------------------------------------------------------------
(* What follows from the invariant *)

\* A block that is accepted for its height extends the processed block.
LEMMA NextExtends ==
  ASSUME ChainInv, queue # << >>, processed.height > 0, InOrder(Head(queue).height)
  PROVE  Prev[Head(queue).hash] = processed.hash
<1> DEFINE f == queue[1].hash
<1>0. Chain(queue, tip, processed, processed_blocks, confirmed)
  BY DEF ChainInv
<1>1. processed.hash # NoBlock /\ processed.height = Height[processed.hash]
  BY <1>0 DEF Chain, Ok
<1>2. /\ 1 \in DOMAIN queue /\ Head(queue) = queue[1]
      /\ Under(processed.hash, Prev[f]) /\ Height[f] = Height[Prev[f]] + 1
  BY <1>0, <1>1, FrontExtends
<1>3. Head(queue).height = Height[f] /\ Head(queue).height = processed.height + 1
  BY <1>0, <1>2, ElementOk DEF Chain, InOrder
<1>4. /\ Height[processed.hash] \in Nat /\ Height[Prev[f]] \in Nat
      /\ Height[processed.hash] = Height[Prev[f]] => processed.hash = Prev[f]
  BY <1>2, UnderHeight
<1> HIDE DEF f
<1>5. processed.hash = Prev[f]
  BY <1>1, <1>2, <1>3, <1>4
<1> QED BY <1>2, <1>5 DEF f

LEMMA ImpliesQueueLinked == ASSUME ChainInv PROVE QueueLinked
<1>0. Chain(queue, tip, processed, processed_blocks, confirmed)
  BY DEF ChainInv
<1>1. queue \in Seq(Elem) /\ DOMAIN queue = 1..Len(queue) /\ Len(queue) \in Nat
  BY <1>0, SeqFacts DEF Chain, Oks
<1>2. ASSUME NEW i \in 2..Len(queue)
      PROVE  /\ queue[i].height = queue[i - 1].height + 1
             /\ Prev[queue[i].hash] = queue[i - 1].hash
  <2>1. Prev[queue[i].hash] = queue[i - 1].hash
    BY <1>0 DEF Chain, Linked
  <2>2. i \in DOMAIN queue /\ i - 1 \in DOMAIN queue
    BY <1>1
  <2>3. /\ queue[i].hash \in Blocks /\ queue[i].height = Height[queue[i].hash]
        /\ queue[i - 1].hash # NoBlock /\ queue[i - 1].height = Height[queue[i - 1].hash]
    BY <1>0, <2>2, ElementOk DEF Chain
  <2> QED BY <2>1, <2>3, UnderPrev
<1>3. queue # << >> => tip = Last(queue)
  BY <1>0 DEF Chain, Linked, Last
<1> QED BY <1>2, <1>3, NextExtends DEF QueueLinked

LEMMA ImpliesOneChain == ASSUME ChainInv PROVE OnOneChain
<1>0. Chain(queue, tip, processed, processed_blocks, confirmed)
  BY DEF ChainInv
<1>1. Ok(tip) /\ Ok(processed) /\ Ok(confirmed)
  BY <1>0 DEF Chain
<1>2. processed.hash # NoBlock => Under(processed.hash, tip.hash)
  BY <1>0 DEF Chain, OnTop
<1>3. confirmed.hash # NoBlock => Under(confirmed.hash, processed.hash)
  BY <1>0 DEF Chain, Confirming
<1>4. ASSUME NEW p, NEW q, Ok(p), Ok(q), p.hash # NoBlock => Under(p.hash, q.hash)
      PROVE  p.height <= q.height
  <2>1. CASE p.hash = NoBlock
    BY <1>4, <2>1 DEF Ok, Blk
  <2>2. CASE p.hash # NoBlock
    <3>1. Under(p.hash, q.hash) /\ q.hash # NoBlock
      BY <1>4, <2>2, NoBlockUnder
    <3> QED BY <1>4, <2>2, <3>1, UnderHeight DEF Ok
  <2> QED BY <2>1, <2>2
<1>5. processed.height > 0 => processed.hash # NoBlock
  BY <1>1 DEF Ok
<1> QED BY <1>1, <1>2, <1>3, <1>4, <1>5 DEF OnOneChain, Under

LEMMA ProcessedStep ==
  ASSUME SyncInv, Next, processed' # processed, processed.height > 0
  PROVE  processed' = confirmed \/ Prev[processed'.hash] = processed.hash
<1>1. BackToConfirmed \/ TakeFront
  BY ChainMoves DEF SyncInv, ChainMove, Extend, BackToProcessed, DropFront, TakeConfirmed,
     ForgetProcessed, chain
<1>2. CASE BackToConfirmed
  BY <1>2 DEF BackToConfirmed
<1>3. CASE TakeFront
  BY <1>3, NextExtends DEF TakeFront, SyncInv
<1> QED BY <1>1, <1>2, <1>3

LEMMA ConfirmedStep ==
  ASSUME SyncInv, Next, confirmed' # confirmed, confirmed.hash # NoBlock
  PROVE  confirmed'.hash \in Blocks /\ confirmed.hash \in Ancestors[confirmed'.hash]
<1>1. TakeConfirmed
  BY ChainMoves DEF SyncInv, ChainMove, Extend, BackToProcessed, BackToConfirmed,
     DropFront, TakeFront, ForgetProcessed, chain
<1>2. \A i \in DOMAIN processed_blocks : Under(confirmed.hash, processed_blocks[i].hash)
  BY DEF SyncInv, ChainInv, Chain, Confirming
<1> QED BY <1>1, <1>2 DEF TakeConfirmed, Under

-----------------------------------------------------------------------------
(* The theorems *)

\* Whatever loops overlap, whichever answers are late or made up and wherever
\* a restart or an upgrade comes: the queue is a chain that ends with the tip,
\* and a block process_block accepts extends the processed one, although only
\* heights are compared.
THEOREM QueueStaysLinked == Spec => []QueueLinked
<1>1. SyncInv => QueueLinked
  BY ImpliesQueueLinked DEF SyncInv
<1> QED BY <1>1, SyncAlways, PTL

\* The confirmed block, the processed block and the tip lie on one chain.
THEOREM StaysOnOneChain == Spec => []OnOneChain
<1>1. SyncInv => OnOneChain
  BY ImpliesOneChain DEF SyncInv
<1> QED BY <1>1, SyncAlways, PTL

\* Processing goes on from the processed or from the confirmed block.
THEOREM ProcessingExtends == Spec => ProcessedExtends
<1>1. SyncInv /\ [Next]_vars =>
        [processed.height > 0 =>
           \/ processed' = confirmed
           \/ Prev[processed'.hash] = processed.hash]_processed
  BY ProcessedStep DEF vars, store
<1> QED BY <1>1, SyncAlways, PTL DEF Spec, ProcessedExtends

\* The minter's UTXOs rest on confirmed blocks: none is ever replaced by one
\* that does not extend it, by a fork, a restart or an upgrade.
THEOREM ConfirmedNeverReplaced == Spec => ConfirmedStays
<1>1. SyncInv /\ [Next]_vars =>
        [confirmed.hash # NoBlock =>
           /\ confirmed'.hash \in Blocks
           /\ confirmed.hash \in Ancestors[confirmed'.hash]]_confirmed
  BY ConfirmedStep DEF vars, store
<1> QED BY <1>1, SyncAlways, PTL DEF Spec, ConfirmedStays

-----------------------------------------------------------------------------
(* ProcessedIsBest: the inductive invariant.  A block that is processed was *)
(* attested, or blocks that were fetched after it have been, and an honest  *)
(* attester vouches for all the blocks under the one it answers with.       *)

SingleLoop == \A k, l \in Loops : k = l
HonestAgents ==
  /\ \A list \in AgentLists : HonestlyAttested(list)
  /\ FirstAgents # << >> => HonestlyAttested(FirstAgents)

\* The list in use and those a call will write back.
HonestLists ==
  /\ rpc_agents # << >> => HonestlyAttested(rpc_agents)
  /\ \A s \in Signers : signing[s] # IdleSigner => HonestlyAttested(signing[s].list)

\* Somebody honest is still to be asked.
HonestLeft(left) == \E i \in DOMAIN left : left[i] \notin Liars
LoopBest(l) ==
  /\ loops[l].pc \in {"hash", "block", "attest"} => rpc_agents # << >>
  /\ loops[l].pc = "attest" =>
       /\ tip = At(loops[l].height, loops[l].hash)
       /\ Under(tip.hash, best) \/ HonestLeft(loops[l].left)
  /\ loops[l].pc \in {"process", "confirm"} /\ queue # << >> => Under(tip.hash, best)

BestInv ==
  /\ HonestLists
  /\ processed.hash # NoBlock => Under(processed.hash, best)
  /\ \A l \in Loops : LoopBest(l)

LEMMA HonestMoves ==
  ASSUME HonestAgents, AgentInv, TokensRefreshed, HonestLists, AgentMove
  PROVE  HonestLists' /\ (rpc_agents # << >> => rpc_agents' # << >>)
<1>0. signing \in [Signers -> Range(signing)]
  BY DEF AgentInv, Range
<1>1. ASSUME NEW s \in Signers, NEW list, NEW set, HonestlyAttested(list), Sign(s, list, set),
             UNCHANGED <<rpc_agents, refresh_timer>>
      PROVE  HonestLists'
  <2>1. \A k \in Signers : signing'[k] = signing[k] \/ signing'[k].list = list
    BY <1>0, <1>1 DEF Sign
  <2> QED BY <1>1, <2>1 DEF HonestLists
<1>2. CASE UNCHANGED agents
  BY <1>2 DEF agents, HonestLists
<1>3. CASE UpgradeAgents
  BY <1>3 DEF UpgradeAgents, HonestLists
<1>4. ASSUME NEW s \in Signers, NEW list \in AgentLists, AdminSetAgent(s, list)
      PROVE  HonestLists' /\ UNCHANGED rpc_agents
  BY <1>1, <1>4 DEF AdminSetAgent, HonestAgents
<1>5. ASSUME NEW s \in Signers, Refresh(s) PROVE HonestLists' /\ UNCHANGED rpc_agents
  <2>1. CASE rpc_agents = << >>
    BY <1>5, <2>1 DEF Refresh, HonestLists
  <2>2. CASE rpc_agents # << >>
    BY <1>1, <1>5, <2>2 DEF Refresh, HonestLists
  <2> QED BY <2>1, <2>2
<1>6. ASSUME NEW s \in Signers, TokenSigned(s) PROVE HonestLists' /\ UNCHANGED rpc_agents
  <2>1. signing[s] # IdleSigner
    BY <1>6 DEF TokenSigned, IdleSigner
  <2>2. \A k \in Signers : \/ signing'[k] = signing[k]
                           \/ k = s /\ signing'[k].list = signing[s].list
    BY <1>0, <1>6 DEF TokenSigned, AgentInv
  <2> QED BY <1>6, <2>1, <2>2 DEF TokenSigned, HonestLists
<1>7. ASSUME NEW s \in Signers, TokensSigned(s)
      PROVE  HonestLists' /\ rpc_agents' # << >>
  <2>1. signing[s] # IdleSigner
    BY <1>7 DEF TokensSigned, IdleSigner
  <2> QED BY <1>0, <1>7, <2>1 DEF TokensSigned, HonestLists, AgentInv
<1>8. ASSUME NEW s \in Signers, SignFails(s) PROVE HonestLists' /\ UNCHANGED rpc_agents
  BY <1>0, <1>8 DEF SignFails, HonestLists
<1> QED BY <1>2, <1>3, <1>4, <1>5, <1>6, <1>7, <1>8 DEF AgentMove, agents, UpgradeAgents

LEMMA BestMoves == ASSUME [Next]_vars PROVE UNCHANGED best \/ NewBest
  BY DEF Next, vars, AdminRestart, AdminRestartFor, AdminRestartInvalid, Restarted, Upgrade,
     AgentStep, LoopSteps, FetchStart, FetchNoAgent, FetchAnswers, FetchHash, FetchWait,
     FetchBlockFails, FetchAppend, FetchReorg, AttestOk, AttestFails, ProcessSteps,
     ProcessNothing, ProcessOutOfOrder, ProcessBlock, ProcessFails, ConfirmSteps,
     ConfirmNothing, Confirm, ConfirmFails, UpgradeSteps, UpgradedStart, UpgradedSigned,
     UpgradedFails, world

\* Without forks the best chain only grows.
LEMMA BestGrows ==
  ASSUME ReorgDepth = 0, LoopInv, [Next]_vars, NEW b, Under(b, best) PROVE Under(b, best')
<1>1. CASE UNCHANGED best
  BY <1>1
<1>2. CASE NewBest
  <2>1. best \in Blocks /\ Under(best, best) /\ Height[best] \in Nat
    BY UnderSelf, ChainAssumption DEF LoopInv
  <2>2. best \in Ancestors[best'] /\ best' \in Blocks
    BY <1>2, <2>1 DEF NewBest, Under
  <2> QED BY <2>2, UnderTrans DEF Under
<1> QED BY <1>1, <1>2, BestMoves

LEMMA FrontBest ==
  ASSUME ChainInv, queue # << >>, Under(tip.hash, best) PROVE Under(Head(queue).hash, best)
<1>1. queue \in Seq(Elem) /\ \A i \in DOMAIN queue : Under(queue[i].hash, tip.hash)
  BY DEF ChainInv, Chain, Oks, Linked
<1>2. 1 \in DOMAIN queue /\ Head(queue) = queue[1]
  BY <1>1
<1> QED BY <1>1, <1>2, UnderTrans

LEMMA ProcessedBest ==
  ASSUME ReorgDepth = 0, LoopInv, ChainInv, BestInv, [Next]_vars, processed'.hash # NoBlock
  PROVE  Under(processed'.hash, best')
<1>1. CASE UNCHANGED processed
  BY <1>1, BestGrows DEF BestInv
<1>2. CASE processed' = confirmed
  <2>1. Under(confirmed.hash, processed.hash)
    BY <1>2 DEF ChainInv, Chain, Confirming
  <2>2. Under(processed.hash, best)
    BY <2>1, NoBlockUnder DEF BestInv
  <2> QED BY <1>2, <2>1, <2>2, UnderTrans, BestGrows
<1>3. ASSUME NEW l \in Loops, ProcessBlock(l) PROVE Under(processed'.hash, best')
  <2>1. /\ loops[l].pc = "process" /\ queue # << >> /\ processed' = Head(queue)
    BY <1>3 DEF ProcessBlock
  <2> QED BY <2>1, FrontBest, BestGrows DEF BestInv, LoopBest
<1>4. UNCHANGED processed \/ processed' = confirmed \/ \E l \in Loops : ProcessBlock(l)
  BY DEF Next, vars, AdminRestart, AdminRestartFor, AdminRestartInvalid, ResetFor,
     ClearForProcess, ClearForConfirm, Upgrade, NewBest, AgentStep, LoopSteps, FetchStart,
     FetchNoAgent, FetchAnswers, FetchHash, FetchWait, FetchBlockFails, FetchAppend,
     FetchReorg, AttestOk, AttestFails, ProcessSteps, ProcessNothing, ProcessOutOfOrder,
     ProcessFails, ConfirmSteps, ConfirmNothing, Confirm, ConfirmFails, UpgradeSteps,
     UpgradedStart, UpgradedSigned, UpgradedFails, store
<1> QED BY <1>1, <1>2, <1>3, <1>4

\* A timer of these kinds, or a loop that has ended, has nothing to show.
Blank == {"off", "fetch", "upgraded", "tokens"}
LEMMA BlankBest == ASSUME NEW l \in Loops, loops'[l].pc \in Blank PROVE LoopBest(l)'
  BY DEF Blank, LoopBest

LEMMA FetchBest ==
  ASSUME SyncInv, BestInv, NEW l \in Loops, FetchAppend(l) PROVE LoopBest(l)'
<1>1. rpc_agents # << >> /\ HonestlyAttested(rpc_agents) /\ rpc_agents \in Seq(Agents)
  BY DEF FetchAppend, BestInv, LoopBest, HonestLists, SyncInv, AgentInv
<1>2. HonestLeft(AttestAgents(rpc_agents)) /\ AttestAgents(rpc_agents) # << >>
  <2>1. PICK i \in 2..Len(rpc_agents) : rpc_agents[i] \notin Liars
    BY <1>1 DEF HonestlyAttested
  <2>2. /\ AttestAgents(rpc_agents) = Tail(rpc_agents)
        /\ i - 1 \in DOMAIN Tail(rpc_agents) /\ Tail(rpc_agents)[i - 1] = rpc_agents[i]
    BY <1>1, <2>1 DEF AttestAgents
  <2>3. Tail(rpc_agents) # << >>
    BY <2>2
  <2> QED BY <2>1, <2>2, <2>3 DEF HonestLeft
<1>3. /\ loops' = [loops EXCEPT ![l].pc = "attest", ![l].left = AttestAgents(rpc_agents)]
      /\ tip' = At(loops[l].height, loops[l].hash) /\ UNCHANGED rpc_agents
  BY <1>2 DEF FetchAppend, Attested, world, agents
<1>4. loops \in [Loops -> LoopRec]
  BY DEF SyncInv, LoopInv, GoodLoop
<1>5. /\ loops'[l].pc = "attest" /\ loops'[l].left = AttestAgents(rpc_agents)
      /\ loops'[l].height = loops[l].height /\ loops'[l].hash = loops[l].hash
  BY <1>3, <1>4 DEF LoopRec
<1> QED BY <1>1, <1>2, <1>3, <1>5 DEF LoopBest

LEMMA AttestBest ==
  ASSUME SyncInv, BestInv, NEW l \in Loops, AttestOk(l) PROVE LoopBest(l)'
<1> DEFINE left == loops[l].left
<1>1. /\ loops[l].pc = "attest" /\ left \in Seq(Agents) /\ left # << >>
      /\ loops[l].hash \in AgentAt(Head(left), loops[l].height)
      /\ Attested(l, Tail(left)) /\ UNCHANGED <<tip, queue, rpc_agents, best>>
      /\ loops \in [Loops -> LoopRec]
  BY DEF AttestOk, SyncInv, LoopInv, GoodLoop, LoopRec, world, agents, store
<1>2. /\ tip.hash = loops[l].hash /\ tip = At(loops[l].height, loops[l].hash)
      /\ rpc_agents # << >>
      /\ Under(tip.hash, best) \/ HonestLeft(left)
  BY <1>1 DEF BestInv, LoopBest, At
<1>3. Under(tip.hash, best) \/ HonestLeft(Tail(left))
  <2>1. CASE Head(left) \notin Liars
    <3>1. loops[l].hash \in Ancestors[best] /\ best \in Blocks
      BY <1>1, <2>1 DEF AgentAt, Lies, BestAt, SyncInv, LoopInv
    <3> QED BY <1>2, <3>1 DEF Under
  <2>2. CASE Head(left) \in Liars /\ HonestLeft(left)
    <3>1. PICK i \in DOMAIN left : left[i] \notin Liars
      BY <2>2 DEF HonestLeft
    <3>2. i \in 2..Len(left)
      BY <1>1, <2>2, <3>1
    <3>3. i - 1 \in DOMAIN Tail(left) /\ Tail(left)[i - 1] = left[i]
      BY <1>1, <3>2
    <3> QED BY <3>1, <3>3 DEF HonestLeft
  <2> QED BY <1>2, <2>1, <2>2
<1>4. CASE Tail(left) = << >>
  <2>1. loops'[l].pc = "process"
    BY <1>1, <1>4 DEF Attested, SetTimer, IdleLoop
  <2>2. ~HonestLeft(Tail(left))
    BY <1>4 DEF HonestLeft
  <2> QED BY <1>1, <1>3, <2>1, <2>2 DEF LoopBest
<1>5. CASE Tail(left) # << >>
  <2>1. loops' = [loops EXCEPT ![l].pc = "attest", ![l].left = Tail(left)]
    BY <1>1, <1>5 DEF Attested
  <2>2. /\ loops'[l].pc = "attest" /\ loops'[l].left = Tail(left)
        /\ loops'[l].height = loops[l].height /\ loops'[l].hash = loops[l].hash
    BY <1>1, <2>1 DEF LoopRec
  <2> HIDE DEF left
  <2> QED BY <1>1, <1>2, <1>3, <2>2 DEF LoopBest
<1> QED BY <1>4, <1>5

LEMMA LoopStepBest ==
  ASSUME SyncInv, BestInv, NEW l \in Loops, LoopSteps(l),
         rpc_agents # << >> => rpc_agents' # << >>
  PROVE  LoopBest(l)'
<1>0. loops \in [Loops -> LoopRec]
  BY DEF SyncInv, LoopInv, GoodLoop
<1>1. CASE FetchStart(l)
  <2>1. loops'[l].pc = "hash" /\ rpc_agents # << >>
    BY <1>0, <1>1 DEF FetchStart, AskHash, IdleLoop
  <2> QED BY <2>1 DEF LoopBest
<1>2. CASE FetchHash(l)
  <2>1. loops[l].pc = "hash" /\ loops'[l].pc = "block"
    BY <1>0, <1>2 DEF FetchHash, LoopRec
  <2> QED BY <2>1 DEF BestInv, LoopBest
<1>3. CASE ProcessBlock(l)
  <2>1. /\ loops[l].pc = "process" /\ loops'[l].pc = "confirm" /\ queue # << >>
        /\ UNCHANGED <<tip, best>>
    BY <1>0, <1>3 DEF ProcessBlock, SetTimer, IdleLoop, world
  <2> QED BY <2>1 DEF BestInv, LoopBest
<1>4. CASE ConfirmNothing(l) \/ Confirm(l)
  <2>1. /\ loops[l].pc = "confirm" /\ loops'[l].pc \in {"process", "fetch"}
        /\ UNCHANGED <<tip, queue, best>>
    BY <1>0, <1>4 DEF ConfirmNothing, Confirm, AfterConfirm, SetTimer, IdleLoop, world, store
  <2> QED BY <2>1 DEF BestInv, LoopBest
<1>5. CASE FetchNoAgent(l) \/ FetchWait(l) \/ FetchReorg(l) \/ ProcessNothing(l)
           \/ FetchBlockFails(l) \/ AttestFails(l) \/ ProcessOutOfOrder(l)
           \/ ProcessFails(l) \/ ConfirmFails(l) \/ UpgradedFails(l)
  <2>1. loops'[l].pc \in Blank
    BY <1>0, <1>5 DEF FetchNoAgent, FetchWait, FetchReorg, ProcessNothing, FetchBlockFails,
       AttestFails, ProcessOutOfOrder, ProcessFails, ConfirmFails, UpgradedFails, SetTimer,
       Stop, IdleLoop, Blank
  <2> QED BY <2>1, BlankBest
<1>6. CASE UpgradedStart(l)
  <2>1. loops'[l].pc \in Blank
    BY <1>0, <1>6 DEF UpgradedStart, LoopRec, Blank
  <2> QED BY <2>1, BlankBest
<1>7. CASE UpgradedSigned(l)
  <2>1. CASE UNCHANGED loops
    <3>1. loops'[l].pc \in Blank
      BY <1>7, <2>1 DEF UpgradedSigned, Blank
    <3> QED BY <3>1, BlankBest
  <2>2. CASE TokensSigned(l) /\ AskHash(l, rpc_agents')
    <3>1. loops'[l].pc = "hash"
      BY <1>0, <2>2 DEF AskHash, IdleLoop
    <3>2. rpc_agents' # << >>
      <4>1. l \in Signers /\ signing[l] # IdleSigner
        BY <2>2, SyncingAssumption DEF TokensSigned, IdleSigner
      <4> QED BY <2>2, <4>1 DEF TokensSigned, SyncInv, AgentInv
    <3> QED BY <3>1, <3>2 DEF LoopBest
  <2> QED BY <1>7, <2>1, <2>2 DEF UpgradedSigned
<1> QED BY <1>1, <1>2, <1>3, <1>4, <1>5, <1>6, <1>7, FetchBest, AttestBest
     DEF LoopSteps, FetchAnswers, ProcessSteps, ConfirmSteps, UpgradeSteps

LEMMA BestKeeps ==
  ASSUME SingleLoop, ReorgDepth = 0, HonestAgents, SyncInv, BestInv, [Next]_vars
  PROVE  BestInv'
<1>1. HonestLists' /\ (rpc_agents # << >> => rpc_agents' # << >>)
  BY AgentMoves, HonestMoves DEF SyncInv, BestInv
<1>2. processed'.hash # NoBlock => Under(processed'.hash, best')
  BY ProcessedBest DEF SyncInv
<1>3. ASSUME NEW l \in Loops PROVE LoopBest(l)'
  <2>1. ASSUME NEW k \in Loops, LoopSteps(k) PROVE LoopBest(l)'
    BY <1>1, <2>1, LoopStepBest DEF SingleLoop
  <2>2. ASSUME loops'[l] = loops[l], UNCHANGED <<tip, queue>> PROVE LoopBest(l)'
    BY <1>1, <2>2, BestGrows DEF BestInv, LoopBest, SyncInv
  <2>3. ASSUME NEW others, NEW k \in Loops, NEW pc \in Blank, StartLoop(others, k, pc),
               l \in DOMAIN others
        PROVE  LoopBest(l)'
    <3>1. loops'[l].pc \in Blank
      BY <2>3 DEF StartLoop, SingleLoop, IdleLoop
    <3> QED BY <3>1, BlankBest
  <2>4. DOMAIN loops = Loops /\ DOMAIN Cleared = Loops
    BY DEF SyncInv, LoopInv, Cleared
  <2>5. CASE AdminRestart \/ \E s \in {0, 0 - 1, 0 - 2, 0 - 3} : AdminRestartFor(s)
    BY <2>3, <2>4, <2>5 DEF AdminRestart, AdminRestartFor, Blank
  <2>6. CASE Upgrade
    BY <2>3, <2>6 DEF Upgrade, Blank
  <2>7. CASE AdminRestartInvalid
    <3>1. loops'[l] = loops[l] \/ loops'[l].pc \in Blank
      BY <2>4, <2>7 DEF AdminRestartInvalid, Cleared, IdleLoop, Blank
    <3>2. UNCHANGED <<tip, queue>>
      BY <2>7 DEF AdminRestartInvalid, store
    <3> QED BY <2>2, <3>1, <3>2, BlankBest
  <2>8. CASE NewBest \/ (\E c \in AgentCalls : AgentStep(c)) \/ UNCHANGED vars
    BY <2>2, <2>8 DEF NewBest, AgentStep, vars, store
  <2> QED BY <2>1, <2>5, <2>6, <2>7, <2>8 DEF Next
<1> QED BY <1>1, <1>2, <1>3 DEF BestInv

\* An agent that makes up blocks cannot get one processed: one loop, an honest
\* attester on every list and a best chain that only grows are enough, for any
\* number of failures, restarts, upgrades and changes of the agents.
THEOREM NeverFooled ==
  ASSUME SingleLoop, ReorgDepth = 0,
         FirstAgents # << >> => HonestlyAttested(FirstAgents)
  PROVE  Spec => []ProcessedIsBest
<1>1. CASE \A list \in AgentLists : HonestlyAttested(list)
  <2>1. Init => BestInv
    BY <1>1 DEF Init, InitAgents, BestInv, HonestLists, LoopBest, IdleLoop, At
  <2>2. SyncInv /\ BestInv /\ [Next]_vars => BestInv'
    BY <1>1, BestKeeps DEF HonestAgents
  <2>3. BestInv => ProcessedIsBest
    BY DEF BestInv, ProcessedIsBest, Under
  <2> QED BY <2>1, <2>2, <2>3, SyncAlways, PTL DEF Spec
<1>2. CASE ~\A list \in AgentLists : HonestlyAttested(list)
  <2>1. ProcessedIsBest
    BY <1>2 DEF ProcessedIsBest
  <2> QED BY <2>1, PTL
<1> QED BY <1>1, <1>2

-----------------------------------------------------------------------------
(* The index.  What it says of the outputs O that a chain has created and   *)
(* of the spendings S of that chain, each with its height:                  *)
(* Shape  an entry of a transaction is at the height of a block of M that   *)
(*        has it;                                                           *)
(* Live   a UTXO of uts is of O, unspent in its transaction and in S;       *)
(* Marks  a spending of sts is in its transaction and in S;                 *)
(* Stable a UTXO of stable_utxos is of O, and when S spends it, or its      *)
(*        transaction has it spent, sts says so with the height.            *)
(* Processing, confirming and clearing keep these for the O and the S of    *)
(* the chain that is followed then.                                         *)

\* The outputs a transaction creates in a block of height h, and the outputs
\* its first k inputs spend, with the height.
CreatedBy(t, h) == {[height |-> h, tx |-> t, vout |-> v] :
                      v \in {w \in 1..OutCount[t] : Pays(t, w)}}
Spendings(t, h, k) == {<<Ins[t][i], h>> : i \in 1..k}

\* What a chain spends, with the heights.
SpentBlock(b) == UNION {Spendings(TxAt(b, i), Height[b], Len(Ins[TxAt(b, i)])) :
                          i \in 1..TxCount(b)}
Spent(C) == UNION {SpentBlock(b) : b \in C}

IsUtxo(u) == u = [height |-> u.height, tx |-> u.tx, vout |-> u.vout]
UtxSet(t) == [height : Nat, spent : [1..OutCount[t] -> Nat]]

IsIndex(ix) == DOMAIN ix = {"utxs", "uts", "sts", "stable_utxs", "stable_utxos", "ok"}
InBlock(t, utx, M) == \E b \in M : t \in Txs(b) /\ Height[b] = utx.height
Entry(t, utx, M) == t \in DOMAIN OutCount /\ utx \in UtxSet(t) /\ InBlock(t, utx, M)
Entries(utxs, M) == \A t \in DOMAIN utxs : Entry(t, utxs[t], M)
Shape(ix, M) == IsIndex(ix) /\ Entries(ix.utxs, M) /\ Entries(ix.stable_utxs, M)

Has(utxs, u) == u.tx \in DOMAIN utxs /\ utxs[u.tx].height = u.height
Live(ix, O, S) ==
  \A u \in ix.uts : /\ u \in O /\ Has(ix.utxs, u) /\ ix.utxs[u.tx].spent[u.vout] = 0
                    /\ \A s \in S : s[1] # Point(u)
Marks(ix, O, S) ==
  \A u \in DOMAIN ix.sts : /\ IsUtxo(u) /\ Has(ix.utxs, u) /\ u.vout \in 1..OutCount[u.tx]
                           /\ ix.utxs[u.tx].spent[u.vout] = ix.sts[u]
                           /\ <<Point(u), ix.sts[u]>> \in S
Stable(ix, O, S) ==
  \A u \in ix.stable_utxos :
     /\ u \in O /\ Has(ix.stable_utxs, u) /\ ix.stable_utxs[u.tx].spent[u.vout] = 0
     /\ u.tx \in DOMAIN ix.utxs =>
          /\ Has(ix.utxs, u)
          /\ ix.utxs[u.tx].spent[u.vout] # 0 =>
               u \in DOMAIN ix.sts /\ ix.sts[u] = ix.utxs[u.tx].spent[u.vout]
     /\ \A s \in S : s[1] = Point(u) => u \in DOMAIN ix.sts /\ ix.sts[u] = s[2]

Facts(ix, O, S) == Live(ix, O, S) /\ Marks(ix, O, S) /\ Stable(ix, O, S) /\ ix.ok

-----------------------------------------------------------------------------
(* The folds over inputs and over transactions, as recursions              *)

Step(k, x, e, h) == IF k = "in" THEN SpendInput(x, e, h) ELSE ProcessTx(x, e, h)
StepAt(k, base, seq, h, g, s) ==
  IF s = {} THEN base ELSE Step(k, g[s \ {Max(s)}], seq[Max(s)], h)
IsSteps(k, base, seq, h, n, g) ==
  g = [s \in SUBSET (1..n) |-> StepAt(k, base, seq, h, g, s)]

Steps(k, base, seq, h, n) == CHOOSE g : IsSteps(k, base, seq, h, n, g)

LEMMA StepsExist ==
  ASSUME NEW n \in Nat, NEW k, NEW base, NEW seq, NEW h
  PROVE  \E g : IsSteps(k, base, seq, h, n, g)
<1> DEFINE D == 1..n
           F(g, s) == StepAt(k, base, seq, h, g, s)
           Upto(m, g) == /\ g = [s \in SUBSET D |-> g[s]]
                         /\ \A s \in SUBSET D : Cardinality(s) <= m => g[s] = F(g, s)
           Bad == {m \in Nat : ~ \E g : Upto(m, g)}
<1>b. IsFiniteSet(D) /\ Cardinality(D) = n
  BY FS_Interval
<1> HIDE DEF D
<1>0. \A s \in SUBSET D : IsFiniteSet(s) /\ Cardinality(s) \in Nat /\ Cardinality(s) <= n
  BY <1>b, FS_Subset, FS_CardinalityType
<1>a. \A s \in SUBSET D : s # {} =>
        /\ s \ {Max(s)} \in SUBSET D
        /\ Cardinality(s \ {Max(s)}) = Cardinality(s) - 1
  <2> SUFFICES ASSUME NEW s \in SUBSET D, s # {}
               PROVE  /\ s \ {Max(s)} \in SUBSET D
                      /\ Cardinality(s \ {Max(s)}) = Cardinality(s) - 1
    OBVIOUS
  <2>1. Max(s) \in s
    BY MaxInSet DEF D
  <2> QED BY <1>0, <2>1, FS_RemoveElement
<1>1. Bad = {}
  <2> SUFFICES ASSUME Bad # {} PROVE FALSE
    OBVIOUS
  <2>1. PICK m \in Bad : \A i \in Bad : m <= i
    <3> HIDE DEF Upto
    <3> QED BY LeastNat
  <2>2. CASE m = 0
    <3> DEFINE g == [s \in SUBSET D |-> base]
    <3>1. \A s \in SUBSET D : Cardinality(s) <= 0 => s = {}
      BY <1>0, FS_EmptySet
    <3>2. Upto(0, g)
      BY <3>1 DEF StepAt
    <3> QED BY <2>1, <2>2, <3>2
  <2>3. CASE m # 0
    <3>1. m - 1 \in Nat /\ m - 1 \notin Bad
      <4> HIDE DEF Upto
      <4>1. m \in Nat /\ m - 1 \in Nat /\ ~ (m <= m - 1)
        BY <2>1, <2>3
      <4> QED BY <2>1, <4>1
    <3>2. PICK f : Upto(m - 1, f)
      BY <3>1
    <3> DEFINE g == [s \in SUBSET D |-> IF Cardinality(s) <= m - 1 THEN f[s] ELSE F(f, s)]
    <3>3. \A s \in SUBSET D : Cardinality(s) <= m => F(g, s) = F(f, s)
      BY <1>0, <1>a, <2>1 DEF StepAt
    <3>4. \A s \in SUBSET D : Cardinality(s) <= m => g[s] = F(g, s)
      <4> HIDE DEF F
      <4> QED BY <1>0, <3>2, <3>3
    <3>5. Upto(m, g)
      BY <3>4
    <3> QED BY <2>1, <3>5
  <2> QED BY <2>2, <2>3
<1>3. PICK g : Upto(n, g)
  <2> HIDE DEF Upto
  <2> QED BY <1>1
<1>4. IsSteps(k, base, seq, h, n, g)
  BY <1>0, <1>3 DEF IsSteps, D
<1> QED BY <1>4

\* The states a fold goes through.
IsRun(k, base, seq, h, n, r) ==
  /\ r[0] = base
  /\ \A i \in 1..n : r[i] = Step(k, r[i - 1], seq[i], h)
  /\ r[n] = Steps(k, base, seq, h, n)[1..n]
LEMMA StepsRun ==
  ASSUME NEW n \in Nat, NEW k, NEW base, NEW seq, NEW h
  PROVE  \E r : IsRun(k, base, seq, h, n, r)
<1> DEFINE g == Steps(k, base, seq, h, n)
           r == [i \in 0..n |-> g[1..i]]
<1>1. IsSteps(k, base, seq, h, n, g)
  BY StepsExist DEF Steps
<1> HIDE DEF g
<1>2. \A i \in 0..n : 1..i \in SUBSET (1..n)
  OBVIOUS
<1>3. g[1..0] = base
  BY <1>1, <1>2 DEF IsSteps, StepAt
<1>4. ASSUME NEW i \in 1..n PROVE r[i] = Step(k, r[i - 1], seq[i], h)
  <2>1. Max(1..i) = i
    BY Topmost
  <2>2. (1..i) \ {i} = 1..(i - 1) /\ 1..i # {}
    BY Topmost
  <2>3. g[1..i] = StepAt(k, base, seq, h, g, 1..i)
    BY <1>1, <1>2 DEF IsSteps
  <2>4. g[1..i] = Step(k, g[1..(i - 1)], seq[i], h)
    BY <2>1, <2>2, <2>3 DEF StepAt
  <2> QED BY <2>4
<1>5. r[0] = base /\ r[n] = g[1..n]
  BY <1>3
<1> HIDE DEF r
<1> QED BY <1>4, <1>5 DEF g, IsRun

LEMMA InputsRun ==
  ASSUME NEW ix, NEW h, NEW t, NEW n \in Nat, DOMAIN Ins[t] = 1..n
  PROVE  \E r : /\ r[0] = ix
                /\ \A i \in 1..n : r[i] = SpendInput(r[i - 1], Ins[t][i], h)
                /\ ProcessTx(ix, t, h) =
                     IF r[n].ok THEN AddOutputs(r[n], t, h) ELSE r[n]
<1> DEFINE P(g) == g = [s \in SUBSET (1..n) |-> IF s = {} THEN ix
                          ELSE SpendInput(g[s \ {Max(s)}], Ins[t][Max(s)], h)]
           e == (CHOOSE g : P(g))[1..n]
<1>1. ProcessTx(ix, t, h) = IF e.ok THEN AddOutputs(e, t, h) ELSE e
  BY DEF ProcessTx, FoldLeft, MapThenFoldSet
<1>2. \A g : P(g) <=> IsSteps("in", ix, Ins[t], h, n, g)
  BY DEF IsSteps, StepAt, Step
<1>3. PICK r : IsRun("in", ix, Ins[t], h, n, r)
  BY StepsRun
<1> HIDE DEF P
<1>4. r[n] = e
  BY <1>2, <1>3 DEF Steps, IsRun
<1> HIDE DEF e
<1> QED BY <1>1, <1>3, <1>4 DEF Step, IsRun

IsBlockRun(ix, h, b, n, r) ==
  /\ r[0] = ix
  /\ \A i \in 1..n : r[i] = ProcessTx(r[i - 1], Tail(TxsOf[b])[i], h)
  /\ IndexBlock(ix, b, h) = r[n]
LEMMA BlockRun ==
  ASSUME NEW ix, NEW h, NEW b, NEW n \in Nat, DOMAIN Tail(TxsOf[b]) = 1..n
  PROVE  \E r : IsBlockRun(ix, h, b, n, r)
<1> DEFINE seq  == Tail(TxsOf[b])
           P(g) == g = [s \in SUBSET (1..n) |-> IF s = {} THEN ix
                          ELSE ProcessTx(g[s \ {Max(s)}], seq[Max(s)], h)]
           e == (CHOOSE g : P(g))[1..n]
<1>1. IndexBlock(ix, b, h) = e
  BY DEF IndexBlock, FoldLeft, MapThenFoldSet
<1>2. \A g : P(g) <=> IsSteps("tx", ix, seq, h, n, g)
  BY DEF IsSteps, StepAt, Step
<1>3. PICK r : IsRun("tx", ix, seq, h, n, r)
  BY StepsRun
<1> HIDE DEF P
<1>4. r[n] = e
  BY <1>2, <1>3 DEF Steps, IsRun
<1> HIDE DEF e
<1> QED BY <1>1, <1>3, <1>4 DEF Step, IsRun, IsBlockRun

-----------------------------------------------------------------------------
(* The entries of transactions: what a step of the index writes, and that  *)
(* it is of a transaction and at the height of a block of M                *)

LEMMA AddFields ==
  ASSUME NEW ix, IsIndex(ix), NEW t, NEW h
  PROVE  LET new == AddOutputs(ix, t, h)
         IN  /\ IsIndex(new)
             /\ new.utxs = Put(ix.utxs, t, [height |-> h, spent |-> [v \in 1..OutCount[t] |-> 0]])
             /\ new.uts = ix.uts \cup CreatedBy(t, h)
             /\ new.sts = ix.sts
             /\ new.stable_utxs = ix.stable_utxs /\ new.stable_utxos = ix.stable_utxos
             /\ new.ok = ix.ok
  BY DEF IsIndex, AddOutputs, CreatedBy

LEMMA LoadFields ==
  ASSUME NEW ix, IsIndex(ix), NEW t
  PROVE  LET new == Loaded(ix, t)
         IN  /\ IsIndex(new)
             /\ new.utxs = IF t \notin DOMAIN ix.utxs /\ t \in DOMAIN ix.stable_utxs
                           THEN Put(ix.utxs, t, ix.stable_utxs[t]) ELSE ix.utxs
             /\ new.uts = ix.uts /\ new.sts = ix.sts
             /\ new.stable_utxs = ix.stable_utxs /\ new.stable_utxos = ix.stable_utxos
             /\ new.ok = ix.ok
  BY DEF IsIndex, Loaded

LEMMA LoadShape ==
  ASSUME NEW ix, NEW M, Shape(ix, M), NEW t
  PROVE  Shape(Loaded(ix, t), M)
<1> DEFINE new == Loaded(ix, t)
<1>1. /\ IsIndex(new) /\ new.stable_utxs = ix.stable_utxs
      /\ new.utxs = IF t \notin DOMAIN ix.utxs /\ t \in DOMAIN ix.stable_utxs
                    THEN Put(ix.utxs, t, ix.stable_utxs[t]) ELSE ix.utxs
  BY LoadFields DEF Shape
<1> HIDE DEF new
<1>2. Entries(new.utxs, M)
  BY <1>1 DEF Shape, Entries, Put
<1>3. Entries(new.stable_utxs, M)
  BY <1>1 DEF Shape
<1> QED BY <1>1, <1>2, <1>3 DEF Shape, new

LEMMA SpendShape ==
  ASSUME NEW ix, NEW M, Shape(ix, M), NEW in, NEW h \in Nat
  PROVE  Shape(SpendInput(ix, in, h), M)
<1> DEFINE known == Loaded(ix, in.tx)
           new   == SpendOutput(known, in, h)
<1>1. Shape(known, M)
  BY LoadShape
<1> HIDE DEF known
<1>2. Shape([known EXCEPT !.ok = FALSE], M)
  BY <1>1 DEF Shape, IsIndex
<1>3. ASSUME in.tx \in DOMAIN known.utxs, in.vout \in DOMAIN known.utxs[in.tx].spent
      PROVE  Shape(new, M)
  <2> DEFINE utx == known.utxs[in.tx]
  <2>1. /\ IsIndex(new) /\ new.stable_utxs = known.stable_utxs
        /\ new.utxs = [known.utxs EXCEPT ![in.tx] = MarkSpent(utx, in.vout, h)]
    <3>1. IsIndex(known)
      BY <1>1 DEF Shape
    <3> QED BY <3>1 DEF SpendOutput, IsIndex
  <2> HIDE DEF new
  <2>2. Entry(in.tx, utx, M)
    BY <1>1, <1>3 DEF Shape, Entries
  <2>3. Entry(in.tx, MarkSpent(utx, in.vout, h), M)
    <3>1. utx \in UtxSet(in.tx) /\ in.vout \in DOMAIN utx.spent
      BY <1>3, <2>2 DEF Entry
    <3> HIDE DEF utx
    <3>2. /\ MarkSpent(utx, in.vout, h) \in UtxSet(in.tx)
          /\ MarkSpent(utx, in.vout, h).height = utx.height
      BY <3>1 DEF UtxSet, MarkSpent
    <3> QED BY <2>2, <3>2 DEF Entry, InBlock
  <2> HIDE DEF utx
  <2>4. Entries(new.utxs, M)
    BY <1>1, <2>1, <2>3 DEF Shape, Entries
  <2> QED BY <1>1, <2>1, <2>4 DEF Shape
<1> QED BY <1>2, <1>3 DEF SpendInput, known

LEMMA AddShape ==
  ASSUME NEW ix, NEW M, Shape(ix, M), NEW b \in M, NEW t \in Txs(b),
         t \in DOMAIN OutCount, Height[b] \in Nat
  PROVE  Shape(AddOutputs(ix, t, Height[b]), M)
<1> DEFINE utx == [height |-> Height[b], spent |-> [v \in 1..OutCount[t] |-> 0]]
           new == AddOutputs(ix, t, Height[b])
<1>1. /\ IsIndex(new) /\ new.stable_utxs = ix.stable_utxs
      /\ new.utxs = Put(ix.utxs, t, utx)
  BY AddFields DEF Shape
<1>2. Entry(t, utx, M)
  BY DEF Entry, UtxSet, InBlock
<1> HIDE DEF new, utx
<1>3. Entries(new.utxs, M)
  BY <1>1, <1>2 DEF Shape, Entries, Put
<1> QED BY <1>1, <1>3 DEF Shape, new

LEMMA InputsDomain ==
  ASSUME NEW t \in DOMAIN OutCount
  PROVE  /\ Len(Ins[t]) \in Nat /\ DOMAIN Ins[t] = 1..Len(Ins[t])
         /\ \A k \in DOMAIN Ins[t] : Point(Ins[t][k]) = Ins[t][k]
<1> DEFINE S == {Point(Ins[t][i]) : i \in DOMAIN Ins[t]}
<1>1. Ins[t] \in Seq(S)
  BY BlocksAssumption
<1>2. \A p \in S : Point(p) = p
  BY DEF Point
<1> HIDE DEF S
<1> QED BY <1>1, <1>2, SeqFacts

LEMMA TxShape ==
  ASSUME NEW ix, NEW M, Shape(ix, M), NEW b \in M, NEW t \in Txs(b),
         t \in DOMAIN OutCount, Height[b] \in Nat
  PROVE  Shape(ProcessTx(ix, t, Height[b]), M)
<1> DEFINE n == Len(Ins[t])
           h == Height[b]
<1>1. n \in Nat /\ DOMAIN Ins[t] = 1..n
  BY InputsDomain
<1>2. PICK r : /\ r[0] = ix
               /\ \A i \in 1..n : r[i] = SpendInput(r[i - 1], Ins[t][i], h)
               /\ ProcessTx(ix, t, h) = IF r[n].ok THEN AddOutputs(r[n], t, h) ELSE r[n]
  <2> HIDE DEF n, h
  <2> QED BY <1>1, InputsRun
<1>3. Shape(r[n], M)
  <2> HIDE DEF n
  <2> DEFINE G == {i \in 0..n : Shape(r[i], M)}
  <2>1. 0 \in G /\ \A i \in 1..n : i - 1 \in G => i \in G
    BY <1>1, <1>2, SpendShape
  <2>2. n \in G
    <3> HIDE DEF G
    <3> QED BY <1>1, <2>1, Climb
  <2> QED BY <2>2
<1>4. Shape(AddOutputs(r[n], t, h), M)
  BY <1>3, AddShape
<1> QED BY <1>2, <1>3, <1>4

LEMMA BlockTxs ==
  ASSUME NEW b \in Blocks
  PROVE  LET seq == Tail(TxsOf[b])
         IN  /\ TxCount(b) \in Nat /\ DOMAIN seq = 1..TxCount(b)
             /\ \A i \in 1..TxCount(b) : /\ seq[i] = TxAt(b, i) /\ TxAt(b, i) \in Txs(b)
                                       /\ TxAt(b, i) \in DOMAIN OutCount
             /\ \A t \in Txs(b) : \E i \in 1..TxCount(b) : t = TxAt(b, i)
<1> DEFINE q == TxsOf[b]
           seq == Tail(q)
<1>1. q \in Seq(DOMAIN OutCount) /\ q # << >>
  BY BlocksAssumption
<1>2. /\ DOMAIN seq = 1..(Len(q) - 1)
      /\ \A i \in DOMAIN seq : seq[i] = q[i + 1] /\ i + 1 \in DOMAIN q
  BY <1>1, SeqTail
<1>3. DOMAIN q = 1..Len(q) /\ Len(q) \in Nat /\ Len(q) # 0
      /\ \A i \in DOMAIN q : q[i] \in DOMAIN OutCount
  BY <1>1, SeqFacts
<1>4. Txs(b) = {q[i] : i \in 2..Len(q)}
  BY DEF Txs
<1>5. \A t \in Txs(b) : \E i \in 1..(Len(q) - 1) : t = q[i + 1]
  <2> SUFFICES ASSUME NEW j \in 2..Len(q) PROVE \E i \in 1..(Len(q) - 1) : q[j] = q[i + 1]
    BY <1>4
  <2>1. j - 1 \in 1..(Len(q) - 1) /\ (j - 1) + 1 = j
    BY <1>3
  <2> QED BY <2>1
<1>6. \A i \in 1..(Len(q) - 1) : i + 1 \in 2..Len(q)
  BY <1>3
<1> HIDE DEF q, seq
<1>7. /\ Len(q) - 1 \in Nat
      /\ \A i \in 1..(Len(q) - 1) : /\ seq[i] = q[i + 1] /\ q[i + 1] \in Txs(b)
                                     /\ q[i + 1] \in DOMAIN OutCount
  BY <1>2, <1>3, <1>4, <1>6
<1> QED BY <1>2, <1>5, <1>7 DEF TxCount, TxAt, q, seq

LEMMA BlockShape ==
  ASSUME NEW ix, NEW M, M \subseteq Blocks, Shape(ix, M), NEW b \in M
  PROVE  Shape(IndexBlock(ix, b, Height[b]), M)
<1> DEFINE n == TxCount(b)
           h == Height[b]
           seq == Tail(TxsOf[b])
<1>0. b \in Blocks /\ h \in Nat
  BY ChainAssumption
<1>1. n \in Nat /\ DOMAIN seq = 1..n
      /\ \A i \in 1..n : seq[i] \in Txs(b) /\ seq[i] \in DOMAIN OutCount
  BY <1>0, BlockTxs
<1>2. PICK r : IsBlockRun(ix, h, b, n, r)
  <2> HIDE DEF n, h
  <2> QED BY <1>1, BlockRun
<1>3. Shape(r[n], M)
  <2> HIDE DEF n
  <2> DEFINE G == {i \in 0..n : Shape(r[i], M)}
  <2>1. 0 \in G
    BY <1>1, <1>2 DEF IsBlockRun
  <2>2. \A i \in 1..n : r[i] = ProcessTx(r[i - 1], seq[i], h)
    BY <1>2 DEF IsBlockRun
  <2>3. \A i \in 1..n : i - 1 \in G => i \in G
    <3> HIDE DEF seq
    <3> QED BY <1>0, <1>1, <2>2, TxShape
  <2>4. n \in G
    <3> HIDE DEF G
    <3> QED BY <1>1, <2>1, <2>3, Climb
  <2> QED BY <2>4
<1> QED BY <1>2, <1>3 DEF IsBlockRun

LEMMA FlushShape ==
  ASSUME NEW ix, NEW M, Shape(ix, M), NEW c \in Nat
  PROVE  Shape(Flush(ix, c), M)
<1> DEFINE new == Flush(ix, c)
           gone == FullySpent(ix, c)
           kept == DOMAIN ix.utxs \ gone
<1>1. /\ IsIndex(new)
      /\ new.utxs = Drop(ix.utxs, gone)
      /\ new.stable_utxs = [t \in (DOMAIN ix.stable_utxs \ gone) \cup kept |->
            IF t \in kept THEN ConfirmedUtx(ix.utxs[t], c) ELSE ix.stable_utxs[t]]
  BY DEF Shape, IsIndex, Flush
<1> HIDE DEF new
<1>2. Entries(new.utxs, M)
  BY <1>1 DEF Shape, Entries, Drop
<1>3. ASSUME NEW t \in kept PROVE Entry(t, ConfirmedUtx(ix.utxs[t], c), M)
  <2>1. Entry(t, ix.utxs[t], M)
    BY <1>3 DEF Shape, Entries
  <2>2. /\ ConfirmedUtx(ix.utxs[t], c) \in UtxSet(t)
        /\ ConfirmedUtx(ix.utxs[t], c).height = ix.utxs[t].height
    BY <2>1 DEF Entry, UtxSet, ConfirmedUtx
  <2> QED BY <2>1, <2>2 DEF Entry, InBlock
<1>4. Entries(new.stable_utxs, M)
  <2> HIDE DEF kept
  <2> QED BY <1>1, <1>3 DEF Shape, Entries
<1> QED BY <1>1, <1>2, <1>4 DEF Shape, new

LEMMA ClearShape ==
  ASSUME NEW ix, NEW M, Shape(ix, M)
  PROVE  Shape(ClearUnconfirmed(ix), M)
<1>1. Entries(<< >>, M)
  BY DEF Entries
<1> QED BY <1>1 DEF Shape, IsIndex, ClearUnconfirmed

-----------------------------------------------------------------------------
(* What the index says of the outputs O created and the spendings S so far *)

Outs(O) == \A o \in O : /\ IsUtxo(o) /\ Pays(o.tx, o.vout)
                        /\ o.tx \in DOMAIN OutCount /\ o.vout \in 1..OutCount[o.tx]

LEMMA LoadFacts ==
  ASSUME NEW ix, NEW M, Shape(ix, M), NEW O, NEW S, Facts(ix, O, S), NEW t
  PROVE  Facts(Loaded(ix, t), O, S)
<1> DEFINE new == Loaded(ix, t)
<1>1. CASE t \notin DOMAIN ix.utxs /\ t \in DOMAIN ix.stable_utxs
  <2>1. /\ new.utxs = Put(ix.utxs, t, ix.stable_utxs[t])
        /\ new.uts = ix.uts /\ new.sts = ix.sts
        /\ new.stable_utxs = ix.stable_utxs /\ new.stable_utxos = ix.stable_utxos
        /\ new.ok = ix.ok
    BY <1>1, LoadFields DEF Shape
  <2> HIDE DEF new
  <2>2. /\ DOMAIN new.utxs = DOMAIN ix.utxs \cup {t}
        /\ new.utxs[t] = ix.stable_utxs[t]
        /\ \A x \in DOMAIN ix.utxs : new.utxs[x] = ix.utxs[x] /\ x # t
    BY <1>1, <2>1 DEF Put
  <2>3. Live(new, O, S)
    BY <2>1, <2>2 DEF Facts, Live, Has
  <2>4. Marks(new, O, S)
    BY <2>1, <2>2 DEF Facts, Marks, Has
  <2>5. Stable(new, O, S)
    BY <2>1, <2>2 DEF Facts, Stable, Has
  <2> QED BY <2>1, <2>3, <2>4, <2>5 DEF Facts, new
<1>2. CASE ~ (t \notin DOMAIN ix.utxs /\ t \in DOMAIN ix.stable_utxs)
  BY <1>2 DEF Loaded
<1> QED BY <1>1, <1>2

\* An input whose output no one has spent before.
LEMMA OutputFacts ==
  ASSUME NEW ix, NEW M, Shape(ix, M), NEW O, Outs(O), NEW S, Facts(ix, O, S),
         NEW in, Point(in) = in, NEW h \in Nat, \A s \in S : s[1] # in,
         in.tx \in DOMAIN ix.utxs, in.vout \in DOMAIN ix.utxs[in.tx].spent
  PROVE  Facts(SpendOutput(ix, in, h), O, S \cup {<<in, h>>})
<1> DEFINE new  == SpendOutput(ix, in, h)
           utx  == ix.utxs[in.tx]
           utxo == [height |-> utx.height, tx |-> in.tx, vout |-> in.vout]
           paid == Pays(in.tx, in.vout)
           T    == S \cup {<<in, h>>}
<1>1. /\ new.utxs = [ix.utxs EXCEPT ![in.tx] = MarkSpent(utx, in.vout, h)]
      /\ new.uts = IF paid THEN ix.uts \ {utxo} ELSE ix.uts
      /\ new.sts = IF paid THEN Put(ix.sts, utxo, h) ELSE ix.sts
      /\ new.stable_utxs = ix.stable_utxs /\ new.stable_utxos = ix.stable_utxos
      /\ new.ok = ix.ok
  <2>1. IsIndex(ix)
    BY DEF Shape
  <2> QED BY <2>1 DEF IsIndex, SpendOutput
<1> HIDE DEF new
<1>2. utx \in UtxSet(in.tx)
  BY DEF Shape, Entries, Entry
<1>3. /\ MarkSpent(utx, in.vout, h).height = utx.height
      /\ MarkSpent(utx, in.vout, h).spent[in.vout] = h
      /\ \A v : v # in.vout => MarkSpent(utx, in.vout, h).spent[v] = utx.spent[v]
  <2> HIDE DEF utx
  <2>1. in.vout \in DOMAIN utx.spent
    BY DEF utx
  <2>2. MarkSpent(utx, in.vout, h) = [utx EXCEPT !.spent = [utx.spent EXCEPT ![in.vout] = h]]
    BY <1>2 DEF MarkSpent, UtxSet
  <2>3. /\ MarkSpent(utx, in.vout, h).height = utx.height
        /\ MarkSpent(utx, in.vout, h).spent = [utx.spent EXCEPT ![in.vout] = h]
    BY <1>2, <2>2 DEF UtxSet
  <2> QED BY <2>1, <2>3
<1>4. /\ DOMAIN new.utxs = DOMAIN ix.utxs
      /\ \A u : Has(ix.utxs, u) => Has(new.utxs, u)
      /\ new.utxs[in.tx].spent[in.vout] = h
      /\ \A x \in DOMAIN ix.utxs : \A v :
           x # in.tx \/ v # in.vout => new.utxs[x].spent[v] = ix.utxs[x].spent[v]
  <2> HIDE DEF paid, utxo
  <2>1. \A x \in DOMAIN ix.utxs : new.utxs[x] =
           IF x = in.tx THEN MarkSpent(utx, in.vout, h) ELSE ix.utxs[x]
    BY <1>1
  <2>2. DOMAIN new.utxs = DOMAIN ix.utxs
    BY <1>1
  <2> QED BY <1>3, <2>1, <2>2 DEF Has
<1>5. /\ IsUtxo(utxo) /\ Point(utxo) = in /\ Has(ix.utxs, utxo)
      /\ \A u : IsUtxo(u) /\ Has(ix.utxs, u) /\ Point(u) = in => u = utxo
      /\ \A u : Point(u) # in => u.tx # in.tx \/ u.vout # in.vout
  BY DEF IsUtxo, Point, Has
<1>6. Live(new, O, T)
  <2> SUFFICES ASSUME NEW u \in new.uts
               PROVE  /\ u \in O /\ Has(new.utxs, u) /\ new.utxs[u.tx].spent[u.vout] = 0
                      /\ \A s \in T : s[1] # Point(u)
    BY DEF Live
  <2>1. u \in ix.uts /\ (paid => u # utxo)
    BY <1>1
  <2>2. /\ u \in O /\ Has(ix.utxs, u) /\ ix.utxs[u.tx].spent[u.vout] = 0
        /\ \A s \in S : s[1] # Point(u)
    BY <2>1 DEF Facts, Live
  <2>3. Point(u) # in
    <3>1. IsUtxo(u) /\ Pays(u.tx, u.vout)
      BY <2>2 DEF Outs
    <3>2. ASSUME Point(u) = in PROVE paid
      BY <3>1, <3>2 DEF Point
    <3> QED BY <1>5, <2>1, <2>2, <3>1, <3>2
  <2> HIDE DEF paid, utxo, utx
  <2>4. new.utxs[u.tx].spent[u.vout] = 0
    BY <1>4, <1>5, <2>2, <2>3 DEF Has
  <2> QED BY <1>4, <2>2, <2>3, <2>4
<1>7. Marks(new, O, T)
  <2> SUFFICES ASSUME NEW u \in DOMAIN new.sts
               PROVE  /\ IsUtxo(u) /\ Has(new.utxs, u) /\ u.vout \in 1..OutCount[u.tx]
                      /\ new.utxs[u.tx].spent[u.vout] = new.sts[u]
                      /\ <<Point(u), new.sts[u]>> \in T
    BY DEF Marks
  <2>1. CASE u = utxo /\ paid
    <3>1. new.sts[u] = h
      BY <1>1, <2>1 DEF Put
    <3>2. u.tx = in.tx /\ u.vout = in.vout
      BY <2>1
    <3>3. in.vout \in 1..OutCount[in.tx]
      BY <1>2 DEF UtxSet
    <3> HIDE DEF utxo, utx
    <3> QED BY <1>4, <1>5, <2>1, <3>1, <3>2, <3>3
  <2>2. CASE ~ (u = utxo /\ paid)
    <3>1. u \in DOMAIN ix.sts /\ new.sts[u] = ix.sts[u]
      BY <1>1, <2>2 DEF Put
    <3>2. /\ IsUtxo(u) /\ Has(ix.utxs, u) /\ ix.utxs[u.tx].spent[u.vout] = ix.sts[u]
          /\ u.vout \in 1..OutCount[u.tx] /\ <<Point(u), ix.sts[u]>> \in S
      BY <3>1 DEF Facts, Marks
    <3>3. Point(u) # in
      BY <3>2
    <3> HIDE DEF utxo, utx, paid
    <3>4. new.utxs[u.tx].spent[u.vout] = ix.utxs[u.tx].spent[u.vout]
      BY <1>4, <1>5, <3>2, <3>3 DEF Has
    <3> QED BY <1>4, <3>1, <3>2, <3>4
  <2> QED BY <2>1, <2>2
<1>8. Stable(new, O, T)
  <2> SUFFICES ASSUME NEW u \in ix.stable_utxos
               PROVE  /\ u \in O /\ Has(ix.stable_utxs, u)
                      /\ ix.stable_utxs[u.tx].spent[u.vout] = 0
                      /\ u.tx \in DOMAIN new.utxs =>
                           /\ Has(new.utxs, u)
                           /\ new.utxs[u.tx].spent[u.vout] # 0 =>
                                /\ u \in DOMAIN new.sts
                                /\ new.sts[u] = new.utxs[u.tx].spent[u.vout]
                      /\ \A s \in T : s[1] = Point(u) =>
                           u \in DOMAIN new.sts /\ new.sts[u] = s[2]
    BY <1>1 DEF Stable
  <2>1. /\ u \in O /\ Has(ix.stable_utxs, u) /\ ix.stable_utxs[u.tx].spent[u.vout] = 0
        /\ u.tx \in DOMAIN ix.utxs =>
             /\ Has(ix.utxs, u)
             /\ ix.utxs[u.tx].spent[u.vout] # 0 =>
                  u \in DOMAIN ix.sts /\ ix.sts[u] = ix.utxs[u.tx].spent[u.vout]
        /\ \A s \in S : s[1] = Point(u) => u \in DOMAIN ix.sts /\ ix.sts[u] = s[2]
    BY DEF Facts, Stable
  <2>2. IsUtxo(u) /\ Pays(u.tx, u.vout)
    BY <2>1 DEF Outs
  <2>3. CASE Point(u) = in
    <3>1. u.tx = in.tx /\ u.vout = in.vout
      BY <2>3 DEF Point
    <3>2. Has(ix.utxs, u)
      BY <2>1, <3>1
    <3>3. u = utxo /\ paid
      BY <1>5, <2>2, <2>3, <3>1, <3>2
    <3>4. u \in DOMAIN new.sts /\ new.sts[u] = h
      BY <1>1, <3>3 DEF Put
    <3>5. new.utxs[u.tx].spent[u.vout] = h /\ Has(new.utxs, u)
      <4> HIDE DEF utxo, utx, paid
      <4> QED BY <1>4, <3>1, <3>2
    <3>6. \A s \in T : s[1] = Point(u) => s[2] = h
      BY <2>3
    <3> QED BY <2>1, <3>4, <3>5, <3>6
  <2>4. CASE Point(u) # in
    <3>1. u # utxo
      BY <1>5, <2>4
    <3>2. /\ u \in DOMAIN ix.sts <=> u \in DOMAIN new.sts
          /\ u \in DOMAIN ix.sts => ix.sts[u] = new.sts[u]
      BY <1>1, <3>1 DEF Put
    <3> HIDE DEF utxo, utx, paid
    <3>3. u.tx \in DOMAIN ix.utxs =>
            new.utxs[u.tx].spent[u.vout] = ix.utxs[u.tx].spent[u.vout]
      BY <1>4, <1>5, <2>4
    <3>4. \A s \in T : s[1] = Point(u) => s \in S
      BY <2>4
    <3> QED BY <1>4, <2>1, <3>2, <3>3, <3>4
  <2> QED BY <2>3, <2>4
<1>9. new.ok
  BY <1>1 DEF Facts
<1> QED BY <1>6, <1>7, <1>8, <1>9 DEF Facts, new

LEMMA InputFacts ==
  ASSUME NEW ix, NEW M, Shape(ix, M), NEW O, Outs(O), NEW S, Facts(ix, O, S),
         NEW in, Point(in) = in, NEW h \in Nat, \A s \in S : s[1] # in,
         in.tx \in DOMAIN OutCount => in.vout \in 1..OutCount[in.tx]
  PROVE  Facts(SpendInput(ix, in, h), O, S \cup {<<in, h>>})
<1> DEFINE known == Loaded(ix, in.tx)
<1>1. Shape(known, M) /\ Facts(known, O, S)
  BY LoadShape, LoadFacts
<1>2. /\ known.utxs = IF in.tx \notin DOMAIN ix.utxs /\ in.tx \in DOMAIN ix.stable_utxs
                      THEN Put(ix.utxs, in.tx, ix.stable_utxs[in.tx]) ELSE ix.utxs
      /\ known.ok = ix.ok
  BY LoadFields DEF Shape
<1> HIDE DEF known
<1>3. CASE in.tx \notin DOMAIN known.utxs
  <2>1. SpendInput(ix, in, h) = ix
    BY <1>3 DEF SpendInput, known
  <2>2. in.tx \notin DOMAIN ix.utxs /\ in.tx \notin DOMAIN ix.stable_utxs
    BY <1>2, <1>3 DEF Put
  <2>3. \A u : Has(ix.utxs, u) \/ Has(ix.stable_utxs, u) => Point(u) # in
    BY <2>2 DEF Has, Point
  <2>4. Live(ix, O, S \cup {<<in, h>>})
    BY <2>3 DEF Facts, Live
  <2>5. Marks(ix, O, S \cup {<<in, h>>})
    BY DEF Facts, Marks
  <2>6. Stable(ix, O, S \cup {<<in, h>>})
    BY <2>3 DEF Facts, Stable
  <2> QED BY <2>1, <2>4, <2>5, <2>6 DEF Facts
<1>4. CASE in.tx \in DOMAIN known.utxs
  <2>1. Entry(in.tx, known.utxs[in.tx], M)
    BY <1>1, <1>4 DEF Shape, Entries
  <2>2. in.vout \in DOMAIN known.utxs[in.tx].spent
    BY <2>1 DEF Entry, UtxSet
  <2>3. ix.ok
    BY DEF Facts
  <2>4. SpendInput(ix, in, h) = SpendOutput(known, in, h)
    BY <1>4, <2>2, <2>3 DEF SpendInput, known
  <2> QED BY <1>1, <1>4, <2>2, <2>4, OutputFacts
<1> QED BY <1>3, <1>4

\* The outputs of a transaction that the chain has not had before.
LEMMA AddFacts ==
  ASSUME NEW ix, NEW M, Shape(ix, M), NEW O, NEW S, Facts(ix, O, S),
         NEW t \in DOMAIN OutCount, NEW h \in Nat,
         \A o \in O : o.tx # t, \A s \in S : s[1].tx # t
  PROVE  Facts(AddOutputs(ix, t, h), O \cup CreatedBy(t, h), S)
<1> DEFINE new == AddOutputs(ix, t, h)
           utx == [height |-> h, spent |-> [v \in 1..OutCount[t] |-> 0]]
           N   == O \cup CreatedBy(t, h)
<1>1. /\ new.utxs = Put(ix.utxs, t, utx)
      /\ new.uts = ix.uts \cup CreatedBy(t, h) /\ new.sts = ix.sts
      /\ new.stable_utxs = ix.stable_utxs /\ new.stable_utxos = ix.stable_utxos
      /\ new.ok = ix.ok
  BY AddFields DEF Shape
<1> HIDE DEF new
<1>2. /\ DOMAIN new.utxs = DOMAIN ix.utxs \cup {t} /\ new.utxs[t] = utx
      /\ \A x \in DOMAIN ix.utxs : x # t => new.utxs[x] = ix.utxs[x]
  BY <1>1 DEF Put
<1>3. Live(new, N, S)
  <2> SUFFICES ASSUME NEW u \in new.uts
               PROVE  /\ u \in N /\ Has(new.utxs, u) /\ new.utxs[u.tx].spent[u.vout] = 0
                      /\ \A s \in S : s[1] # Point(u)
    BY DEF Live
  <2>1. CASE u \in ix.uts
    <3>1. /\ u \in O /\ Has(ix.utxs, u) /\ ix.utxs[u.tx].spent[u.vout] = 0
          /\ \A s \in S : s[1] # Point(u)
      BY <2>1 DEF Facts, Live
    <3> QED BY <1>2, <3>1 DEF Has
  <2>2. CASE u \in CreatedBy(t, h)
    <3>1. u.height = h /\ u.tx = t /\ u.vout \in 1..OutCount[t]
      BY <2>2 DEF CreatedBy
    <3>2. utx.height = h /\ utx.spent[u.vout] = 0
      BY <3>1
    <3> HIDE DEF utx
    <3>4. Has(new.utxs, u) /\ new.utxs[u.tx].spent[u.vout] = 0
      BY <1>2, <3>1, <3>2 DEF Has
    <3>3. \A s \in S : s[1] # Point(u)
      BY <3>1 DEF Point
    <3> QED BY <2>2, <3>4, <3>3
  <2> QED BY <1>1, <2>1, <2>2
<1>4. Marks(new, N, S)
  <2> SUFFICES ASSUME NEW u \in DOMAIN ix.sts
               PROVE  /\ IsUtxo(u) /\ Has(new.utxs, u) /\ u.vout \in 1..OutCount[u.tx]
                      /\ new.utxs[u.tx].spent[u.vout] = ix.sts[u]
                      /\ <<Point(u), ix.sts[u]>> \in S
    BY <1>1 DEF Marks
  <2>1. /\ IsUtxo(u) /\ Has(ix.utxs, u) /\ ix.utxs[u.tx].spent[u.vout] = ix.sts[u]
        /\ u.vout \in 1..OutCount[u.tx] /\ <<Point(u), ix.sts[u]>> \in S
    BY DEF Facts, Marks
  <2>2. u.tx # t
    <3>1. <<Point(u), ix.sts[u]>>[1].tx # t
      BY <2>1
    <3> QED BY <3>1 DEF Point
  <2> QED BY <1>2, <2>1, <2>2 DEF Has
<1>5. Stable(new, N, S)
  <2> SUFFICES ASSUME NEW u \in ix.stable_utxos
               PROVE  /\ u \in N /\ Has(ix.stable_utxs, u)
                      /\ ix.stable_utxs[u.tx].spent[u.vout] = 0
                      /\ u.tx \in DOMAIN new.utxs =>
                           /\ Has(new.utxs, u)
                           /\ new.utxs[u.tx].spent[u.vout] # 0 =>
                                /\ u \in DOMAIN ix.sts
                                /\ ix.sts[u] = new.utxs[u.tx].spent[u.vout]
                      /\ \A s \in S : s[1] = Point(u) =>
                           u \in DOMAIN ix.sts /\ ix.sts[u] = s[2]
    <3>1. /\ new.sts = ix.sts /\ new.stable_utxs = ix.stable_utxs
          /\ new.stable_utxos = ix.stable_utxos
      BY <1>1
    <3> HIDE DEF N
    <3> QED BY <3>1 DEF Stable
  <2>1. /\ u \in O /\ Has(ix.stable_utxs, u) /\ ix.stable_utxs[u.tx].spent[u.vout] = 0
        /\ u.tx \in DOMAIN ix.utxs =>
             /\ Has(ix.utxs, u)
             /\ ix.utxs[u.tx].spent[u.vout] # 0 =>
                  u \in DOMAIN ix.sts /\ ix.sts[u] = ix.utxs[u.tx].spent[u.vout]
        /\ \A s \in S : s[1] = Point(u) => u \in DOMAIN ix.sts /\ ix.sts[u] = s[2]
    BY DEF Facts, Stable
  <2>2. u.tx # t
    BY <2>1
  <2> HIDE DEF utx
  <2> QED BY <1>2, <2>1, <2>2 DEF Has
<1> QED BY <1>1, <1>3, <1>4, <1>5 DEF Facts, new

\* A transaction that spends what the chain has not spent, each output once,
\* and none of its own, and that the chain has not had or spent from.
NewTx(t, O, S) ==
  /\ Outs(O) /\ \A o \in O : o.tx # t
  /\ \A s \in S : s[1].tx # t
  /\ \A k \in DOMAIN Ins[t] :
       /\ \A s \in S : s[1] # Ins[t][k]
       /\ \A m \in DOMAIN Ins[t] : Ins[t][m] = Ins[t][k] => m = k
       /\ Ins[t][k].tx # t
       /\ Ins[t][k].tx \in DOMAIN OutCount => Ins[t][k].vout \in 1..OutCount[Ins[t][k].tx]

LEMMA TxFacts ==
  ASSUME NEW ix, NEW M, Shape(ix, M), NEW O, NEW S, Facts(ix, O, S),
         NEW t \in DOMAIN OutCount, NEW h \in Nat, NewTx(t, O, S)
  PROVE  Facts(ProcessTx(ix, t, h), O \cup CreatedBy(t, h),
               S \cup Spendings(t, h, Len(Ins[t])))
<1> DEFINE n == Len(Ins[t])
           T(i) == S \cup Spendings(t, h, i)
<1>0. /\ Outs(O) /\ \A o \in O : o.tx # t
      /\ \A s \in S : s[1].tx # t
      /\ \A k \in DOMAIN Ins[t] :
           /\ \A s \in S : s[1] # Ins[t][k]
           /\ \A m \in DOMAIN Ins[t] : Ins[t][m] = Ins[t][k] => m = k
           /\ Ins[t][k].tx # t
           /\ Ins[t][k].tx \in DOMAIN OutCount =>
                Ins[t][k].vout \in 1..OutCount[Ins[t][k].tx]
  BY DEF NewTx
<1>1. n \in Nat /\ DOMAIN Ins[t] = 1..n /\ \A k \in 1..n : Point(Ins[t][k]) = Ins[t][k]
  BY InputsDomain
<1>2. PICK r : /\ r[0] = ix
               /\ \A i \in 1..n : r[i] = SpendInput(r[i - 1], Ins[t][i], h)
               /\ ProcessTx(ix, t, h) = IF r[n].ok THEN AddOutputs(r[n], t, h) ELSE r[n]
  <2> HIDE DEF n, T
  <2>1. n \in Nat /\ DOMAIN Ins[t] = 1..n
    BY <1>1
  <2> QED BY <2>1, InputsRun
<1> HIDE DEF n
<1>3. T(0) = S
  BY DEF Spendings
<1>4. \A i \in 1..n : /\ T(i) = T(i - 1) \cup {<<Ins[t][i], h>>}
                      /\ \A s \in T(i - 1) : s[1] # Ins[t][i]
  <2> SUFFICES ASSUME NEW i \in 1..n
               PROVE  /\ T(i) = T(i - 1) \cup {<<Ins[t][i], h>>}
                      /\ \A s \in T(i - 1) : s[1] # Ins[t][i]
    OBVIOUS
  <2>1. 1..i = (1..(i - 1)) \cup {i}
    BY <1>1
  <2>2. Spendings(t, h, i) = Spendings(t, h, i - 1) \cup {<<Ins[t][i], h>>}
    BY <2>1 DEF Spendings
  <2>3. ASSUME NEW s \in Spendings(t, h, i - 1) PROVE s[1] # Ins[t][i]
    <3>1. PICK m \in 1..(i - 1) : s = <<Ins[t][m], h>>
      BY <2>3 DEF Spendings
    <3>2. m \in DOMAIN Ins[t] /\ i \in DOMAIN Ins[t] /\ m # i
      BY <1>1
    <3> QED BY <1>0, <3>1, <3>2
  <2> QED BY <1>0, <1>1, <2>2, <2>3
<1>5. \A i \in 1..n : Shape(r[i - 1], M) /\ Facts(r[i - 1], O, T(i - 1)) =>
                        Shape(r[i], M) /\ Facts(r[i], O, T(i))
  <2> SUFFICES ASSUME NEW i \in 1..n, Shape(r[i - 1], M), Facts(r[i - 1], O, T(i - 1))
               PROVE  Shape(r[i], M) /\ Facts(r[i], O, T(i))
    OBVIOUS
  <2> DEFINE in == Ins[t][i]
  <2>1. /\ Point(in) = in
        /\ in.tx \in DOMAIN OutCount => in.vout \in 1..OutCount[in.tx]
    BY <1>0, <1>1
  <2>2. r[i] = SpendInput(r[i - 1], in, h) /\ T(i) = T(i - 1) \cup {<<in, h>>}
        /\ \A s \in T(i - 1) : s[1] # in
    BY <1>2, <1>4
  <2> HIDE DEF in, T
  <2>3. Shape(r[i], M)
    BY <2>2, SpendShape
  <2>4. Facts(r[i], O, T(i))
    BY <1>0, <2>1, <2>2, InputFacts
  <2> QED BY <2>3, <2>4
<1>6. Shape(r[n], M) /\ Facts(r[n], O, T(n))
  <2> DEFINE G == {i \in 0..n : Shape(r[i], M) /\ Facts(r[i], O, T(i))}
  <2>1. 0 \in G
    <3> HIDE DEF T
    <3> QED BY <1>1, <1>2, <1>3
  <2>2. \A i \in 1..n : i - 1 \in G => i \in G
    <3> HIDE DEF T
    <3> QED BY <1>1, <1>5
  <2>3. n \in G
    <3> HIDE DEF G
    <3> QED BY <1>1, <2>1, <2>2, Climb
  <2> QED BY <2>3
<1>7. \A s \in T(n) : s[1].tx # t
  <2>1. ASSUME NEW s \in Spendings(t, h, n) PROVE s[1].tx # t
    <3>1. PICK m \in 1..n : s = <<Ins[t][m], h>>
      BY <2>1 DEF Spendings
    <3> QED BY <1>0, <1>1, <3>1
  <2> QED BY <1>0, <2>1
<1>8. Facts(AddOutputs(r[n], t, h), O \cup CreatedBy(t, h), T(n))
  <2> HIDE DEF T
  <2> QED BY <1>0, <1>6, <1>7, AddFacts
<1>9. r[n].ok
  BY <1>6 DEF Facts
<1> QED BY <1>2, <1>8, <1>9 DEF n

-----------------------------------------------------------------------------
(* A block on top of a chain *)

\* What a chain creates and spends, transaction by transaction.
LEMMA CreatedIs ==
  ASSUME NEW C, C \subseteq Blocks, NEW o
  PROVE  o \in Created(C) <=>
           \E c \in C : \E i \in 1..TxCount(c) : o \in CreatedBy(TxAt(c, i), Height[c])
<1>1. ASSUME o \in Created(C)
      PROVE  \E c \in C : \E i \in 1..TxCount(c) : o \in CreatedBy(TxAt(c, i), Height[c])
  <2>1. PICK c \in C : o \in Outputs(c)
    BY <1>1 DEF Created
  <2>2. PICK t \in Txs(c), v \in Vouts : o = [height |-> Height[c], tx |-> t, vout |-> v]
    BY <2>1 DEF Outputs
  <2>3. PICK i \in 1..TxCount(c) : t = TxAt(c, i)
    BY BlockTxs
  <2>4. t \in DOMAIN OutCount
    BY <2>3, BlockTxs
  <2>5. v <= OutCount[t] /\ Pays(t, v) /\ OutCount[t] \in Nat
    BY <1>1, <2>2, <2>4, BlocksAssumption DEF Created
  <2>6. v \in Nat /\ v >= 1
    BY BlocksAssumption DEF Vouts
  <2>7. v \in 1..OutCount[t]
    BY <2>5, <2>6
  <2> QED BY <2>2, <2>3, <2>5, <2>7 DEF CreatedBy
<1>2. ASSUME NEW c \in C, NEW i \in 1..TxCount(c), o \in CreatedBy(TxAt(c, i), Height[c])
      PROVE  o \in Created(C)
  <2> DEFINE t == TxAt(c, i)
  <2>1. t \in Txs(c) /\ t \in DOMAIN OutCount
    BY BlockTxs
  <2> HIDE DEF t
  <2>2. PICK v \in 1..OutCount[t] : Pays(t, v) /\ o = [height |-> Height[c], tx |-> t, vout |-> v]
    BY <1>2 DEF CreatedBy, t
  <2>3. v \in Vouts /\ v <= OutCount[t]
    BY <2>1, BlocksAssumption DEF Vouts
  <2>4. o \in Outputs(c) /\ o.tx = t /\ o.vout = v
    BY <2>1, <2>2, <2>3 DEF Outputs
  <2> QED BY <2>2, <2>3, <2>4 DEF Created
<1> QED BY <1>1, <1>2

LEMMA SpentIs ==
  ASSUME NEW C, NEW s
  PROVE  s \in Spent(C) <=>
           \E c \in C : \E i \in 1..TxCount(c) : \E k \in 1..Len(Ins[TxAt(c, i)]) :
             s = <<Ins[TxAt(c, i)][k], Height[c]>>
  BY DEF Spent, SpentBlock, Spendings

LEMMA CreatedOuts == ASSUME NEW C, C \subseteq Blocks PROVE Outs(Created(C))
<1> SUFFICES ASSUME NEW o \in Created(C)
             PROVE  /\ IsUtxo(o) /\ Pays(o.tx, o.vout)
                    /\ o.tx \in DOMAIN OutCount /\ o.vout \in 1..OutCount[o.tx]
  BY DEF Outs
<1>a. PICK c \in C : \E i \in 1..TxCount(c) : o \in CreatedBy(TxAt(c, i), Height[c])
  BY CreatedIs
<1>1. PICK i \in 1..TxCount(c) : o \in CreatedBy(TxAt(c, i), Height[c])
  BY <1>a
<1>2. TxAt(c, i) \in DOMAIN OutCount
  BY BlockTxs
<1> QED BY <1>1, <1>2 DEF CreatedBy, IsUtxo

\* Once i transactions of block b are processed on top of the chain Q.
SoFar(Q, b, i) == Created(Q) \cup UNION {CreatedBy(TxAt(b, j), Height[b]) : j \in 1..i}
Paid(Q, b, i) ==
  Spent(Q) \cup UNION {Spendings(TxAt(b, j), Height[b], Len(Ins[TxAt(b, j)])) : j \in 1..i}

\* A transaction is new on a valid chain: what is before it does not have it,
\* nor spends from it, nor spends what it spends.
LEMMA TxNew ==
  ASSUME ChainsValid, NEW b \in Blocks, NEW Q \in SUBSET (Ancestors[b] \ {b}),
         NEW i \in 1..TxCount(b)
  PROVE  NewTx(TxAt(b, i), SoFar(Q, b, i - 1), Paid(Q, b, i - 1))
<1> DEFINE t == TxAt(b, i)
<1>0. /\ b \in Ancestors[b] /\ Height[b] \in Nat /\ TxCount(b) \in Nat
      /\ Q \subseteq Blocks /\ \A c \in Q : Height[c] \in Nat /\ Height[c] < Height[b]
  BY UnderFacts, UnderSelf, ChainAssumption, BlockTxs DEF Under
<1>1. \A a, c \in Ancestors[b] : \A x \in 1..TxCount(a), j \in 1..TxCount(c) :
        /\ TxAt(a, x) = TxAt(c, j) => a = c /\ x = j
        /\ \A k \in DOMAIN Ins[TxAt(a, x)] :
             /\ \A m \in DOMAIN Ins[TxAt(c, j)] :
                  Ins[TxAt(a, x)][k] = Ins[TxAt(c, j)][m] => a = c /\ x = j /\ k = m
             /\ Ins[TxAt(a, x)][k].tx = TxAt(c, j) =>
                  Height[c] < Height[a] \/ (a = c /\ j < x)
  BY DEF ChainsValid, ValidChain
<1> DEFINE Earlier(c, j) == /\ c \in Ancestors[b] /\ j \in 1..TxCount(c)
                            /\ c \in Q \/ (c = b /\ j < i)
<1>2. \A o \in SoFar(Q, b, i - 1) :
        \E c, j : Earlier(c, j) /\ o \in CreatedBy(TxAt(c, j), Height[c])
  <2> SUFFICES ASSUME NEW o \in SoFar(Q, b, i - 1)
               PROVE  \E c, j : Earlier(c, j) /\ o \in CreatedBy(TxAt(c, j), Height[c])
    OBVIOUS
  <2>1. CASE o \in Created(Q)
    BY <1>0, <2>1, CreatedIs
  <2>2. CASE o \notin Created(Q)
    <3>1. PICK j \in 1..(i - 1) : o \in CreatedBy(TxAt(b, j), Height[b])
      BY <2>2 DEF SoFar
    <3>2. Earlier(b, j)
      BY <1>0
    <3> QED BY <3>1, <3>2
  <2> QED BY <2>1, <2>2
<1>3. \A s \in Paid(Q, b, i - 1) :
        \E c, j : /\ Earlier(c, j)
                  /\ \E k \in DOMAIN Ins[TxAt(c, j)] : s[1] = Ins[TxAt(c, j)][k]
  <2> SUFFICES ASSUME NEW s \in Paid(Q, b, i - 1)
               PROVE  \E c, j : /\ Earlier(c, j)
                                /\ \E k \in DOMAIN Ins[TxAt(c, j)] : s[1] = Ins[TxAt(c, j)][k]
    OBVIOUS
  <2>0. \A c \in Blocks : \A j \in 1..TxCount(c) :
          DOMAIN Ins[TxAt(c, j)] = 1..Len(Ins[TxAt(c, j)])
    BY BlockTxs, InputsDomain
  <2>1. CASE s \in Spent(Q)
    BY <1>0, <2>0, <2>1, SpentIs
  <2>2. CASE s \notin Spent(Q)
    <3>1. PICK j \in 1..(i - 1) : s \in Spendings(TxAt(b, j), Height[b], Len(Ins[TxAt(b, j)]))
      BY <2>2 DEF Paid
    <3>2. Earlier(b, j)
      BY <1>0
    <3> QED BY <2>0, <3>1, <3>2 DEF Spendings
  <2> QED BY <2>1, <2>2
<1>4. \A c, j : Earlier(c, j) =>
        /\ ~ (b = c /\ i = j)
        /\ ~ (Height[b] < Height[c] \/ (c = b /\ i < j))
  BY <1>0
<1>5. \A c, j : Earlier(c, j) => c \in Blocks /\ TxAt(c, j) \in DOMAIN OutCount
  <2>1. \A c \in Ancestors[b] : c \in Blocks
    BY UnderFacts
  <2> QED BY <2>1, BlockTxs
<1>6. Outs(SoFar(Q, b, i - 1))
  <2>1. \A c, j, o : Earlier(c, j) /\ o \in CreatedBy(TxAt(c, j), Height[c]) =>
          /\ IsUtxo(o) /\ Pays(o.tx, o.vout)
          /\ o.tx \in DOMAIN OutCount /\ o.vout \in 1..OutCount[o.tx]
    <3> HIDE DEF Earlier
    <3> QED BY <1>5 DEF CreatedBy, IsUtxo
  <2> HIDE DEF Earlier
  <2> QED BY <1>2, <2>1 DEF Outs
<1>7. ASSUME NEW o \in SoFar(Q, b, i - 1) PROVE o.tx # t
  <2>1. PICK c, j : Earlier(c, j) /\ o \in CreatedBy(TxAt(c, j), Height[c])
    BY <1>2
  <2>2. o.tx = TxAt(c, j)
    BY <2>1 DEF CreatedBy
  <2> QED BY <1>0, <1>1, <1>4, <2>1, <2>2
<1>8. ASSUME NEW s \in Paid(Q, b, i - 1)
      PROVE  s[1].tx # t /\ \A k \in DOMAIN Ins[t] : s[1] # Ins[t][k]
  <2>1. PICK c, j : /\ Earlier(c, j)
                    /\ \E k \in DOMAIN Ins[TxAt(c, j)] : s[1] = Ins[TxAt(c, j)][k]
    BY <1>3
  <2>2. PICK k \in DOMAIN Ins[TxAt(c, j)] : s[1] = Ins[TxAt(c, j)][k]
    BY <2>1
  <2> QED BY <1>0, <1>1, <1>4, <2>1, <2>2
<1>9. ASSUME NEW k \in DOMAIN Ins[t]
      PROVE  /\ \A m \in DOMAIN Ins[t] : Ins[t][m] = Ins[t][k] => m = k
             /\ Ins[t][k].tx # t
             /\ Ins[t][k].tx \in DOMAIN OutCount =>
                   Ins[t][k].vout \in 1..OutCount[Ins[t][k].tx]
  <2>1. t \in Txs(b)
    BY BlockTxs
  <2>2. ~ (Height[b] < Height[b]) /\ ~ (i < i)
    BY <1>0
  <2> QED BY <1>0, <1>1, <2>1, <2>2 DEF ChainsValid
<1> QED BY <1>6, <1>7, <1>8, <1>9 DEF NewTx

LEMMA SoFarGrows ==
  ASSUME NEW b \in Blocks, NEW Q \in SUBSET Blocks
  PROVE  /\ SoFar(Q, b, 0) = Created(Q) /\ Paid(Q, b, 0) = Spent(Q)
         /\ \A i \in 1..TxCount(b) :
              /\ SoFar(Q, b, i) = SoFar(Q, b, i - 1) \cup CreatedBy(TxAt(b, i), Height[b])
              /\ Paid(Q, b, i) = Paid(Q, b, i - 1)
                   \cup Spendings(TxAt(b, i), Height[b], Len(Ins[TxAt(b, i)]))
         /\ SoFar(Q, b, TxCount(b)) = Created(Q \cup {b})
         /\ Paid(Q, b, TxCount(b)) = Spent(Q \cup {b})
<1>0. TxCount(b) \in Nat
  BY BlockTxs
<1>1. SoFar(Q, b, 0) = Created(Q) /\ Paid(Q, b, 0) = Spent(Q)
  BY DEF SoFar, Paid
<1>2. ASSUME NEW i \in 1..TxCount(b)
      PROVE  /\ SoFar(Q, b, i) = SoFar(Q, b, i - 1) \cup CreatedBy(TxAt(b, i), Height[b])
             /\ Paid(Q, b, i) = Paid(Q, b, i - 1)
                   \cup Spendings(TxAt(b, i), Height[b], Len(Ins[TxAt(b, i)]))
  <2>1. 1..i = (1..(i - 1)) \cup {i}
    BY <1>0
  <2> QED BY <2>1 DEF SoFar, Paid
<1>3. SoFar(Q, b, TxCount(b)) = Created(Q \cup {b})
  <2>1. ASSUME NEW o
        PROVE  o \in SoFar(Q, b, TxCount(b)) <=> o \in Created(Q \cup {b})
    <3>1. o \in SoFar(Q, b, TxCount(b)) <=>
            \/ \E c \in Q : \E i \in 1..TxCount(c) : o \in CreatedBy(TxAt(c, i), Height[c])
            \/ \E i \in 1..TxCount(b) : o \in CreatedBy(TxAt(b, i), Height[b])
      BY CreatedIs DEF SoFar
    <3> QED BY <3>1, CreatedIs
  <2> QED BY <2>1
<1>4. Paid(Q, b, TxCount(b)) = Spent(Q \cup {b})
  BY DEF Paid, Spent, SpentBlock
<1> QED BY <1>1, <1>2, <1>3, <1>4

LEMMA BlockFacts ==
  ASSUME ChainsValid, NEW b \in Blocks, NEW Q \in SUBSET (Ancestors[b] \ {b}),
         NEW ix, Shape(ix, Blocks), Facts(ix, Created(Q), Spent(Q))
  PROVE  Facts(IndexBlock(ix, b, Height[b]), Created(Q \cup {b}), Spent(Q \cup {b}))
<1> DEFINE n == TxCount(b)
           h == Height[b]
           seq == Tail(TxsOf[b])
<1>0. h \in Nat /\ Q \in SUBSET Blocks
  BY ChainAssumption, UnderFacts
<1>1. n \in Nat /\ DOMAIN seq = 1..n
      /\ \A i \in 1..n : /\ seq[i] = TxAt(b, i) /\ seq[i] \in Txs(b)
                         /\ seq[i] \in DOMAIN OutCount
  BY BlockTxs
<1>a. \A i \in 1..TxCount(b) :
         /\ SoFar(Q, b, i) = SoFar(Q, b, i - 1) \cup CreatedBy(TxAt(b, i), Height[b])
         /\ Paid(Q, b, i) = Paid(Q, b, i - 1)
              \cup Spendings(TxAt(b, i), Height[b], Len(Ins[TxAt(b, i)]))
  BY <1>0, SoFarGrows
<1>b. \A i \in 1..TxCount(b) : NewTx(TxAt(b, i), SoFar(Q, b, i - 1), Paid(Q, b, i - 1))
  BY TxNew
<1>2. PICK r : IsBlockRun(ix, h, b, n, r)
  <2> HIDE DEF n, h
  <2> QED BY <1>1, BlockRun
<1> DEFINE Good(i) == Shape(r[i], Blocks) /\ Facts(r[i], SoFar(Q, b, i), Paid(Q, b, i))
<1>3. ASSUME NEW i \in 1..n, Good(i - 1) PROVE Good(i)
  <2> DEFINE t == seq[i]
             O == SoFar(Q, b, i - 1)
             S == Paid(Q, b, i - 1)
  <2>1. r[i] = ProcessTx(r[i - 1], t, h)
    BY <1>2 DEF IsBlockRun
  <2>2. t = TxAt(b, i) /\ t \in Txs(b) /\ t \in DOMAIN OutCount
    BY <1>1
  <2>3. /\ SoFar(Q, b, i) = O \cup CreatedBy(t, h)
        /\ Paid(Q, b, i) = S \cup Spendings(t, h, Len(Ins[t]))
    <3>1. /\ SoFar(Q, b, i) = SoFar(Q, b, i - 1) \cup CreatedBy(TxAt(b, i), Height[b])
          /\ Paid(Q, b, i) = Paid(Q, b, i - 1)
               \cup Spendings(TxAt(b, i), Height[b], Len(Ins[TxAt(b, i)]))
      BY <1>a, Zenon
    <3> HIDE DEF t
    <3> QED BY <2>2, <3>1
  <2> HIDE DEF t
  <2>4. NewTx(t, O, S)
    <3>1. NewTx(TxAt(b, i), O, S)
      BY <1>b, Zenon
    <3> QED BY <2>2, <3>1, Zenon
  <2>5. Shape(r[i - 1], Blocks) /\ Facts(r[i - 1], O, S)
    BY <1>3
  <2> HIDE DEF O, S, seq, h
  <2>6. Facts(r[i], O \cup CreatedBy(t, h), S \cup Spendings(t, h, Len(Ins[t])))
    BY <1>0, <2>1, <2>2, <2>4, <2>5, TxFacts
  <2>7. Shape(r[i], Blocks)
    BY <1>0, <2>1, <2>2, <2>5, TxShape DEF h
  <2> QED BY <2>3, <2>6, <2>7
<1>4. Facts(r[n], SoFar(Q, b, n), Paid(Q, b, n))
  <2> DEFINE G == {i \in 0..n : Good(i)}
  <2>1. Good(0)
    BY <1>0, <1>2, SoFarGrows DEF IsBlockRun
  <2> HIDE DEF Good, n
  <2>2. 0 \in G /\ \A i \in 1..n : i - 1 \in G => i \in G
    BY <1>1, <1>3, <2>1
  <2>3. n \in G
    <3> HIDE DEF G
    <3> QED BY <1>1, <2>2, Climb
  <2> QED BY <2>3 DEF Good
<1> QED BY <1>0, <1>2, <1>4, SoFarGrows DEF IsBlockRun

-----------------------------------------------------------------------------
(* Confirming and clearing *)

\* Blocks of the chain above genesis spend: a height of a spending is not 0.
Late(S) == \A s \in S : s[2] \in Nat \ {0}

LEMMA FlushFacts ==
  ASSUME NEW ix, NEW M, Shape(ix, M), NEW O, Outs(O), NEW S, Late(S), Facts(ix, O, S),
         NEW c \in Nat
  PROVE  /\ Facts(Flush(ix, c), O, S)
         /\ \A u \in Flush(ix, c).stable_utxos :
              /\ u \in ix.stable_utxos \/ (u \in O /\ u.height <= c)
              /\ \A s \in S : s[1] = Point(u) => s[2] > c
<1> DEFINE new  == Flush(ix, c)
           gone == FullySpent(ix, c)
           kept == DOMAIN ix.utxs \ gone
           newUtxos == {u \in ix.uts : Confirms(u.height, c)}
           oldUtxos == {u \in DOMAIN ix.sts : SpentBy(ix.sts[u], c)}
<1>1. /\ new.utxs = Drop(ix.utxs, gone)
      /\ new.uts = ix.uts \ newUtxos
      /\ new.sts = Drop(ix.sts, oldUtxos)
      /\ new.stable_utxs = [t \in (DOMAIN ix.stable_utxs \ gone) \cup kept |->
            IF t \in kept THEN ConfirmedUtx(ix.utxs[t], c) ELSE ix.stable_utxs[t]]
      /\ new.stable_utxos = (ix.stable_utxos \ oldUtxos) \cup newUtxos
      /\ new.ok = ix.ok
  BY DEF Shape, IsIndex, Flush
<1> HIDE DEF new
<1>2. \A u \in ix.uts : /\ u \in O /\ Has(ix.utxs, u) /\ ix.utxs[u.tx].spent[u.vout] = 0
                        /\ \A s \in S : s[1] # Point(u)
  BY DEF Facts, Live
<1>3. \A u \in DOMAIN ix.sts : /\ IsUtxo(u) /\ Has(ix.utxs, u)
                               /\ u.vout \in 1..OutCount[u.tx]
                               /\ ix.utxs[u.tx].spent[u.vout] = ix.sts[u]
                               /\ <<Point(u), ix.sts[u]>> \in S
  BY DEF Facts, Marks
<1>4. \A u \in ix.stable_utxos :
     /\ u \in O /\ Has(ix.stable_utxs, u) /\ ix.stable_utxs[u.tx].spent[u.vout] = 0
     /\ u.tx \in DOMAIN ix.utxs =>
          /\ Has(ix.utxs, u)
          /\ ix.utxs[u.tx].spent[u.vout] # 0 =>
               u \in DOMAIN ix.sts /\ ix.sts[u] = ix.utxs[u.tx].spent[u.vout]
     /\ \A s \in S : s[1] = Point(u) => u \in DOMAIN ix.sts /\ ix.sts[u] = s[2]
  BY DEF Facts, Stable
<1>5. \A t \in DOMAIN ix.utxs : ix.utxs[t] \in [height : Nat, spent : [1..OutCount[t] -> Nat]]
  BY DEF Shape, Entries, Entry, UtxSet
\* A transaction that goes has no output that is unspent.
<1>6. \A t \in gone : \A v \in 1..OutCount[t] : ix.utxs[t].spent[v] \in 1..c
  BY <1>5 DEF FullySpent, SpentBy
<1>7. \A u \in ix.uts : u.tx \in kept
  BY <1>2, <1>6 DEF Has, Outs
<1>8. \A u \in ix.stable_utxos \ oldUtxos :
        /\ u.tx \notin gone
        /\ u.tx \in DOMAIN ix.utxs => ix.utxs[u.tx].spent[u.vout] \notin 1..c
  <2> SUFFICES ASSUME NEW u \in ix.stable_utxos \ oldUtxos, u.tx \in DOMAIN ix.utxs
               PROVE  u.tx \notin gone /\ ix.utxs[u.tx].spent[u.vout] \notin 1..c
    BY DEF FullySpent
  <2>1. ix.utxs[u.tx].spent[u.vout] \notin 1..c
    BY <1>4 DEF SpentBy
  <2>2. u.vout \in 1..OutCount[u.tx]
    BY <1>4 DEF Outs
  <2> QED BY <1>6, <2>1, <2>2
<1>9. \A t \in DOMAIN ix.utxs : t \notin gone =>
        t \in DOMAIN new.utxs /\ new.utxs[t] = ix.utxs[t]
  BY <1>1 DEF Drop
<1>10. DOMAIN new.utxs = DOMAIN ix.utxs \ gone
  BY <1>1 DEF Drop
<1>11. Live(new, O, S)
  <2> HIDE DEF newUtxos, gone
  <2>1. \A u \in new.uts : u \in ix.uts
    BY <1>1
  <2> QED BY <1>2, <1>7, <1>9, <2>1 DEF Live, Has
<1>12. Marks(new, O, S)
  <2> SUFFICES ASSUME NEW u \in DOMAIN new.sts
               PROVE  /\ IsUtxo(u) /\ Has(new.utxs, u) /\ u.vout \in 1..OutCount[u.tx]
                      /\ new.utxs[u.tx].spent[u.vout] = new.sts[u]
                      /\ <<Point(u), new.sts[u]>> \in S
    BY DEF Marks
  <2>1. u \in DOMAIN ix.sts /\ u \notin oldUtxos /\ new.sts[u] = ix.sts[u]
    BY <1>1 DEF Drop
  <2>2. ix.sts[u] \notin 1..c
    BY <2>1 DEF SpentBy
  <2>3. u.tx \notin gone
    <3>1. u.tx \in DOMAIN ix.utxs /\ ix.utxs[u.tx].spent[u.vout] = ix.sts[u]
      BY <1>3, <2>1 DEF Has
    <3> QED BY <1>3, <1>6, <2>1, <2>2, <3>1
  <2> QED BY <1>3, <1>9, <2>1, <2>3 DEF Has
<1>13. \A u \in new.stable_utxos :
         \/ u \in ix.stable_utxos \ oldUtxos
         \/ u \in ix.uts /\ u.height <= c
  BY <1>1 DEF Confirms
<1>14. \A u \in ix.stable_utxos \ oldUtxos : Has(new.stable_utxs, u)
  <2> SUFFICES ASSUME NEW u \in ix.stable_utxos \ oldUtxos
               PROVE  Has(new.stable_utxs, u)
    OBVIOUS
  <2>1. u.tx \in DOMAIN ix.stable_utxs /\ ix.stable_utxs[u.tx].height = u.height
        /\ u.tx \notin gone
    BY <1>4, <1>8 DEF Has
  <2>2. CASE u.tx \in kept
    <3>1. ix.utxs[u.tx].height = u.height
      BY <1>4, <2>2 DEF Has
    <3>2. ConfirmedUtx(ix.utxs[u.tx], c).height = u.height
      BY <1>5, <2>2, <3>1 DEF ConfirmedUtx
    <3>3. new.stable_utxs[u.tx] = ConfirmedUtx(ix.utxs[u.tx], c)
          /\ u.tx \in DOMAIN new.stable_utxs
      <4> HIDE DEF kept, gone
      <4> QED BY <1>1, <2>1, <2>2
    <3> QED BY <3>2, <3>3 DEF Has
  <2>3. CASE u.tx \notin kept
    <3> HIDE DEF kept, gone
    <3> QED BY <1>1, <2>1, <2>3 DEF Has
  <2> QED BY <2>2, <2>3
<1>15. \A t \in kept : \A v \in 1..OutCount[t] :
         /\ t \in DOMAIN new.stable_utxs
         /\ new.stable_utxs[t].height = ix.utxs[t].height
         /\ ix.utxs[t].spent[v] \notin 1..c => new.stable_utxs[t].spent[v] = 0
  <2> SUFFICES ASSUME NEW t \in kept, NEW v \in 1..OutCount[t]
               PROVE  /\ t \in DOMAIN new.stable_utxs
                      /\ new.stable_utxs[t].height = ix.utxs[t].height
                      /\ ix.utxs[t].spent[v] \notin 1..c => new.stable_utxs[t].spent[v] = 0
    OBVIOUS
  <2>1. ix.utxs[t] \in [height : Nat, spent : [1..OutCount[t] -> Nat]]
    BY <1>5
  <2>2. /\ ConfirmedUtx(ix.utxs[t], c).height = ix.utxs[t].height
        /\ ix.utxs[t].spent[v] \notin 1..c => ConfirmedUtx(ix.utxs[t], c).spent[v] = 0
    BY <2>1 DEF ConfirmedUtx, SpentBy
  <2>3. new.stable_utxs[t] = ConfirmedUtx(ix.utxs[t], c) /\ t \in DOMAIN new.stable_utxs
    <3> HIDE DEF kept, gone
    <3> QED BY <1>1
  <2> QED BY <2>2, <2>3
<1>16. \A u \in new.stable_utxos :
         /\ u \in O /\ Has(new.stable_utxs, u)
         /\ new.stable_utxs[u.tx].spent[u.vout] = 0
  <2> SUFFICES ASSUME NEW u \in new.stable_utxos
               PROVE  /\ u \in O /\ Has(new.stable_utxs, u)
                      /\ new.stable_utxs[u.tx].spent[u.vout] = 0
    OBVIOUS
  <2>1. CASE u \in ix.stable_utxos \ oldUtxos
    <3>1. u \in O /\ Has(new.stable_utxs, u) /\ u.vout \in 1..OutCount[u.tx]
      BY <1>4, <1>14, <2>1 DEF Outs
    <3>2. CASE u.tx \in kept
      BY <1>8, <1>15, <2>1, <3>1, <3>2
    <3>3. CASE u.tx \notin kept
      <4>1. u.tx \in DOMAIN ix.stable_utxs /\ u.tx \notin gone
            /\ ix.stable_utxs[u.tx].spent[u.vout] = 0
        BY <1>4, <1>8, <2>1 DEF Has
      <4>2. new.stable_utxs[u.tx] = ix.stable_utxs[u.tx]
        <5> HIDE DEF kept, gone
        <5> QED BY <1>1, <3>3, <4>1
      <4> QED BY <3>1, <4>1, <4>2
    <3> QED BY <3>2, <3>3
  <2>2. CASE u \in ix.uts
    <3>1. /\ u \in O /\ Has(ix.utxs, u) /\ ix.utxs[u.tx].spent[u.vout] = 0
          /\ u.tx \in kept /\ u.vout \in 1..OutCount[u.tx]
      BY <1>2, <1>7, <2>2 DEF Outs
    <3>2. 0 \notin 1..c
      OBVIOUS
    <3> HIDE DEF kept, gone
    <3> QED BY <1>15, <3>1, <3>2 DEF Has
  <2> QED BY <1>13, <2>1, <2>2
<1>17. \A u \in new.stable_utxos : \A s \in S : s[1] = Point(u) =>
         u \in DOMAIN new.sts /\ new.sts[u] = s[2] /\ s[2] > c
  <2> SUFFICES ASSUME NEW u \in new.stable_utxos, NEW s \in S, s[1] = Point(u)
               PROVE  u \in DOMAIN new.sts /\ new.sts[u] = s[2] /\ s[2] > c
    OBVIOUS
  <2>1. u \in ix.stable_utxos \ oldUtxos
    BY <1>2, <1>13
  <2>2. u \in DOMAIN ix.sts /\ ix.sts[u] = s[2] /\ s[2] \in Nat \ {0}
    BY <1>4, <2>1 DEF Late
  <2>3. s[2] \notin 1..c
    BY <2>1, <2>2 DEF SpentBy
  <2>4. u \in DOMAIN new.sts /\ new.sts[u] = ix.sts[u]
    BY <1>1, <2>1, <2>2 DEF Drop
  <2> QED BY <2>2, <2>3, <2>4
<1>18. \A u \in new.stable_utxos : u.tx \in DOMAIN new.utxs =>
         /\ Has(new.utxs, u)
         /\ new.utxs[u.tx].spent[u.vout] # 0 =>
              u \in DOMAIN new.sts /\ new.sts[u] = new.utxs[u.tx].spent[u.vout]
  <2> SUFFICES ASSUME NEW u \in new.stable_utxos, u.tx \in DOMAIN new.utxs
               PROVE  /\ Has(new.utxs, u)
                      /\ new.utxs[u.tx].spent[u.vout] # 0 =>
                           /\ u \in DOMAIN new.sts
                           /\ new.sts[u] = new.utxs[u.tx].spent[u.vout]
    OBVIOUS
  <2>1. u.tx \in DOMAIN ix.utxs /\ u.tx \notin gone /\ new.utxs[u.tx] = ix.utxs[u.tx]
    BY <1>9, <1>10
  <2>2. CASE u \in ix.stable_utxos \ oldUtxos
    <3>1. /\ Has(ix.utxs, u)
          /\ ix.utxs[u.tx].spent[u.vout] # 0 =>
               u \in DOMAIN ix.sts /\ ix.sts[u] = ix.utxs[u.tx].spent[u.vout]
      BY <1>4, <2>1, <2>2
    <3>2. u \in DOMAIN ix.sts => u \in DOMAIN new.sts /\ new.sts[u] = ix.sts[u]
      BY <1>1, <2>2 DEF Drop
    <3> HIDE DEF oldUtxos, gone
    <3> QED BY <2>1, <3>1, <3>2 DEF Has
  <2>3. CASE u \in ix.uts
    BY <1>2, <2>1, <2>3 DEF Has
  <2> QED BY <1>13, <2>2, <2>3
<1>19. Stable(new, O, S)
  BY <1>16, <1>17, <1>18 DEF Stable
<1>20. new.ok
  BY <1>1 DEF Facts
<1>21. \A u \in new.stable_utxos : u \in ix.stable_utxos \/ (u \in O /\ u.height <= c)
  BY <1>2, <1>13
<1> QED BY <1>11, <1>12, <1>17, <1>19, <1>20, <1>21 DEF Facts, new

\* Clearing goes back to the confirmed chain.
LEMMA ClearFacts ==
  ASSUME NEW ix, NEW M, Shape(ix, M), NEW O, NEW S, Facts(ix, O, S), NEW P, NEW T,
         \A u \in ix.stable_utxos : u \in P /\ \A s \in T : s[1] # Point(u)
  PROVE  Facts(ClearUnconfirmed(ix), P, T)
<1> DEFINE new == ClearUnconfirmed(ix)
<1>1. /\ new.utxs = << >> /\ new.uts = {} /\ new.sts = << >>
      /\ new.stable_utxs = ix.stable_utxs /\ new.stable_utxos = ix.stable_utxos
      /\ new.ok = ix.ok
  BY DEF Shape, IsIndex, ClearUnconfirmed
<1> HIDE DEF new
<1>2. Live(new, P, T) /\ Marks(new, P, T)
  BY <1>1 DEF Live, Marks
<1>3. Stable(new, P, T)
  BY <1>1 DEF Facts, Stable
<1> QED BY <1>1, <1>2, <1>3 DEF Facts, new

-----------------------------------------------------------------------------
(* The blocks above the one the canister started from *)

Suffix(b) == IF b = NoBlock THEN {} ELSE Ancestors[b] \ Before
OverStart(p) == p.hash # NoBlock => Under(StartBlock, p.hash) /\ p.hash # StartBlock
AboveStart ==
  StartBlock # NoBlock =>
    /\ Under(StartBlock, tip.hash)
    /\ OverStart(processed) /\ OverStart(confirmed)
    /\ \A i \in DOMAIN queue : OverStart(queue[i])
    /\ \A i \in DOMAIN processed_blocks : OverStart(processed_blocks[i])

LEMMA StartInit == ASSUME Init PROVE AboveStart
<1>1. StartBlock # NoBlock => Under(StartBlock, StartBlock)
  BY UnderSelf, ChainAssumption
<1> QED BY <1>1 DEF Init, AboveStart, OverStart, At

LEMMA StartKept ==
  ASSUME ChainInv, AboveStart, ChainMove, StartBlock # NoBlock
  PROVE  AboveStart'
<1>0. Oks(queue) /\ Oks(processed_blocks) /\ Ok(processed) /\ Ok(confirmed)
  BY DEF ChainInv, Chain
<1>1. queue \in Seq(Elem) /\ processed_blocks \in Seq(Elem)
  BY <1>0 DEF Oks
<1>2. /\ Under(StartBlock, tip.hash)
      /\ OverStart(processed) /\ OverStart(confirmed)
      /\ \A i \in DOMAIN queue : OverStart(queue[i])
      /\ \A i \in DOMAIN processed_blocks : OverStart(processed_blocks[i])
  BY DEF AboveStart
<1>3. CASE Extend
  <2>1. PICK b \in Blocks : /\ Prev[b] = tip.hash
                            /\ queue' = Append(queue, At(Height[b], b))
                            /\ tip' = At(Height[b], b)
    BY <1>3 DEF Extend
  <2>2. UNCHANGED <<processed, processed_blocks, confirmed>>
    BY <1>3 DEF Extend
  <2>3. tip.hash # NoBlock
    BY <1>2, NoBlockUnder
  <2>4. Under(StartBlock, b) /\ b # StartBlock
    <3>1. Under(Prev[b], b) /\ Height[b] = Height[Prev[b]] + 1
      BY <2>1, <2>3, UnderPrev
    <3>2. Height[StartBlock] <= Height[Prev[b]] /\ Height[StartBlock] \in Nat /\ Height[Prev[b]] \in Nat
      BY <1>2, <2>1, UnderHeight
    <3> QED BY <1>2, <2>1, <3>1, <3>2, UnderTrans
  <2> DEFINE e == At(Height[b], b)
  <2>5. e \in Elem /\ e.hash = b
    BY AtOk
  <2> HIDE DEF e
  <2>6. /\ DOMAIN Append(queue, e) = 1..(Len(queue) + 1) /\ DOMAIN queue = 1..Len(queue)
        /\ Append(queue, e)[Len(queue) + 1] = e /\ Len(queue) \in Nat
        /\ \A i \in DOMAIN queue : Append(queue, e)[i] = queue[i]
    BY <1>1, <2>5, SeqAppend, SeqFacts
  <2>7. \A i \in DOMAIN queue' : queue'[i] = e \/ \E j \in DOMAIN queue : queue'[i] = queue[j]
    BY <2>1, <2>6 DEF e
  <2>8. tip'.hash = b
    BY <2>1, <2>5 DEF e
  <2>9. OverStart(e)
    BY <2>4, <2>5 DEF OverStart
  <2> QED BY <1>2, <2>2, <2>4, <2>7, <2>8, <2>9 DEF AboveStart, OverStart
<1>4. \A p \in {processed, confirmed} : Under(StartBlock, TipReset(p).hash)
  BY <1>0, <1>2 DEF TipReset, OverStart, Ok
<1>5. CASE BackToProcessed
  BY <1>2, <1>4, <1>5 DEF BackToProcessed, AboveStart, OverStart
<1>6. CASE BackToConfirmed
  BY <1>2, <1>4, <1>6 DEF BackToConfirmed, AboveStart, OverStart
<1>7. CASE DropFront
  <2>1. \A i \in DOMAIN Tail(queue) : \E j \in DOMAIN queue : Tail(queue)[i] = queue[j]
    BY <1>1, <1>7, SeqTail DEF DropFront
  <2> QED BY <1>2, <1>7, <2>1 DEF DropFront, AboveStart, OverStart
<1>8. CASE TakeFront
  <2> DEFINE e == Head(queue)
  <2>1. \A i \in DOMAIN Tail(queue) : \E j \in DOMAIN queue : Tail(queue)[i] = queue[j]
    BY <1>1, <1>8, SeqTail DEF TakeFront
  <2>2. e = queue[1] /\ 1 \in DOMAIN queue /\ e \in Elem
    BY <1>1, <1>8, SeqTail, SeqFacts DEF TakeFront
  <2> HIDE DEF e
  <2>3. /\ DOMAIN Append(processed_blocks, e) = 1..(Len(processed_blocks) + 1)
        /\ DOMAIN processed_blocks = 1..Len(processed_blocks) /\ Len(processed_blocks) \in Nat
        /\ Append(processed_blocks, e)[Len(processed_blocks) + 1] = e
        /\ \A i \in DOMAIN processed_blocks : Append(processed_blocks, e)[i] = processed_blocks[i]
    BY <1>1, <2>2, SeqAppend, SeqFacts
  <2>4. /\ queue' = Tail(queue) /\ processed' = e
        /\ processed_blocks' = Append(processed_blocks, e)
        /\ UNCHANGED <<tip, confirmed>>
    BY <1>8 DEF TakeFront, e
  <2>5. \A i \in DOMAIN processed_blocks' :
          \/ processed_blocks'[i] = e
          \/ \E j \in DOMAIN processed_blocks : processed_blocks'[i] = processed_blocks[j]
    BY <2>3, <2>4
  <2>6. OverStart(e)
    BY <1>2, <2>2
  <2> QED BY <1>2, <2>1, <2>4, <2>5, <2>6 DEF AboveStart, OverStart
<1>9. CASE TakeConfirmed
  <2>1. PICK i \in DOMAIN processed_blocks :
          /\ confirmed' = processed_blocks[i]
          /\ processed_blocks' = SubSeq(processed_blocks, i + 1, Len(processed_blocks))
    BY <1>9 DEF TakeConfirmed
  <2>2. UNCHANGED <<queue, tip, processed>>
    BY <1>9 DEF TakeConfirmed
  <2>3. \A j \in DOMAIN processed_blocks' : \E k \in DOMAIN processed_blocks :
          processed_blocks'[j] = processed_blocks[k]
    BY <1>1, <2>1, SeqFrom
  <2> QED BY <1>2, <2>1, <2>2, <2>3 DEF AboveStart, OverStart
<1>10. CASE ForgetProcessed
  BY <1>2, <1>10 DEF ForgetProcessed, AboveStart, OverStart
<1>11. CASE UNCHANGED chain
  BY <1>2, <1>11 DEF chain, AboveStart, OverStart
<1> QED BY <1>3, <1>5, <1>6, <1>7, <1>8, <1>9, <1>10, <1>11 DEF ChainMove

\* A block above the start extends what is followed below it by itself.
LEMMA SuffixOf ==
  ASSUME NEW b \in Blocks, StartBlock # NoBlock => Under(StartBlock, b) /\ b # StartBlock
  PROVE  /\ Suffix(b) = Suffix(Prev[b]) \cup {b} /\ b \notin Suffix(Prev[b])
         /\ Suffix(Prev[b]) \subseteq Ancestors[b] /\ b \in Suffix(b)
<1>1. b \notin Before
  <2>1. CASE StartBlock = NoBlock
    BY <2>1 DEF Before
  <2>2. CASE StartBlock # NoBlock
    <3> SUFFICES ASSUME b \in Before PROVE FALSE
      OBVIOUS
    <3>1. Under(b, StartBlock)
      BY <2>2, ChainAssumption DEF Before, Under
    <3> QED BY <2>2, <3>1, UnderHeight
  <2> QED BY <2>1, <2>2
<1>2. Ancestors[b] = {b} \cup (IF Prev[b] = NoBlock THEN {} ELSE Ancestors[Prev[b]])
  BY AncestorsRecursive
<1>3. b # NoBlock
  BY ChainAssumption
<1>4. Prev[b] # NoBlock => b \notin Ancestors[Prev[b]]
  <2> SUFFICES ASSUME Prev[b] # NoBlock, b \in Ancestors[Prev[b]] PROVE FALSE
    OBVIOUS
  <2>1. Under(b, Prev[b]) /\ Height[b] = Height[Prev[b]] + 1
    BY UnderPrev DEF Under
  <2> QED BY <2>1, UnderHeight
<1> QED BY <1>1, <1>2, <1>3, <1>4 DEF Suffix

\* Of two blocks of a chain the lower one is under the other.
LEMMA Linear ==
  ASSUME NEW p, NEW a, NEW c, Under(a, p), Under(c, p), Height[a] <= Height[c]
  PROVE  Under(a, c)
<1> DEFINE G == {b \in Blocks : \A x, y \in Ancestors[b] :
                   Height[x] <= Height[y] => x \in Ancestors[y]}
<1>1. ASSUME NEW b \in Blocks, Prev[b] = NoBlock \/ Prev[b] \in G
      PROVE  b \in G
  <2> SUFFICES ASSUME NEW x \in Ancestors[b], NEW y \in Ancestors[b], Height[x] <= Height[y]
               PROVE  x \in Ancestors[y]
    OBVIOUS
  <2>1. Ancestors[b] = {b} \cup (IF Prev[b] = NoBlock THEN {} ELSE Ancestors[Prev[b]])
    BY AncestorsRecursive
  <2>2. CASE y = b
    BY <2>2
  <2>3. CASE y # b
    <3>1. Under(x, b) /\ Under(y, b)
      BY DEF Under
    <3>2. x # b
      BY <2>3, <3>1, UnderHeight
    <3> QED BY <1>1, <2>1, <2>3, <3>2
  <2> QED BY <2>2, <2>3
<1>2. Blocks \subseteq G
  <2> HIDE DEF G
  <2> QED BY <1>1, BlockInduction
<1>3. p \in G /\ c \in Blocks
  BY <1>2, UnderHeight DEF Under
<1> QED BY <1>3 DEF Under

LEMMA SuffixGrows ==
  ASSUME NEW a, NEW b, a # NoBlock => Under(a, b)
  PROVE  Suffix(a) \subseteq Suffix(b)
<1>1. CASE a = NoBlock
  BY <1>1 DEF Suffix
<1>2. CASE a # NoBlock
  <2>1. Ancestors[a] \subseteq Ancestors[b] /\ b # NoBlock
    BY <1>2, UnderFacts, NoBlockUnder DEF Under
  <2> QED BY <1>2, <2>1 DEF Suffix
<1> QED BY <1>1, <1>2

LEMMA SuffixBlocks ==
  ASSUME NEW p, Ok(p)
  PROVE  \A c \in Suffix(p.hash) : c \in Blocks /\ Under(c, p.hash)
  BY UnderFacts DEF Suffix, Ok, Blk, Under

-----------------------------------------------------------------------------
(* The index of the chain that is followed *)

IndexInv ==
  /\ Shape(index, Blocks)
  /\ Facts(index, Created(Suffix(processed.hash)), Spent(Suffix(processed.hash)))
  /\ index.stable_utxos \subseteq Unspent(Suffix(confirmed.hash))

\* What a step does to the index.
IndexMove ==
  \/ \E l \in Loops : ProcessBlock(l) \/ ProcessFails(l) \/ Confirm(l)
  \/ BackToConfirmed /\ index' = ClearUnconfirmed(index)
  \/ UNCHANGED <<index, processed, confirmed>>

LEMMA IndexMoves == ASSUME [Next]_vars PROVE IndexMove
<1>1. ASSUME NEW l \in Loops, LoopSteps(l) PROVE IndexMove
  <2>1. CASE FetchReorg(l)
    BY <2>1 DEF FetchReorg, ClearForConfirm, BackToConfirmed, IndexMove
  <2>2. CASE ProcessBlock(l) \/ ProcessFails(l) \/ Confirm(l)
    BY <2>2 DEF IndexMove
  <2>3. CASE UNCHANGED <<index, processed, confirmed>>
    BY <2>3 DEF IndexMove
  <2>4. FetchReorg(l) \/ ProcessBlock(l) \/ ProcessFails(l) \/ Confirm(l)
        \/ UNCHANGED <<index, processed, confirmed>>
    BY <1>1 DEF LoopSteps, FetchStart, FetchNoAgent, FetchAnswers, FetchHash, FetchWait,
       FetchBlockFails, FetchAppend, AttestOk, AttestFails, ProcessSteps, ProcessNothing,
       ProcessOutOfOrder, ConfirmSteps, ConfirmNothing, ConfirmFails, UpgradeSteps,
       UpgradedStart, UpgradedSigned, UpgradedFails, store
  <2> QED BY <2>1, <2>2, <2>3, <2>4
<1>2. ASSUME NEW s, ResetFor(s) PROVE IndexMove
  BY <1>2 DEF ResetFor, ClearForProcess, ClearForConfirm, store, BackToConfirmed, IndexMove
<1>3. CASE AdminRestart \/ \E s \in {0, 0 - 1, 0 - 2, 0 - 3} : AdminRestartFor(s)
  BY <1>2, <1>3 DEF AdminRestart, AdminRestartFor
<1>4. CASE Upgrade \/ AdminRestartInvalid \/ NewBest \/ (\E c \in AgentCalls : AgentStep(c))
             \/ UNCHANGED vars
  BY <1>4 DEF Upgrade, ClearForProcess, AdminRestartInvalid, NewBest, AgentStep, vars,
     store, IndexMove
<1> QED BY <1>1, <1>3, <1>4 DEF Next

LEMMA SpentInIs ==
  ASSUME NEW C, C \subseteq Blocks, NEW p
  PROVE  p \in SpentIn(C) <=> \E s \in Spent(C) : s[1] = p
<1>1. ASSUME p \in SpentIn(C) PROVE \E s \in Spent(C) : s[1] = p
  <2>1. PICK c \in C : \E t \in Txs(c) : \E k \in DOMAIN Ins[t] : p = Ins[t][k]
    BY <1>1 DEF SpentIn
  <2>2. PICK t \in Txs(c) : \E k \in DOMAIN Ins[t] : p = Ins[t][k]
    BY <2>1
  <2>3. PICK k \in DOMAIN Ins[t] : p = Ins[t][k]
    BY <2>2
  <2>4. PICK i \in 1..TxCount(c) : t = TxAt(c, i)
    BY BlockTxs
  <2>5. DOMAIN Ins[t] = 1..Len(Ins[t])
    BY <2>4, BlockTxs, InputsDomain
  <2>6. <<Ins[TxAt(c, i)][k], Height[c]>> \in Spent(C)
    BY <2>3, <2>4, <2>5, SpentIs
  <2> QED BY <2>3, <2>4, <2>6
<1>2. ASSUME NEW s \in Spent(C) PROVE s[1] \in SpentIn(C)
  <2>1. PICK c \in C : \E i \in 1..TxCount(c) : \E k \in 1..Len(Ins[TxAt(c, i)]) :
                         s = <<Ins[TxAt(c, i)][k], Height[c]>>
    BY SpentIs
  <2>2. PICK i \in 1..TxCount(c) : \E k \in 1..Len(Ins[TxAt(c, i)]) :
                         s = <<Ins[TxAt(c, i)][k], Height[c]>>
    BY <2>1
  <2>3. PICK k \in 1..Len(Ins[TxAt(c, i)]) : s = <<Ins[TxAt(c, i)][k], Height[c]>>
    BY <2>2
  <2>4. TxAt(c, i) \in Txs(c) /\ TxAt(c, i) \in DOMAIN OutCount
    BY BlockTxs
  <2>5. k \in DOMAIN Ins[TxAt(c, i)]
    BY <2>4, InputsDomain
  <2>6. s[1] = Ins[TxAt(c, i)][k]
    BY <2>3
  <2> QED BY <2>4, <2>5, <2>6 DEF SpentIn
<1> QED BY <1>1, <1>2

\* A block of height 0 holds the coinbase alone.
LEMMA LateSpent ==
  ASSUME ChainsValid, NEW C, C \subseteq Blocks
  PROVE  Late(Spent(C))
<1> SUFFICES ASSUME NEW s \in Spent(C) PROVE s[2] \in Nat \ {0}
  BY DEF Late
<1>1. PICK c \in C : \E i \in 1..TxCount(c) : \E k \in 1..Len(Ins[TxAt(c, i)]) :
                       s = <<Ins[TxAt(c, i)][k], Height[c]>>
  BY SpentIs
<1>2. s[2] = Height[c] /\ Height[c] \in Nat
  BY <1>1, ChainAssumption
<1>3. Height[c] = 0 => TxCount(c) = 0
  BY DEF ChainsValid, TxCount
<1> QED BY <1>1, <1>2, <1>3

LEMMA Bottom ==
  ASSUME ChainsValid, NEW p, Ok(p), p.height = 0
  PROVE  Created(Suffix(p.hash)) = {} /\ Spent(Suffix(p.hash)) = {}
<1> DEFINE C == Suffix(p.hash)
<1>1. C \subseteq Blocks /\ \A c \in C : Height[c] = 0
  <2> SUFFICES ASSUME NEW c \in C PROVE c \in Blocks /\ Height[c] = 0
    OBVIOUS
  <2>1. Under(c, p.hash)
    BY SuffixBlocks
  <2>2. Height[p.hash] = 0
    BY <2>1, NoBlockUnder DEF Ok
  <2> QED BY <2>1, <2>2, UnderHeight
<1>2. \A c \in C : 1..TxCount(c) = {}
  <2>1. \A c \in C : TxCount(c) = 0
    BY <1>1 DEF ChainsValid, TxCount
  <2> HIDE DEF C
  <2> QED BY <2>1
<1> HIDE DEF C
<1>3. \A o : o \notin Created(C)
  BY <1>1, <1>2, CreatedIs
<1>4. \A s : s \notin Spent(C)
  BY <1>2, SpentIs
<1> QED BY <1>3, <1>4 DEF C

LEMMA EmptyFacts ==
  ASSUME NEW ix, Facts(ix, {}, {}), NEW O, NEW S
  PROVE  Facts(ix, O, S)
  BY DEF Facts, Live, Marks, Stable

-----------------------------------------------------------------------------
(* Processing a block leaves the confirmed UTXOs alone *)

Keeps(ix, x) == IsIndex(x) /\ x.stable_utxos = ix.stable_utxos

LEMMA SpendKeeps ==
  ASSUME NEW ix, NEW x, Keeps(ix, x), NEW in, NEW h
  PROVE  Keeps(ix, SpendInput(x, in, h))
<1> DEFINE known == Loaded(x, in.tx)
<1>1. Keeps(ix, known)
  BY LoadFields DEF Keeps
<1> HIDE DEF known
<1>2. Keeps(ix, [known EXCEPT !.ok = FALSE]) /\ Keeps(ix, SpendOutput(known, in, h))
  BY <1>1 DEF Keeps, IsIndex, SpendOutput
<1> QED BY <1>2 DEF SpendInput, known

LEMMA TxKeeps ==
  ASSUME NEW ix, NEW x, Keeps(ix, x), NEW t \in DOMAIN OutCount, NEW h
  PROVE  Keeps(ix, ProcessTx(x, t, h))
<1> DEFINE n == Len(Ins[t])
<1>1. n \in Nat /\ DOMAIN Ins[t] = 1..n
  BY InputsDomain
<1>2. PICK r : /\ r[0] = x
               /\ \A i \in 1..n : r[i] = SpendInput(r[i - 1], Ins[t][i], h)
               /\ ProcessTx(x, t, h) = IF r[n].ok THEN AddOutputs(r[n], t, h) ELSE r[n]
  <2> HIDE DEF n
  <2> QED BY <1>1, InputsRun
<1>3. Keeps(ix, r[n])
  <2> HIDE DEF n
  <2> DEFINE G == {i \in 0..n : Keeps(ix, r[i])}
  <2>1. 0 \in G
    BY <1>1, <1>2
  <2>2. \A i \in 1..n : i - 1 \in G => i \in G
    BY <1>1, <1>2, SpendKeeps
  <2>3. n \in G
    <3> HIDE DEF G
    <3> QED BY <1>1, <2>1, <2>2, Climb
  <2> QED BY <2>3
<1>4. Keeps(ix, AddOutputs(r[n], t, h))
  <2> DEFINE y == r[n]
  <2>1. IsIndex(y) /\ y.stable_utxos = ix.stable_utxos
    BY <1>3 DEF Keeps
  <2> HIDE DEF y
  <2>2. Keeps(ix, AddOutputs(y, t, h))
    <3>1. /\ IsIndex(AddOutputs(y, t, h))
          /\ AddOutputs(y, t, h).stable_utxos = y.stable_utxos
      BY <2>1 DEF AddOutputs, IsIndex
    <3> QED BY <2>1, <3>1 DEF Keeps
  <2> QED BY <2>2 DEF y
<1> QED BY <1>2, <1>3, <1>4

LEMMA BlockStable ==
  ASSUME NEW ix, IsIndex(ix), NEW b \in Blocks, NEW h
  PROVE  IndexBlock(ix, b, h).stable_utxos = ix.stable_utxos
<1> DEFINE n == TxCount(b)
           seq == Tail(TxsOf[b])
<1>1. n \in Nat /\ DOMAIN seq = 1..n /\ \A i \in 1..n : seq[i] \in DOMAIN OutCount
  BY BlockTxs
<1>2. PICK r : IsBlockRun(ix, h, b, n, r)
  <2> HIDE DEF n
  <2> QED BY <1>1, BlockRun
<1>3. Keeps(ix, r[n])
  <2> HIDE DEF n
  <2> DEFINE G == {i \in 0..n : Keeps(ix, r[i])}
  <2>1. 0 \in G
    BY <1>1, <1>2 DEF Keeps, IsBlockRun
  <2>2. \A i \in 1..n : r[i] = ProcessTx(r[i - 1], seq[i], h)
    BY <1>2 DEF IsBlockRun
  <2>3. \A i \in 1..n : i - 1 \in G => i \in G
    <3> HIDE DEF seq
    <3> QED BY <1>1, <2>2, TxKeeps
  <2>4. n \in G
    <3> HIDE DEF G
    <3> QED BY <1>1, <2>1, <2>3, Climb
  <2> QED BY <2>4
<1> QED BY <1>2, <1>3 DEF IsBlockRun, Keeps

\* What the index says when a block is put on what has been processed.
LEMMA BelowFacts ==
  ASSUME ChainsValid, ChainInv, AboveStart, IndexInv, queue # << >>,
         InOrder(Head(queue).height)
  PROVE  LET b == Head(queue).hash IN
           /\ b \in Blocks /\ Head(queue).height = Height[b] /\ b # NoBlock
           /\ Suffix(b) \ {b} \in SUBSET (Ancestors[b] \ {b})
           /\ Suffix(b) = (Suffix(b) \ {b}) \cup {b}
           /\ Facts(index, Created(Suffix(b) \ {b}), Spent(Suffix(b) \ {b}))
<1> DEFINE b == Head(queue).hash
<1>1. Chain(queue, tip, processed, processed_blocks, confirmed)
  BY DEF ChainInv
<1>2. 1 \in DOMAIN queue /\ Head(queue) = queue[1]
  BY <1>1, SeqTail DEF Chain, Oks
<1>3. b \in Blocks /\ Head(queue).height = Height[b] /\ b # NoBlock
  BY <1>1, <1>2, ElementOk DEF Chain
<1>4. StartBlock # NoBlock => Under(StartBlock, b) /\ b # StartBlock
  BY <1>2, <1>3 DEF AboveStart, OverStart
<1> DEFINE Q == Suffix(b) \ {b}
<1>5. Facts(index, Created(Q), Spent(Q))
  <2>1. CASE processed.height > 0
    <3>1. Prev[b] = processed.hash
      BY <2>1, NextExtends
    <3>2. Q = Suffix(processed.hash)
      <4> HIDE DEF b
      <4> QED BY <1>3, <1>4, <3>1, SuffixOf
    <3> HIDE DEF Q
    <3> QED BY <3>2 DEF IndexInv
  <2>2. CASE processed.height = 0
    <3>1. Facts(index, {}, {})
      BY <1>1, <2>2, Bottom DEF IndexInv, Chain
    <3> HIDE DEF Q
    <3> QED BY <3>1, EmptyFacts
  <2>3. processed.height \in Nat
    BY <1>1 DEF Chain, Ok, Blk
  <2> QED BY <2>1, <2>2, <2>3
<1> HIDE DEF b
<1>6. Suffix(b) \ {b} \in SUBSET (Ancestors[b] \ {b}) /\ b \in Suffix(b)
  BY <1>3, <1>4, SuffixOf DEF Suffix
<1> QED BY <1>3, <1>5, <1>6 DEF b

LEMMA ProcessIndex ==
  ASSUME ChainsValid, ChainInv, AboveStart, IndexInv, NEW l \in Loops,
         ProcessBlock(l) \/ ProcessFails(l)
  PROVE  IndexInv'
<1> DEFINE q == Head(queue)
           b == Head(queue).hash
           Q == Suffix(b) \ {b}
           new == IndexBlock(index, b, Height[b])
<1>1. queue # << >> /\ InOrder(Head(queue).height)
  BY DEF ProcessBlock, ProcessFails
<1>2. /\ b \in Blocks /\ q.height = Height[b] /\ b # NoBlock
      /\ Q \in SUBSET (Ancestors[b] \ {b})
      /\ Suffix(b) = Q \cup {b}
      /\ Facts(index, Created(Q), Spent(Q))
  BY <1>1, BelowFacts
<1>3. Shape(index, Blocks) /\ index.stable_utxos \subseteq Unspent(Suffix(confirmed.hash))
  BY DEF IndexInv
<1>4. Processed(q) = new
  BY <1>2 DEF Processed
<1> HIDE DEF Q, b, q
<1>5. Shape(new, Blocks)
  BY <1>2, <1>3, BlockShape
<1>6. Facts(new, Created(Suffix(b)), Spent(Suffix(b)))
  BY <1>2, <1>3, BlockFacts
<1> HIDE DEF new
<1>7. ProcessBlock(l)
  BY <1>4, <1>6 DEF ProcessFails, q, Facts
<1>8. index' = new /\ processed' = q /\ UNCHANGED confirmed
  BY <1>4, <1>7 DEF ProcessBlock, q
<1>9. new.stable_utxos = index.stable_utxos
  BY <1>2, <1>3, BlockStable DEF new, Shape
<1> QED BY <1>3, <1>5, <1>6, <1>8, <1>9 DEF IndexInv, q, b

LEMMA ConfirmIndex ==
  ASSUME ChainsValid, ChainInv, IndexInv, min_confirmations \in Nat,
         NEW l \in Loops, Confirm(l)
  PROVE  IndexInv'
<1> DEFINE P == Suffix(processed.hash)
           C == Suffix(confirmed.hash)
           D == Suffix(confirmed'.hash)
           c == Target
           new == Flush(index, c)
<1>1. Chain(queue, tip, processed, processed_blocks, confirmed)
  BY DEF ChainInv
<1>2. PICK i \in AtTarget : confirmed' = processed_blocks[i]
  BY DEF Confirm
<1>3. index' = new /\ UNCHANGED processed
  BY DEF Confirm
<1>4. i \in DOMAIN processed_blocks /\ processed_blocks[i].height = c
  BY <1>2 DEF AtTarget
<1>5. /\ c \in Nat /\ Height[confirmed'.hash] = c /\ confirmed'.hash \in Blocks
  BY <1>1, <1>2, <1>4, ElementOk DEF Chain
<1>6. /\ Under(confirmed'.hash, processed.hash)
      /\ confirmed.hash # NoBlock => Under(confirmed.hash, confirmed'.hash)
  BY <1>1, <1>2, <1>4 DEF Chain, Confirming
<1>7. /\ Shape(index, Blocks) /\ Facts(index, Created(P), Spent(P))
      /\ index.stable_utxos \subseteq Unspent(C)
  BY DEF IndexInv
<1>8. P \subseteq Blocks /\ C \subseteq D /\ D \subseteq P
  BY <1>1, <1>6, SuffixBlocks, SuffixGrows DEF Chain
<1> HIDE DEF c, new
<1>9. Outs(Created(P)) /\ Late(Spent(P))
  BY <1>8, CreatedOuts, LateSpent
<1>10. /\ Facts(new, Created(P), Spent(P)) /\ Shape(new, Blocks)
       /\ \A u \in new.stable_utxos :
            /\ u \in index.stable_utxos \/ (u \in Created(P) /\ u.height <= c)
            /\ \A s \in Spent(P) : s[1] = Point(u) => s[2] > c
  <2> HIDE DEF P
  <2> QED BY <1>5, <1>7, <1>9, FlushFacts, FlushShape DEF new
<1>11. ASSUME NEW u \in new.stable_utxos PROVE u \in Created(D)
  <2>1. CASE u \in index.stable_utxos
    BY <1>7, <1>8, <2>1 DEF Unspent, Created
  <2>2. CASE u \in Created(P) /\ u.height <= c
    <3> HIDE DEF P, D
    <3>a. PICK d \in P : \E k \in 1..TxCount(d) : u \in CreatedBy(TxAt(d, k), Height[d])
      BY <1>8, <2>2, CreatedIs
    <3>1. PICK k \in 1..TxCount(d) : u \in CreatedBy(TxAt(d, k), Height[d])
      BY <3>a
    <3>2. u.height = Height[d]
      BY <3>1 DEF CreatedBy
    <3>3. Under(d, processed.hash) /\ d \notin Before
      BY <1>1, SuffixBlocks DEF P, Suffix, Chain
    <3>4. Under(d, confirmed'.hash)
      BY <1>5, <1>6, <2>2, <3>2, <3>3, Linear
    <3>5. d \in D
      BY <3>3, <3>4, NoBlockUnder DEF D, Suffix, Under
    <3>6. D \subseteq Blocks
      BY <1>8
    <3> QED BY <3>1, <3>5, <3>6, CreatedIs
  <2> QED BY <1>10, <2>1, <2>2
<1>12. ASSUME NEW u \in new.stable_utxos, Point(u) \in SpentIn(D) PROVE FALSE
  <2> HIDE DEF P
  <2>1. D \subseteq Blocks /\ \A e \in D : Height[e] <= c /\ Height[e] \in Nat
    <3>1. Ok(confirmed')
      BY <1>1, <1>2, <1>4, ElementOk DEF Chain
    <3> QED BY <1>5, <3>1, SuffixBlocks, UnderHeight
  <2> HIDE DEF D
  <2>2. PICK s \in Spent(D) : s[1] = Point(u)
    BY <1>12, <2>1, SpentInIs
  <2>3. PICK e \in D : s[2] = Height[e]
    BY SpentIs
  <2>4. s \in Spent(P)
    BY <1>8 DEF Spent
  <2>5. s[2] > c
    BY <1>10, <2>2, <2>4
  <2> QED BY <1>5, <2>1, <2>3, <2>5
<1>13. new.stable_utxos \subseteq Unspent(D)
  BY <1>11, <1>12 DEF Unspent
<1> QED BY <1>3, <1>10, <1>13 DEF IndexInv

LEMMA ClearIndex ==
  ASSUME ChainInv, IndexInv, BackToConfirmed, index' = ClearUnconfirmed(index)
  PROVE  IndexInv'
<1> DEFINE P == Suffix(processed.hash)
           C == Suffix(confirmed.hash)
<1>1. /\ Shape(index, Blocks) /\ Facts(index, Created(P), Spent(P))
      /\ index.stable_utxos \subseteq Unspent(C)
  BY DEF IndexInv
<1>2. C \subseteq Blocks
  BY SuffixBlocks DEF ChainInv, Chain
<1>3. processed' = confirmed /\ UNCHANGED confirmed
  BY DEF BackToConfirmed
<1> HIDE DEF P, C
<1>4. \A u \in index.stable_utxos : u \in Created(C) /\ \A s \in Spent(C) : s[1] # Point(u)
  BY <1>1, <1>2, SpentInIs DEF Unspent
<1>5. Facts(index', Created(C), Spent(C)) /\ Shape(index', Blocks)
  BY <1>1, <1>4, ClearFacts, ClearShape
<1>6. index'.stable_utxos = index.stable_utxos
  BY <1>1 DEF Shape, IsIndex, ClearUnconfirmed
<1> QED BY <1>1, <1>3, <1>5, <1>6 DEF IndexInv, C

-----------------------------------------------------------------------------
(* The invariant of a canister that is shown valid chains                  *)

ConfirmationsType == min_confirmations \in MinConfs
LEMMA ConfirmationsKept ==
  ASSUME ConfirmationsType, [Next]_vars PROVE ConfirmationsType'
<1>1. UNCHANGED min_confirmations \/ Upgrade
  BY DEF Next, vars, AdminRestart, AdminRestartFor, AdminRestartInvalid, Restarted,
     NewBest, AgentStep, LoopSteps, FetchStart, FetchNoAgent, FetchAnswers, FetchHash,
     FetchWait, FetchBlockFails, FetchAppend, FetchReorg, AttestOk, AttestFails,
     ProcessSteps, ProcessNothing, ProcessOutOfOrder, ProcessBlock, ProcessFails,
     ConfirmSteps, ConfirmNothing, Confirm, ConfirmFails, UpgradeSteps, UpgradedStart,
     UpgradedSigned, UpgradedFails, world
<1> QED BY <1>1 DEF Upgrade, ConfirmationsType

ChainState == SyncInv /\ AboveStart /\ ConfirmationsType

LEMMA ChainStateInit == ASSUME Init PROVE ChainState
  BY SyncInit, StartInit DEF Init, ConfirmationsType, ChainState

LEMMA ChainStateKept == ASSUME ChainState, [Next]_vars PROVE ChainState'
<1>1. SyncInv' /\ ConfirmationsType' /\ ChainMove
  BY SyncStep, ConfirmationsKept, ChainMoves DEF ChainState, SyncInv
<1>2. AboveStart'
  <2>1. CASE StartBlock = NoBlock
    BY <2>1 DEF AboveStart
  <2>2. CASE StartBlock # NoBlock
    BY <1>1, <2>2, StartKept DEF ChainState, SyncInv
  <2> QED BY <2>1, <2>2
<1> QED BY <1>1, <1>2 DEF ChainState

LEMMA IndexInit == ASSUME Init PROVE IndexInv
<1>1. index = EmptyIndex /\ processed.hash = NoBlock /\ confirmed.hash = NoBlock
  BY DEF Init, At
<1>2. Shape(index, Blocks)
  BY <1>1 DEF EmptyIndex, Shape, IsIndex, Entries
<1>3. Facts(index, {}, {})
  BY <1>1 DEF EmptyIndex, Facts, Live, Marks, Stable
<1>4. index.stable_utxos = {}
  BY <1>1 DEF EmptyIndex
<1> QED BY <1>2, <1>3, <1>4, EmptyFacts DEF IndexInv

LEMMA IndexKept ==
  ASSUME ChainsValid, ChainState, IndexInv, [Next]_vars
  PROVE  IndexInv'
<1>1. ChainInv /\ AboveStart /\ min_confirmations \in Nat
  BY SyncingAssumption DEF ChainState, SyncInv, ConfirmationsType
<1>2. CASE \E l \in Loops : ProcessBlock(l) \/ ProcessFails(l) \/ Confirm(l)
  BY <1>1, <1>2, ProcessIndex, ConfirmIndex
<1>3. CASE BackToConfirmed /\ index' = ClearUnconfirmed(index)
  BY <1>1, <1>3, ClearIndex
<1>4. CASE UNCHANGED <<index, processed, confirmed>>
  BY <1>4 DEF IndexInv
<1> QED BY <1>2, <1>3, <1>4, IndexMoves DEF IndexMove

LEMMA IndexAlways ==
  ASSUME ChainsValid PROVE Spec => [](ChainState /\ IndexInv)
<1>1. Init => ChainState /\ IndexInv
  BY ChainStateInit, IndexInit
<1>2. ChainState /\ IndexInv /\ [Next]_vars => (ChainState /\ IndexInv)'
  BY ChainStateKept, IndexKept
<1> QED BY <1>1, <1>2, PTL DEF Spec

LEMMA ImpliesLive == ASSUME ChainInv, IndexInv PROVE LiveIsSound
<1> DEFINE P == Suffix(processed.hash)
<1>1. Followed(processed) = P
  BY DEF Followed, Suffix
<1>2. Facts(index, Created(P), Spent(P)) /\ P \subseteq Blocks
  BY SuffixBlocks DEF IndexInv, ChainInv, Chain
<1> HIDE DEF P
<1>3. ASSUME NEW u \in LiveUtxos(index)
      PROVE  u \in Created(P) /\ \A s \in Spent(P) : s[1] # Point(u)
  <2>1. CASE u \in index.uts
    BY <1>2, <2>1 DEF Facts, Live
  <2>2. CASE u \in index.stable_utxos \ DOMAIN index.sts
    BY <1>2, <2>2 DEF Facts, Stable
  <2> QED BY <1>3, <2>1, <2>2 DEF LiveUtxos
<1>4. LiveUtxos(index) \subseteq Unspent(P)
  BY <1>2, <1>3, SpentInIs DEF Unspent
<1> QED BY <1>1, <1>4 DEF LiveIsSound

LEMMA ImpliesConfirmed == ASSUME IndexInv PROVE ConfirmedIsSound
  BY DEF IndexInv, ConfirmedIsSound, Followed, Suffix

\* On chains whose blocks are valid, in any history of forks, restarts and
\* upgrades: what the canister lists as unspent was created on the chain it
\* follows and is not spent there.
THEOREM ListedIsUnspent == ASSUME ChainsValid PROVE Spec => []LiveIsSound
<1>1. ChainState /\ IndexInv => LiveIsSound
  BY ImpliesLive DEF ChainState, SyncInv
<1> QED BY <1>1, IndexAlways, PTL

\* The UTXOs the minter mints for: created by a confirmed block, unspent up
\* to the last confirmed one.
THEOREM ConfirmedIsUnspent == ASSUME ChainsValid PROVE Spec => []ConfirmedIsSound
<1>1. ChainState /\ IndexInv => ConfirmedIsSound
  BY ImpliesConfirmed
<1> QED BY <1>1, IndexAlways, PTL

-----------------------------------------------------------------------------
(* Transactions of the best chain: nothing is assumed of the blocks        *)

StatusInv == Shape(index, BestChain)

LEMMA ShapeGrows ==
  ASSUME NEW ix, NEW M, NEW N, M \subseteq N, Shape(ix, M) PROVE Shape(ix, N)
<1>1. \A t, utx : Entry(t, utx, M) => Entry(t, utx, N)
  BY DEF Entry, InBlock
<1> QED BY <1>1 DEF Shape, Entries

LEMMA StatusKept ==
  ASSUME ReorgDepth = 0, ChainState, BestInv, StatusInv, [Next]_vars
  PROVE  StatusInv'
<1>0. /\ LoopInv /\ ChainInv /\ best \in Blocks
      /\ Chain(queue, tip, processed, processed_blocks, confirmed)
  BY DEF ChainState, SyncInv, ChainInv, LoopInv
<1>1. BestChain \subseteq BestChain'
  BY <1>0, BestGrows DEF BestChain, Under
<1>2. BestChain \subseteq Blocks
  BY <1>0, UnderFacts DEF BestChain
<1> SUFFICES Shape(index', BestChain)
  BY <1>1, ShapeGrows DEF StatusInv
<1>3. ASSUME NEW l \in Loops, ProcessBlock(l) \/ ProcessFails(l)
      PROVE  Shape(index', BestChain)
  <2> DEFINE b == Head(queue).hash
             new == IndexBlock(index, b, Height[b])
  <2>1. loops[l].pc = "process" /\ queue # << >>
    BY <1>3 DEF ProcessBlock, ProcessFails
  <2>2. Under(b, best)
    BY <1>0, <2>1, FrontBest DEF BestInv, LoopBest
  <2>3. 1 \in DOMAIN queue /\ Head(queue) = queue[1]
    BY <1>0, <2>1, SeqTail DEF Chain, Oks
  <2>4. b \in Blocks /\ Head(queue).height = Height[b] /\ b # NoBlock
    BY <1>0, <2>3, ElementOk DEF Chain
  <2>5. StartBlock # NoBlock => Under(StartBlock, b) /\ b # StartBlock
    BY <2>3, <2>4 DEF ChainState, AboveStart, OverStart
  <2>6. b \in BestChain
    <3> HIDE DEF b
    <3> QED BY <2>2, <2>4, <2>5, SuffixOf DEF BestChain, Suffix, Under
  <2>7. Processed(Head(queue)) = new
    BY <2>4 DEF Processed
  <2>8. Shape(new, BestChain)
    <3> HIDE DEF b
    <3> QED BY <1>2, <2>6, BlockShape DEF StatusInv
  <2> HIDE DEF new
  <2>9. Shape([new EXCEPT !.ok = TRUE], BestChain)
    BY <2>8 DEF Shape, IsIndex
  <2> QED BY <1>3, <2>7, <2>8, <2>9 DEF ProcessBlock, ProcessFails
<1>4. ASSUME NEW l \in Loops, Confirm(l) PROVE Shape(index', BestChain)
  <2>1. index' = Flush(index, Target)
    BY <1>4 DEF Confirm
  <2>2. Target \in Nat
    <3>1. processed.height \in Nat /\ min_confirmations \in Nat
      BY <1>0, SyncingAssumption DEF Chain, Ok, Blk, ChainState, ConfirmationsType
    <3> QED BY <3>1 DEF Target
  <2> QED BY <2>1, <2>2, FlushShape DEF StatusInv
<1>5. CASE index' = ClearUnconfirmed(index)
  BY <1>5, ClearShape DEF StatusInv
<1>6. CASE UNCHANGED index
  BY <1>6 DEF StatusInv
<1> QED BY <1>3, <1>4, <1>5, <1>6, IndexMoves DEF IndexMove

LEMMA ImpliesStatus == ASSUME StatusInv PROVE StatusIsTrue
<1> SUFFICES ASSUME NEW t \in KnownTxs(index)
             PROVE  \E b \in BestChain : t \in Txs(b) /\ Height[b] = TxHeight(index, t)
  BY DEF StatusIsTrue
<1>1. Entries(index.utxs, BestChain) /\ Entries(index.stable_utxs, BestChain)
  BY DEF StatusInv, Shape
<1> QED BY <1>1 DEF KnownTxs, TxHeight, Entries, Entry, InBlock

\* One loop, an honest attester on every list and a best chain that only
\* grows: get_tx_status reports transactions of blocks of that chain, at the
\* height of their block, whatever a block does that fails in the middle.
THEOREM StatusOfBest ==
  ASSUME SingleLoop, ReorgDepth = 0, HonestAgents PROVE Spec => []StatusIsTrue
<1>1. Init => ChainState /\ BestInv /\ StatusInv
  <2>1. ASSUME Init PROVE StatusInv
    BY <2>1 DEF Init, StatusInv, EmptyIndex, Shape, IsIndex, Entries
  <2>2. ASSUME Init PROVE BestInv
    BY <2>2 DEF HonestAgents, Init, InitAgents, BestInv, HonestLists, LoopBest, IdleLoop, At
  <2> QED BY <2>1, <2>2, ChainStateInit
<1>2. ChainState /\ BestInv /\ StatusInv /\ [Next]_vars => (ChainState /\ BestInv /\ StatusInv)'
  <2>1. ASSUME ChainState, BestInv, [Next]_vars PROVE BestInv'
    BY <2>1, BestKeeps DEF ChainState
  <2> QED BY <2>1, ChainStateKept, StatusKept
<1>3. StatusInv => StatusIsTrue
  BY ImpliesStatus
<1> QED BY <1>1, <1>2, <1>3, PTL DEF Spec

-----------------------------------------------------------------------------
(* TypeOK: the rest of the state *)

Lists == {<< >>, FirstAgents} \cup AgentLists
LEMMA AgentTypesKept ==
  ASSUME AgentInv, AgentTypes, AgentMove PROVE AgentTypes'
<1> DEFINE Rec == [list : Lists, left : Nat, set : BOOLEAN]
<1>0. /\ rpc_agents \in {FirstAgents} \cup AgentLists /\ refresh_timer \in BOOLEAN
      /\ signing \in [Signers -> Rec]
  BY DEF AgentTypes, Lists
<1>1. SUFFICES /\ rpc_agents' \in {FirstAgents} \cup AgentLists /\ refresh_timer' \in BOOLEAN
               /\ signing' \in [Signers -> Rec]
  BY DEF AgentTypes, Lists
<1>2. CASE UNCHANGED agents \/ UpgradeAgents
  BY <1>0, <1>2 DEF agents, UpgradeAgents
<1>3. IdleSigner \in Rec
  BY DEF IdleSigner, Lists
<1>4. ASSUME NEW s \in Signers, NEW list \in Lists \cap Seq(Agents), NEW set \in BOOLEAN,
             Sign(s, list, set)
      PROVE  signing' \in [Signers -> Rec]
  <2>1. [list |-> list, left |-> Cardinality(Names(list)), set |-> set] \in Rec
    BY CountNat
  <2> HIDE DEF Rec
  <2> QED BY <1>0, <1>4, <2>1 DEF Sign
<1>5. ASSUME NEW s \in Signers, Refresh(s)
      PROVE  signing' \in [Signers -> Rec] /\ UNCHANGED <<rpc_agents, refresh_timer>>
  <2>1. rpc_agents \in Lists \cap Seq(Agents)
    BY <1>0 DEF Lists, AgentInv
  <2> HIDE DEF Rec
  <2> QED BY <1>0, <1>4, <1>5, <2>1 DEF Refresh
<1>6. ASSUME NEW s \in Signers, TokenSigned(s)
      PROVE  signing' \in [Signers -> Rec] /\ UNCHANGED <<rpc_agents, refresh_timer>>
  BY <1>0, <1>6 DEF TokenSigned
<1>7. ASSUME NEW s \in Signers, TokensSigned(s)
      PROVE  /\ signing' \in [Signers -> Rec] /\ refresh_timer' \in BOOLEAN
             /\ rpc_agents' \in {FirstAgents} \cup AgentLists
  <2>1. signing[s] # IdleSigner
    BY <1>7 DEF TokensSigned, IdleSigner
  <2>2. signing[s].list # << >> /\ signing[s].list \in Lists /\ signing[s].set \in BOOLEAN
    BY <1>0, <2>1 DEF AgentInv
  <2>3. rpc_agents' \in {FirstAgents} \cup AgentLists
    BY <1>7, <2>2 DEF TokensSigned, Lists
  <2>4. refresh_timer' \in BOOLEAN
    BY <1>0, <1>7, <2>2 DEF TokensSigned, Armed
  <2>5. signing' \in [Signers -> Rec]
    <3> HIDE DEF Rec
    <3> QED BY <1>0, <1>3, <1>7 DEF TokensSigned
  <2> QED BY <2>3, <2>4, <2>5
<1>8. ASSUME NEW s \in Signers, SignFails(s)
      PROVE  signing' \in [Signers -> Rec] /\ UNCHANGED <<rpc_agents, refresh_timer>>
  <2> HIDE DEF Rec
  <2> QED BY <1>0, <1>3, <1>8 DEF SignFails
<1>9. ASSUME NEW s \in Signers, NEW list \in AgentLists, AdminSetAgent(s, list)
      PROVE  signing' \in [Signers -> Rec] /\ UNCHANGED <<rpc_agents, refresh_timer>>
  <2>1. list \in Lists \cap Seq(Agents)
    BY AgentsAssumption DEF Lists
  <2> HIDE DEF Rec
  <2> QED BY <1>4, <1>9, <2>1 DEF AdminSetAgent
<1> HIDE DEF Rec
<1> QED BY <1>0, <1>2, <1>5, <1>6, <1>7, <1>8, <1>9 DEF AgentMove

Statuses == {0, 1, 2, 3} \cup {0 - 1, 0 - 2, 0 - 3}
Small ==
  /\ start \in Blk /\ status \in Statuses /\ timer \in Loops \cup {NoLoop}
  /\ restarts \in Nat /\ upgrades \in Nat

LEMMA SmallKept ==
  ASSUME ChainInv, Small, [Next]_vars PROVE Small'
<1>1. queue # << >> => Head(queue) \in Blk
  <2>1. queue \in Seq(Elem)
    BY DEF ChainInv, Chain, Oks
  <2>2. queue # << >> => Head(queue) \in Elem
    BY <2>1, SeqTail, SeqFacts
  <2> QED BY <2>2 DEF Elem, Blk
<1>2. ASSUME NEW l \in Loops, LoopSteps(l) PROVE Small'
  <2>1. UNCHANGED <<restarts, upgrades>>
    BY <1>2 DEF LoopSteps, FetchStart, FetchNoAgent, FetchAnswers, FetchHash, FetchWait,
       FetchBlockFails, FetchAppend, FetchReorg, AttestOk, AttestFails, ProcessSteps,
       ProcessNothing, ProcessOutOfOrder, ProcessBlock, ProcessFails, ConfirmSteps,
       ConfirmNothing, Confirm, ConfirmFails, UpgradeSteps, UpgradedStart, UpgradedSigned,
       UpgradedFails, world
  <2>2. timer' \in {timer, l}
    BY <1>2 DEF LoopSteps, FetchStart, FetchNoAgent, FetchAnswers, FetchHash, FetchWait,
       FetchBlockFails, FetchAppend, FetchReorg, AttestOk, AttestFails, ProcessSteps,
       ProcessNothing, ProcessOutOfOrder, ProcessBlock, ProcessFails, ConfirmSteps,
       ConfirmNothing, Confirm, ConfirmFails, UpgradeSteps, UpgradedStart, UpgradedSigned,
       UpgradedFails, SetTimer, Stop, Attested, AfterConfirm
  <2>3. status' \in {status, 1, 2, 3, 0 - 1, 0 - 2, 0 - 3}
    BY <1>2 DEF LoopSteps, FetchStart, FetchNoAgent, FetchAnswers, FetchHash, FetchWait,
       FetchBlockFails, FetchAppend, FetchReorg, AttestOk, AttestFails, ProcessSteps,
       ProcessNothing, ProcessOutOfOrder, ProcessBlock, ProcessFails, ConfirmSteps,
       ConfirmNothing, Confirm, ConfirmFails, UpgradeSteps, UpgradedStart, UpgradedSigned,
       UpgradedFails, AskHash, Stop, AfterConfirm
  <2>4. start' \in Blk
    <3>1. CASE ProcessBlock(l)
      BY <1>1, <3>1 DEF ProcessBlock, Small
    <3>2. CASE ~ProcessBlock(l)
      <4>1. UNCHANGED start
        BY <1>2, <3>2 DEF LoopSteps, FetchStart, FetchNoAgent, FetchAnswers, FetchHash,
           FetchWait, FetchBlockFails, FetchAppend, FetchReorg, AttestOk, AttestFails,
           ProcessSteps, ProcessNothing, ProcessOutOfOrder, ProcessFails, ConfirmSteps,
           ConfirmNothing, Confirm, ConfirmFails, UpgradeSteps, UpgradedStart,
           UpgradedSigned, UpgradedFails, ClearForConfirm, store
      <4> QED BY <4>1 DEF Small
    <3> QED BY <3>1, <3>2
  <2> QED BY <2>1, <2>2, <2>3, <2>4 DEF Small, Statuses
<1>3. CASE AdminRestart \/ \E s \in {0, 0 - 1, 0 - 2, 0 - 3} : AdminRestartFor(s)
  <2>1. /\ UNCHANGED <<start, upgrades>> /\ restarts' = restarts + 1
        /\ timer' \in Loops /\ status' = 0
    BY <1>3 DEF AdminRestart, AdminRestartFor, Restarted, ResetFor, ClearForProcess,
       ClearForConfirm, store, StartLoop
  <2> QED BY <2>1 DEF Small, Statuses
<1>4. CASE AdminRestartInvalid
  BY <1>4 DEF AdminRestartInvalid, Restarted, store, Small
<1>5. CASE Upgrade
  <2>1. /\ UNCHANGED <<start, restarts>> /\ upgrades' = upgrades + 1
        /\ timer' \in Loops /\ status' = 0
    BY <1>5 DEF Upgrade, ClearForProcess, StartLoop
  <2> QED BY <2>1 DEF Small, Statuses
<1>6. CASE NewBest \/ (\E c \in AgentCalls : AgentStep(c)) \/ UNCHANGED vars
  BY <1>6 DEF NewBest, AgentStep, vars, store, Small
<1> QED BY <1>2, <1>3, <1>4, <1>5, <1>6 DEF Next

LEMMA SmallInit == ASSUME Init PROVE Small /\ AgentTypes
<1>1. start \in Blk
  BY DEF Init, At, Blk
<1>2. AgentTypes
  BY DEF Init, InitAgents, IdleSigner, AgentTypes
<1> QED BY <1>1, <1>2 DEF Init, Small, Statuses

LEMMA ImpliesTypes ==
  ASSUME ChainsValid, ChainState, IndexInv, Small, AgentTypes PROVE TypeOK
<1>1. Chain(queue, tip, processed, processed_blocks, confirmed) /\ LoopInv
  BY DEF ChainState, SyncInv, ChainInv
<1>2. /\ {tip, processed, confirmed, start} \subseteq Blk
      /\ queue \in Seq([height : Nat, hash : Blocks])
      /\ processed_blocks \in Seq([height : Nat, hash : Blocks])
  BY <1>1 DEF Small, Chain, Ok, Oks, Elem
<1>3. loops \in [Loops -> [pc : {"off"} \cup Waiting \cup Awaiting,
                           agent : {<< >>} \cup {<<a>> : a \in Agents},
                           height : Nat, hash : Blocks \cup {NoBlock},
                           left : Seq(Agents)]]
  BY <1>1 DEF LoopInv, GoodLoop, LoopRec
<1> DEFINE P == Suffix(processed.hash)
<1>4. Facts(index, Created(P), Spent(P)) /\ Late(Spent(P))
  <2>1. P \subseteq Blocks
    BY <1>1, SuffixBlocks DEF Chain
  <2> QED BY <2>1, LateSpent DEF IndexInv
<1> HIDE DEF P
<1>5. \A u \in index.uts : /\ index.utxs[u.tx].height = u.height
                          /\ index.utxs[u.tx].spent[u.vout] = 0
  BY <1>4 DEF Facts, Live, Has
<1>6. \A u \in DOMAIN index.sts : /\ index.utxs[u.tx].height = u.height
                                 /\ index.utxs[u.tx].spent[u.vout] = index.sts[u]
                                 /\ index.sts[u] # 0
  BY <1>4 DEF Facts, Marks, Has, Late
<1>7. index.uts \cap DOMAIN index.sts = {}
  BY <1>5, <1>6
<1> QED BY <1>1, <1>2, <1>3, <1>5, <1>6, <1>7
     DEF TypeOK, LoopInv, ChainState, ConfirmationsType, Small, Statuses

\* The types, and the agreement of the three unconfirmed maps: an output is
\* listed as created or as spent, never both, as its transaction has it.
THEOREM SyncingTypes == ASSUME ChainsValid PROVE Spec => []TypeOK
<1>1. Init => Small /\ AgentTypes
  BY SmallInit
<1>2. ChainState /\ Small /\ AgentTypes /\ [Next]_vars => (Small /\ AgentTypes)'
  BY SmallKept, AgentMoves, AgentTypesKept DEF ChainState, SyncInv
<1>3. ChainState /\ IndexInv /\ Small /\ AgentTypes => TypeOK
  BY ImpliesTypes
<1> QED BY <1>1, <1>2, <1>3, IndexAlways, PTL DEF Spec

-----------------------------------------------------------------------------
(* NeverGivesUp: no block is skipped.  The front of the queue extends what  *)
(* was processed last (Tight), processed_blocks has every height from the   *)
(* confirmed one to the processed one (Backlog), and before the first       *)
(* confirmation, when a reset would leave the tip ahead, there is nothing   *)
(* to reset for: the tip and what the loop fetches are on the best chain.   *)

StartOnBest == StartBlock # NoBlock => Under(StartBlock, FirstBest)

LastDone == IF processed.hash = NoBlock THEN StartBlock ELSE processed.hash
Tight    == Beneath(queue, tip) = LastDone

Backlog ==
  /\ confirmed.hash # NoBlock => confirmed.height > 0
  /\ processed.hash = NoBlock => start = At(0, NoBlock)
  /\ start.height \in Nat
  /\ processed_blocks = << >> => processed = confirmed
  /\ processed_blocks # << >> =>
       /\ processed = processed_blocks[Len(processed_blocks)]
       /\ IF confirmed.height > 0
          THEN processed_blocks[1].height = confirmed.height + 1
          ELSE processed_blocks[1].height <= start.height
  /\ \A i \in DOMAIN processed_blocks :
       processed_blocks[i].height = processed_blocks[1].height + (i - 1)

NextHeight == IF tip.hash = NoBlock THEN 0 ELSE tip.height + 1
EarlyLoop(l) ==
  /\ loops[l].pc \in {"hash", "block"} => loops[l].height = NextHeight
  /\ loops[l].pc = "block" => Under(loops[l].hash, best)
EarlyBest ==
  confirmed.height = 0 =>
    /\ tip.hash # NoBlock => Under(tip.hash, best)
    /\ \A l \in Loops : EarlyLoop(l)

OnwardInv == Tight /\ Backlog /\ EarlyBest /\ NeverGivesUp

\* What a step does to the chain, when nothing is skipped.
TakeTarget ==
  /\ Target > confirmed.height
  /\ \E i \in DOMAIN processed_blocks :
       /\ processed_blocks[i].height = Target
       /\ confirmed' = processed_blocks[i]
       /\ processed_blocks' = SubSeq(processed_blocks, i + 1, Len(processed_blocks))
  /\ UNCHANGED <<queue, tip, processed, start>>
TakeNext ==
  /\ TakeFront
  /\ start' = IF start = At(0, NoBlock) THEN Head(queue) ELSE start
Reset == confirmed.height > 0 /\ (BackToProcessed \/ BackToConfirmed)
Onward ==
  \/ TakeTarget \/ TakeNext
  \/ (Extend \/ Reset \/ UNCHANGED chain) /\ UNCHANGED start

-----------------------------------------------------------------------------

LEMMA FrontIsNext ==
  ASSUME ChainInv, Tight, queue # << >>
  PROVE  InOrder(Head(queue).height)
<1> DEFINE f == queue[1].hash
<1>0. Chain(queue, tip, processed, processed_blocks, confirmed)
  BY DEF ChainInv
<1>1. 1 \in DOMAIN queue /\ Head(queue) = queue[1]
  BY <1>0, SeqTail DEF Chain, Oks
<1>2. f \in Blocks /\ Head(queue).height = Height[f]
  BY <1>0, <1>1, ElementOk DEF Chain
<1>3. processed.height # 0 => processed.hash # NoBlock /\ processed.height = Height[processed.hash]
  BY <1>0 DEF Chain, Ok
<1>4. processed.hash # NoBlock => Prev[f] = processed.hash
  BY DEF Tight, Beneath, LastDone
<1> HIDE DEF f
<1> QED BY <1>2, <1>3, <1>4, UnderPrev DEF InOrder

\* A block of a valid chain is indexed without an error.
LEMMA NoBlockFails ==
  ASSUME ChainsValid, ChainInv, AboveStart, IndexInv, queue # << >>,
         InOrder(Head(queue).height)
  PROVE  Processed(Head(queue)).ok
<1> DEFINE q == Head(queue)
           b == Head(queue).hash
           Q == Suffix(b) \ {b}
           new == IndexBlock(index, b, Height[b])
<1>1. /\ b \in Blocks /\ q.height = Height[b]
      /\ Q \in SUBSET (Ancestors[b] \ {b})
      /\ Facts(index, Created(Q), Spent(Q))
  BY BelowFacts
<1>2. Shape(index, Blocks)
  BY DEF IndexInv
<1>3. Processed(q) = new
  BY <1>1 DEF Processed
<1> HIDE DEF Q, b, q
<1>4. Facts(new, Created(Q \cup {b}), Spent(Q \cup {b}))
  BY <1>1, <1>2, BlockFacts
<1> QED BY <1>3, <1>4 DEF Facts, q

\* Every height to confirm has its block in processed_blocks.
LEMMA TargetThere ==
  ASSUME ChainInv, Backlog, min_confirmations \in Nat,
         Target >= start.height, Target > confirmed.height
  PROVE  AtTarget # {}
<1> DEFINE n == Len(processed_blocks)
           first == processed_blocks[1].height
<1>0. Chain(queue, tip, processed, processed_blocks, confirmed)
  BY DEF ChainInv
<1>1. /\ processed.height \in Nat /\ confirmed.height \in Nat
      /\ processed_blocks \in Seq(Elem)
  BY <1>0 DEF Chain, Ok, Oks, Blk
<1>2. Target \in Nat /\ Target <= processed.height
  BY <1>1 DEF Target
<1>3. processed_blocks # << >>
  BY <1>1, <1>2 DEF Backlog
<1>4. n \in Nat \ {0} /\ DOMAIN processed_blocks = 1..n /\ first \in Nat
  <2>1. /\ DOMAIN processed_blocks = 1..n /\ n \in Nat /\ n # 0
        /\ \A j \in DOMAIN processed_blocks : processed_blocks[j] \in Elem
    BY <1>1, <1>3, SeqFacts
  <2>2. processed_blocks[1] \in Elem
    BY <2>1
  <2> QED BY <2>1, <2>2 DEF Elem
<1>5. processed.height = first + (n - 1) /\ first <= Target
  <2>1. n \in DOMAIN processed_blocks /\ processed = processed_blocks[n]
    BY <1>3, <1>4 DEF Backlog
  <2>2. first <= Target
    BY <1>1, <1>2, <1>3, <1>4 DEF Backlog
  <2> QED BY <2>1, <2>2 DEF Backlog
<1> DEFINE i == Target - first + 1
<1>6. i \in DOMAIN processed_blocks /\ processed_blocks[i].height = first + (i - 1)
  <2>1. i \in 1..n
    <3> HIDE DEF first
    <3> QED BY <1>1, <1>2, <1>4, <1>5
  <2> QED BY <1>4, <2>1 DEF Backlog
<1>7. processed_blocks[i].height = Target
  <2> HIDE DEF first
  <2> QED BY <1>2, <1>4, <1>6
<1> HIDE DEF i
<1> QED BY <1>6, <1>7 DEF AtTarget

\* Before the first confirmation an honest block follows the tip.
LEMMA NoEarlyReorg ==
  ASSUME EarlyResets = FALSE, SyncInv, EarlyBest, NEW l \in Loops, FetchReorg(l)
  PROVE  confirmed.height > 0
<1> DEFINE h == loops[l].height
           b == loops[l].hash
<1>0. /\ loops[l].pc = "block" /\ b \in Blocks /\ Height[b] = h
      /\ confirmed.height \in Nat /\ Ok(tip) /\ best \in Blocks
  BY DEF FetchReorg, SyncInv, LoopInv, GoodLoop, ChainInv, Chain, Ok, Blk
<1> SUFFICES ASSUME confirmed.height = 0 PROVE FALSE
  BY <1>0
<1>1. ~Appends(h, b, b)
  <2>1. AgentBlock(Agent(loops[l].agent), b) = {b}
    BY DEF AgentBlock, Lies, MayReset
  <2> QED BY <2>1 DEF FetchReorg
<1>2. /\ tip.hash # NoBlock => Under(tip.hash, best)
      /\ h = NextHeight /\ Under(b, best)
  BY <1>0 DEF EarlyBest, EarlyLoop
<1> HIDE DEF h, b
<1>3. CASE tip.hash = NoBlock
  <2>1. h = 0
    BY <1>2, <1>3 DEF NextHeight
  <2>2. Prev[b] = NoBlock
    BY <1>0, <2>1, ChainAssumption
  <2> QED BY <1>1, <1>3, <2>1, <2>2 DEF Appends
<1>4. CASE tip.hash # NoBlock
  <2>1. h = tip.height + 1 /\ tip.height = Height[tip.hash] /\ tip.hash \in Blocks /\ tip.height \in Nat
    BY <1>0, <1>2, <1>4 DEF NextHeight, Ok, Blk
  <2>2. Prev[b] \in Blocks /\ Height[b] = Height[Prev[b]] + 1 /\ Under(Prev[b], b)
    <3>1. Height[b] # 0
      BY <1>0, <2>1
    <3> QED BY <1>0, <3>1, UnderPrev, ChainAssumption
  <2>3. Height[Prev[b]] = Height[tip.hash]
    BY <1>0, <2>1, <2>2, ChainAssumption
  <2>4. Under(tip.hash, Prev[b])
    <3>1. Under(Prev[b], best)
      BY <1>2, <2>2, UnderTrans
    <3> QED BY <1>2, <1>4, <2>1, <2>2, <2>3, <3>1, Linear
  <2>5. Prev[b] = tip.hash
    BY <2>3, <2>4, UnderHeight
  <2> QED BY <1>1, <2>1, <2>5 DEF Appends
<1> QED BY <1>3, <1>4

\* A step that changes neither the chain nor what a loop reported last.
Steady == UNCHANGED <<chain, start>> /\ status' \in {status, 0, 1, 2, 3, 0 - 1}

LEMMA OnwardMoves ==
  ASSUME ChainsValid, EarlyResets = FALSE, ChainState, IndexInv, OnwardInv, [Next]_vars
  PROVE  Onward /\ NeverGivesUp'
<1>0. /\ SyncInv /\ ChainInv /\ LoopInv /\ AboveStart /\ min_confirmations \in Nat
      /\ confirmed.height \in Nat /\ NeverGivesUp
  BY SyncingAssumption
     DEF ChainState, SyncInv, ConfirmationsType, ChainInv, Chain, Ok, Blk, OnwardInv
<1>1. ASSUME Steady PROVE Onward /\ NeverGivesUp'
  BY <1>0, <1>1 DEF Steady, Onward, NeverGivesUp
<1>2. ASSUME NEW l \in Loops, LoopSteps(l) PROVE Onward /\ NeverGivesUp'
  <2>1. CASE FetchAppend(l)
    <3> DEFINE h == loops[l].height
               b == loops[l].hash
    <3>1. b \in Blocks /\ Height[b] = h
      BY <1>0, <2>1 DEF FetchAppend, LoopInv, GoodLoop
    <3>2. Prev[b] = tip.hash
      BY <2>1 DEF FetchAppend, Appends
    <3>3. /\ queue' = Append(queue, At(h, b)) /\ tip' = At(h, b)
          /\ UNCHANGED <<processed, processed_blocks, confirmed, start, status>>
      BY <2>1 DEF FetchAppend
    <3>4. Extend
      <4> HIDE DEF b, h
      <4> QED BY <3>1, <3>2, <3>3 DEF Extend
    <3> QED BY <1>0, <3>3, <3>4 DEF Onward, NeverGivesUp
  <2>2. CASE FetchReorg(l)
    <3>1. confirmed.height > 0
      BY <1>0, <2>2, NoEarlyReorg DEF OnwardInv
    <3> QED BY <1>0, <2>2, <3>1
            DEF FetchReorg, ClearForConfirm, BackToConfirmed, Reset, Onward, NeverGivesUp
  <2>3. CASE ProcessOutOfOrder(l)
    BY <1>0, <2>3, FrontIsNext DEF ProcessOutOfOrder, OnwardInv
  <2>4. CASE ProcessBlock(l)
    BY <2>4 DEF ProcessBlock, TakeFront, TakeNext, Onward, NeverGivesUp
  <2>5. CASE ProcessFails(l)
    BY <1>0, <2>5, NoBlockFails DEF ProcessFails
  <2>6. CASE Confirm(l)
    BY <2>6 DEF Confirm, AtTarget, AfterConfirm, TakeTarget, Onward, NeverGivesUp
  <2>7. CASE ConfirmFails(l)
    BY <1>0, <2>7, TargetThere DEF ConfirmFails, OnwardInv
  <2>8. CASE FetchStart(l) \/ FetchNoAgent(l) \/ FetchHash(l) \/ FetchWait(l)
             \/ FetchBlockFails(l) \/ AttestOk(l) \/ AttestFails(l)
    <3>1. Steady
      BY <2>8 DEF FetchStart, FetchNoAgent, FetchHash, FetchWait, FetchBlockFails, AttestOk,
         AttestFails, AskHash, Stop, store, chain, Steady
    <3> QED BY <1>1, <3>1
  <2>9. CASE ProcessNothing(l) \/ ConfirmNothing(l) \/ UpgradeSteps(l)
    <3>1. Steady
      BY <2>9 DEF ProcessNothing, ConfirmNothing, AfterConfirm, UpgradeSteps, UpgradedStart,
         UpgradedSigned, UpgradedFails, AskHash, store, chain, Steady
    <3> QED BY <1>1, <3>1
  <2> QED BY <1>2, <2>1, <2>2, <2>3, <2>4, <2>5, <2>6, <2>7, <2>8, <2>9
          DEF LoopSteps, FetchAnswers, ProcessSteps, ConfirmSteps
<1>3. ASSUME NEW s, ResetFor(s), status' = 0 PROVE Onward /\ NeverGivesUp'
  <2>1. MayReset => confirmed.height > 0
    BY DEF MayReset
  <2> QED BY <1>3, <2>1 DEF ResetFor, ClearForProcess, ClearForConfirm, store, chain,
          BackToProcessed, BackToConfirmed, Reset, Onward, NeverGivesUp
<1>4. CASE AdminRestart \/ \E s \in {0, 0 - 1, 0 - 2, 0 - 3} : AdminRestartFor(s)
  <2>1. \E s : ResetFor(s)
    BY <1>4 DEF AdminRestart, AdminRestartFor
  <2>2. status' = 0
    BY <1>4 DEF AdminRestart, AdminRestartFor, StartLoop
  <2> QED BY <1>3, <2>1, <2>2
<1>5. CASE Upgrade
  BY <1>5 DEF Upgrade, StartLoop, ClearForProcess, MayReset, BackToProcessed, Reset, Onward,
     NeverGivesUp
<1>6. CASE AdminRestartInvalid \/ NewBest \/ (\E c \in AgentCalls : AgentStep(c))
             \/ UNCHANGED vars
  <2>1. Steady
    BY <1>6 DEF AdminRestartInvalid, NewBest, AgentStep, vars, store, chain, Steady
  <2> QED BY <1>1, <2>1
<1> QED BY <1>2, <1>4, <1>5, <1>6 DEF Next

LEMMA TightKept ==
  ASSUME ChainInv, Tight, Onward PROVE Tight'
<1>0. Chain(queue, tip, processed, processed_blocks, confirmed)
  BY DEF ChainInv
<1>1. queue \in Seq(Elem) /\ Ok(processed) /\ Ok(confirmed)
  BY <1>0 DEF Chain, Oks
<1>2. Beneath(queue, tip) = LastDone
  BY DEF Tight
<1>3. CASE TakeTarget
  BY <1>2, <1>3 DEF TakeTarget, Tight, LastDone
<1>4. CASE TakeNext
  <2> DEFINE f == queue[1].hash
  <2>1. /\ queue # << >> /\ queue' = Tail(queue) /\ processed' = Head(queue) /\ UNCHANGED tip
    BY <1>4 DEF TakeNext, TakeFront
  <2>2. /\ 1 \in DOMAIN queue /\ Head(queue) = queue[1] /\ DOMAIN queue = 1..Len(queue)
        /\ Len(queue) \in Nat /\ (Tail(queue) = << >> <=> Len(queue) = 1)
    BY <1>1, <2>1, SeqTail, SeqFacts
  <2>3. f # NoBlock
    BY <1>0, <2>2, ElementOk DEF Chain
  <2>4. Beneath(Tail(queue), tip) = f
    <3>1. CASE Len(queue) = 1
      BY <1>0, <2>1, <2>2, <3>1 DEF Chain, Linked, Beneath
    <3>2. CASE Len(queue) # 1
      <4>1. 2 \in 2..Len(queue) /\ Tail(queue)[1] = queue[2]
        BY <1>1, <2>1, <2>2, <3>2
      <4>2. Prev[queue[2].hash] = queue[2 - 1].hash
        BY <1>0, <4>1 DEF Chain, Linked
      <4> QED BY <2>2, <3>2, <4>1, <4>2 DEF Beneath
    <3> QED BY <3>1, <3>2
  <2> QED BY <2>1, <2>2, <2>3, <2>4 DEF Tight, LastDone
<1>5. CASE Extend
  <2>1. PICK b \in Blocks : /\ Prev[b] = tip.hash
                            /\ queue' = Append(queue, At(Height[b], b))
                            /\ tip' = At(Height[b], b)
    BY <1>5 DEF Extend
  <2> DEFINE e == At(Height[b], b)
  <2>2. e \in Elem /\ e.hash = b
    BY AtOk
  <2> HIDE DEF e
  <2>3. /\ DOMAIN Append(queue, e) = 1..(Len(queue) + 1) /\ DOMAIN queue = 1..Len(queue)
        /\ Append(queue, e)[Len(queue) + 1] = e /\ Len(queue) \in Nat
        /\ \A i \in DOMAIN queue : Append(queue, e)[i] = queue[i]
        /\ (queue = << >> <=> Len(queue) = 0)
    BY <1>1, <2>2, SeqAppend, SeqFacts
  <2>4. Append(queue, e) # << >>
    <3>1. 1 \in DOMAIN Append(queue, e)
      BY <2>3
    <3>2. DOMAIN << >> = {}
      OBVIOUS
    <3> QED BY <3>1, <3>2
  <2>5. Beneath(Append(queue, e), e) = Beneath(queue, tip)
    <3>1. CASE queue = << >>
      BY <2>1, <2>2, <2>3, <2>4, <3>1 DEF Beneath
    <3>2. CASE queue # << >>
      <4>1. 1 \in DOMAIN queue
        BY <2>3, <3>2
      <4> QED BY <2>3, <2>4, <3>2, <4>1 DEF Beneath
    <3> QED BY <3>1, <3>2
  <2>6. UNCHANGED processed
    BY <1>5 DEF Extend
  <2> QED BY <1>2, <2>1, <2>5, <2>6 DEF Tight, LastDone, e
<1>6. CASE Reset
  <2>1. confirmed.height > 0 /\ confirmed.height \in Nat /\ processed.height \in Nat
    BY <1>1, <1>6 DEF Reset, Ok, Blk
  <2>2. processed.height >= confirmed.height
    BY ImpliesOneChain DEF OnOneChain
  <2>3. processed.hash # NoBlock /\ confirmed.hash # NoBlock /\ processed.height > 0
    BY <1>1, <2>1, <2>2 DEF Ok
  <2> QED BY <1>6, <2>1, <2>3
          DEF Reset, BackToProcessed, BackToConfirmed, TipReset, Tight, Beneath, LastDone
<1>7. CASE UNCHANGED chain
  BY <1>2, <1>7 DEF chain, Tight, LastDone
<1> QED BY <1>3, <1>4, <1>5, <1>6, <1>7 DEF Onward

LEMMA BacklogKept ==
  ASSUME ChainInv, Backlog, Tight, min_confirmations \in Nat, Onward PROVE Backlog'
<1> DEFINE pb == processed_blocks
           n == Len(processed_blocks)
<1>0. Chain(queue, tip, processed, processed_blocks, confirmed)
  BY DEF ChainInv
<1>1. /\ pb \in Seq(Elem) /\ queue \in Seq(Elem)
      /\ confirmed.height \in Nat /\ processed.height \in Nat
  BY <1>0 DEF Chain, Oks, Ok, Blk
<1>2. /\ DOMAIN pb = 1..n /\ n \in Nat /\ (pb = << >> <=> n = 0)
      /\ \A i \in DOMAIN pb : pb[i] \in Elem
  BY <1>1, SeqFacts
<1>3. \A i \in DOMAIN pb : /\ pb[i].height = pb[1].height + (i - 1) /\ pb[1].height \in Nat
                           /\ pb[i].hash # NoBlock
  <2>1. \A i \in DOMAIN pb : pb[i].hash \in Blocks
    BY <1>2 DEF Elem
  <2>2. \A i \in DOMAIN pb : pb[1] \in Elem
    BY <1>2
  <2> QED BY <2>1, <2>2, ChainAssumption DEF Backlog, Elem
<1>4. CASE TakeTarget
  <2>1. PICK i \in DOMAIN pb : /\ pb[i].height = Target /\ confirmed' = pb[i]
                               /\ processed_blocks' = SubSeq(pb, i + 1, n)
    BY <1>4 DEF TakeTarget
  <2>2. Target > confirmed.height /\ Target \in Nat /\ UNCHANGED <<processed, start>>
    BY <1>1, <1>4 DEF TakeTarget, Target
  <2>3. /\ processed = pb[n] /\ n \in 1..n /\ i \in 1..n
    BY <1>2, <2>1 DEF Backlog
  <2> DEFINE rest == SubSeq(pb, i + 1, n)
  <2>4. /\ rest \in Seq(Elem) /\ Len(rest) = n - i
        /\ \A j \in 1..(n - i) : rest[j] = pb[i + j]
    BY <1>1, <1>2, <2>3, SubSeqProperties, SMTT(30)
  <2>5. DOMAIN rest = 1..(n - i) /\ (rest = << >> <=> n = i)
    BY <1>2, <2>3, <2>4, SeqFacts
  <2> HIDE DEF rest
  <2>6. CASE n = i
    <3>1. rest = << >> /\ DOMAIN rest = {}
      BY <1>2, <2>3, <2>5, <2>6
    <3>2. /\ processed_blocks' = << >> /\ processed' = confirmed' /\ confirmed'.height > 0
      BY <1>1, <2>1, <2>2, <2>3, <2>6, <3>1 DEF rest
    <3>3. processed'.hash # NoBlock
      BY <1>3, <2>2, <2>3, <2>6
    <3> QED BY <2>2, <3>2, <3>3 DEF Backlog
  <2>7. CASE n # i
    <3>1. /\ n - i \in 1..(n - i) /\ 1 \in 1..(n - i)
          /\ i + (n - i) = n
      BY <1>2, <2>3, <2>7
    <3>2. /\ rest # << >> /\ rest[Len(rest)] = processed /\ rest[1] = pb[i + 1]
      BY <2>3, <2>4, <2>5, <2>7, <3>1
    <3>3. rest[1].height = Target + 1
      <4>1. i + 1 \in DOMAIN pb
        BY <1>2, <2>3, <2>7
      <4>2. /\ pb[i + 1].height = pb[1].height + ((i + 1) - 1)
            /\ pb[i].height = pb[1].height + (i - 1) /\ pb[1].height \in Nat
        BY <1>3, <4>1
      <4> HIDE DEF pb, n
      <4> QED BY <1>2, <2>1, <2>3, <3>2, <4>2
    <3>4. \A j \in DOMAIN rest : rest[j].height = rest[1].height + (j - 1)
      <4> SUFFICES ASSUME NEW j \in DOMAIN rest
                   PROVE  rest[j].height = rest[1].height + (j - 1)
        OBVIOUS
      <4>1. i + j \in DOMAIN pb /\ rest[j] = pb[i + j] /\ j \in Nat
        BY <1>2, <2>3, <2>4, <2>5
      <4>2. /\ pb[i + j].height = pb[1].height + ((i + j) - 1)
            /\ pb[i].height = pb[1].height + (i - 1) /\ pb[1].height \in Nat
        BY <1>3, <4>1
      <4> HIDE DEF pb, n
      <4> QED BY <1>2, <2>1, <2>3, <3>3, <4>1, <4>2, SMTT(30)
    <3>5. /\ processed_blocks' = rest /\ confirmed'.height = Target /\ Target > 0
          /\ processed' = processed
      BY <1>1, <2>1, <2>2 DEF rest
    <3>6. processed'.hash # NoBlock
      BY <1>3, <2>2, <2>3
    <3> HIDE DEF pb, n
    <3> QED BY <2>2, <3>2, <3>3, <3>4, <3>5, <3>6 DEF Backlog
  <2> QED BY <2>6, <2>7
<1>5. CASE TakeNext
  <2> DEFINE f == queue[1]
  <2>1. /\ queue # << >> /\ processed' = Head(queue)
        /\ processed_blocks' = Append(processed_blocks, Head(queue))
        /\ start' = IF start = At(0, NoBlock) THEN Head(queue) ELSE start
        /\ UNCHANGED confirmed
    BY <1>5 DEF TakeNext, TakeFront
  <2>2. /\ 1 \in DOMAIN queue /\ Head(queue) = f /\ f \in Elem
        /\ f.hash \in Blocks /\ f.height = Height[f.hash] /\ f.hash # NoBlock
    BY <1>0, <1>1, <2>1, SeqTail, ElementOk DEF Chain
  <2>3. processed.hash # NoBlock => f.height = processed.height + 1
    <3>1. processed.hash # NoBlock => Prev[f.hash] = processed.hash
      BY <2>1 DEF Tight, Beneath, LastDone
    <3>2. processed.hash # NoBlock => processed.height = Height[processed.hash]
      BY <1>0 DEF Chain, Ok
    <3> QED BY <2>2, <3>1, <3>2, UnderPrev
  <2> HIDE DEF f
  <2> DEFINE more == Append(pb, f)
  <2>4. /\ DOMAIN more = 1..(n + 1) /\ Len(more) = n + 1 /\ more[n + 1] = f
        /\ \A i \in DOMAIN pb : more[i] = pb[i]
    BY <1>1, <1>2, <2>2, SeqAppend
  <2>5. f.height \in Nat /\ start'.height \in Nat
    BY <2>1, <2>2 DEF Elem, Backlog
  <2>6. more # << >>
    <3>1. 1 \in DOMAIN more
      BY <1>2, <2>4
    <3>2. DOMAIN << >> = {}
      OBVIOUS
    <3> QED BY <3>1, <3>2
  <2>7. CASE n = 0
    <3>1. processed = confirmed /\ more[1] = f /\ DOMAIN more = {1}
      BY <1>2, <2>4, <2>7 DEF Backlog
    <3>2. CASE confirmed.height > 0
      <4>1. f.height = confirmed.height + 1
        BY <1>0, <2>3, <3>1, <3>2 DEF Chain, Ok
      <4> HIDE DEF more
      <4> QED BY <2>1, <2>2, <2>4, <2>5, <2>6, <2>7, <3>1, <3>2, <4>1 DEF Backlog, more
    <3>3. CASE confirmed.height = 0
      <4>1. start' = f
        BY <2>1, <2>2, <3>1, <3>3 DEF Backlog
      <4> HIDE DEF more
      <4> QED BY <2>1, <2>2, <2>4, <2>5, <2>6, <2>7, <3>1, <3>3, <4>1 DEF Backlog, more
    <3> QED BY <1>1, <3>2, <3>3
  <2>8. CASE n # 0
    <3>1. /\ pb # << >> /\ 1 \in DOMAIN pb /\ n \in DOMAIN pb /\ more[1] = pb[1]
          /\ processed = pb[n]
      BY <1>2, <2>4, <2>8 DEF Backlog
    <3>2. /\ f.height = pb[1].height + n /\ start.height <= start'.height
      <4>1. processed.hash # NoBlock /\ processed.height = pb[1].height + (n - 1)
            /\ pb[1].height \in Nat
        BY <1>3, <3>1
      <4>2. start.height \in Nat /\ At(0, NoBlock).height = 0
        BY DEF Backlog, At
      <4>3. start' = start \/ (start.height = 0 /\ start' = f)
        BY <2>1, <2>2, <4>2
      <4>4. start.height <= start'.height
        BY <2>5, <4>2, <4>3
      <4>5. f.height = pb[1].height + n
        <5> HIDE DEF pb, n
        <5> QED BY <1>2, <2>3, <4>1
      <4> QED BY <4>4, <4>5
    <3>3. \A i \in DOMAIN more : more[i].height = more[1].height + (i - 1)
      BY <1>2, <1>3, <2>4, <3>1, <3>2
    <3> HIDE DEF more
    <3>4. start.height \in Nat /\ pb[1].height \in Nat
      BY <1>3, <3>1 DEF Backlog
    <3> QED BY <2>1, <2>2, <2>4, <2>5, <2>6, <3>1, <3>2, <3>3, <3>4, SMTT(30) DEF Backlog, more
  <2> QED BY <2>7, <2>8
<1>6. CASE Reset /\ UNCHANGED start
  <2>1. /\ confirmed.height > 0 /\ confirmed.hash # NoBlock /\ UNCHANGED <<confirmed, start>>
    BY <1>0, <1>6 DEF Reset, BackToProcessed, BackToConfirmed, Chain, Ok
  <2>2. CASE BackToProcessed
    BY <2>1, <2>2 DEF BackToProcessed, Backlog
  <2>3. CASE BackToConfirmed
    BY <2>1, <2>3 DEF BackToConfirmed, Backlog
  <2> QED BY <1>6, <2>2, <2>3 DEF Reset
<1>7. CASE (Extend \/ UNCHANGED chain) /\ UNCHANGED start
  BY <1>7 DEF Extend, chain, Backlog
<1> QED BY <1>4, <1>5, <1>6, <1>7 DEF Onward

LEMMA TipMoves ==
  ASSUME [Next]_vars
  PROVE  UNCHANGED tip \/ MayReset \/ \E l \in Loops : FetchAppend(l) \/ FetchReorg(l)
  BY DEF Next, vars, AdminRestart, AdminRestartFor, AdminRestartInvalid, ResetFor,
     ClearForProcess, ClearForConfirm, Upgrade, NewBest, AgentStep, LoopSteps, FetchStart,
     FetchNoAgent, FetchAnswers, FetchHash, FetchWait, FetchBlockFails, AttestOk, AttestFails,
     ProcessSteps, ProcessNothing, ProcessOutOfOrder, ProcessBlock, ProcessFails, ConfirmSteps,
     ConfirmNothing, Confirm, ConfirmFails, UpgradeSteps, UpgradedStart, UpgradedSigned,
     UpgradedFails, store

\* A loop's step while nothing is confirmed and nothing is reset.
LEMMA LoopStepEarly ==
  ASSUME EarlyResets = FALSE, SyncInv, EarlyBest, confirmed.height = 0, NEW l \in Loops,
         LoopSteps(l), ~FetchReorg(l)
  PROVE  EarlyLoop(l)'
<1>0. loops \in [Loops -> LoopRec] /\ best \in Blocks
  BY DEF SyncInv, LoopInv, GoodLoop
<1>1. ASSUME loops'[l].pc \notin {"hash", "block"} PROVE EarlyLoop(l)'
  BY <1>1 DEF EarlyLoop
<1>2. ASSUME NEW list, AskHash(l, list), UNCHANGED tip PROVE EarlyLoop(l)'
  <2>1. loops'[l].pc = "hash" /\ loops'[l].height = NextHeight
    BY <1>0, <1>2 DEF AskHash, IdleLoop, NextHeight
  <2> QED BY <1>2, <2>1 DEF EarlyLoop, NextHeight
<1>3. CASE FetchStart(l)
  BY <1>2, <1>3 DEF FetchStart, store
<1>4. CASE FetchHash(l)
  <2>1. PICK b \in AgentAt(Agent(loops[l].agent), loops[l].height) :
          loops' = [loops EXCEPT ![l].pc = "block", ![l].hash = b]
    BY <1>4 DEF FetchHash
  <2>2. Under(b, best)
    BY <1>0, <2>1 DEF AgentAt, Lies, MayReset, BestAt, Under
  <2>3. /\ loops[l].pc = "hash" /\ loops'[l].hash = b /\ loops'[l].height = loops[l].height
        /\ UNCHANGED <<tip, best>>
    BY <1>0, <1>4, <2>1 DEF FetchHash, LoopRec, store, world
  <2>4. loops[l].height = NextHeight
    BY <2>3 DEF EarlyBest, EarlyLoop
  <2> QED BY <2>2, <2>3, <2>4 DEF EarlyLoop, NextHeight
<1>5. CASE FetchAppend(l) \/ AttestOk(l)
  <2>1. \E left : Attested(l, left)
    BY <1>5 DEF FetchAppend, AttestOk
  <2>2. loops'[l].pc \in {"process", "attest"}
    BY <1>0, <2>1 DEF Attested, SetTimer, IdleLoop, LoopRec
  <2> QED BY <1>1, <2>2
<1>6. CASE FetchNoAgent(l) \/ FetchWait(l) \/ FetchBlockFails(l) \/ AttestFails(l)
           \/ UpgradedFails(l)
  BY <1>0, <1>1, <1>6 DEF FetchNoAgent, FetchWait, FetchBlockFails, AttestFails,
     UpgradedFails, SetTimer, Stop, IdleLoop
<1>7. CASE ProcessSteps(l) \/ ConfirmSteps(l)
  BY <1>0, <1>1, <1>7 DEF ProcessSteps, ProcessNothing, ProcessOutOfOrder, ProcessBlock,
     ProcessFails, ConfirmSteps, ConfirmNothing, Confirm, ConfirmFails, AfterConfirm, SetTimer,
     Stop, IdleLoop
<1>8. CASE UpgradedStart(l)
  BY <1>0, <1>1, <1>8 DEF UpgradedStart, LoopRec
<1>9. CASE UpgradedSigned(l)
  <2>1. CASE UNCHANGED loops
    BY <1>1, <1>9, <2>1 DEF UpgradedSigned
  <2>2. CASE AskHash(l, rpc_agents')
    BY <1>2, <1>9, <2>2 DEF UpgradedSigned, store
  <2> QED BY <1>9, <2>1, <2>2 DEF UpgradedSigned
<1> QED BY <1>3, <1>4, <1>5, <1>6, <1>7, <1>8, <1>9 DEF LoopSteps, FetchAnswers, UpgradeSteps

LEMMA EarlyKept ==
  ASSUME EarlyResets = FALSE, SingleLoop, SyncInv, EarlyBest, Onward, [Next]_vars
  PROVE  EarlyBest'
<1> SUFFICES ASSUME confirmed'.height = 0 PROVE EarlyBest'
  BY DEF EarlyBest
<1>0. confirmed.height \in Nat /\ loops \in [Loops -> LoopRec] /\ best \in Blocks
  BY DEF SyncInv, ChainInv, Chain, Ok, Blk, LoopInv, GoodLoop
<1>1. confirmed.height = 0
  <2>1. ~TakeTarget
    BY <1>0 DEF TakeTarget, Target
  <2> QED BY <2>1 DEF Onward, TakeNext, TakeFront, Extend, Reset, BackToProcessed,
          BackToConfirmed, chain
<1>2. /\ tip.hash # NoBlock => Under(tip.hash, best)
      /\ \A l \in Loops : EarlyLoop(l)
  BY <1>1 DEF EarlyBest
<1>3. ~MayReset /\ \A l \in Loops : ~FetchReorg(l)
  <2>1. ~MayReset
    BY <1>1 DEF MayReset
  <2>2. ASSUME NEW l \in Loops, FetchReorg(l) PROVE FALSE
    <3>1. confirmed.height > 0
      BY <2>2, NoEarlyReorg
    <3> QED BY <1>1, <3>1
  <2> QED BY <2>1, <2>2
<1>4. \A b : Under(b, best) => Under(b, best')
  <2>1. CASE UNCHANGED best
    BY <2>1
  <2>2. CASE NewBest
    <3>1. best \in Ancestors[best'] /\ best' \in Blocks
      BY <1>3, <2>2 DEF NewBest
    <3> QED BY <3>1, UnderTrans DEF Under
  <2> QED BY <2>1, <2>2, BestMoves
<1>5. CASE \E l \in Loops : FetchAppend(l)
  <2>1. PICK l \in Loops : FetchAppend(l)
    BY <1>5
  <2>2. tip'.hash = loops[l].hash /\ loops[l].pc = "block"
    BY <2>1 DEF FetchAppend, At
  <2>3. Under(tip'.hash, best')
    BY <1>2, <1>4, <2>2 DEF EarlyLoop
  <2>4. EarlyLoop(l)'
    BY <1>1, <1>3, <2>1, LoopStepEarly DEF LoopSteps, FetchAnswers
  <2> QED BY <2>3, <2>4 DEF EarlyBest, SingleLoop
<1>6. CASE UNCHANGED tip
  <2>1. ASSUME NEW l \in Loops PROVE EarlyLoop(l)'
    <3>1. ASSUME NEW k \in Loops, LoopSteps(k) PROVE EarlyLoop(l)'
      BY <1>1, <1>3, <3>1, LoopStepEarly DEF SingleLoop
    <3>2. ASSUME loops'[l] = loops[l] PROVE EarlyLoop(l)'
      BY <1>2, <1>4, <1>6, <3>2 DEF EarlyLoop, NextHeight
    <3>3. ASSUME loops'[l].pc \notin {"hash", "block"} PROVE EarlyLoop(l)'
      BY <3>3 DEF EarlyLoop
    <3>4. CASE AdminRestart \/ \E s \in {0, 0 - 1, 0 - 2, 0 - 3} : AdminRestartFor(s)
      <4>1. \E k \in Loops : StartLoop(loops, k, "fetch") \/ StartLoop(Cleared, k, "fetch")
        BY <3>4 DEF AdminRestart, AdminRestartFor
      <4>2. DOMAIN loops = Loops /\ DOMAIN Cleared = Loops
        BY <1>0 DEF Cleared
      <4>3. loops'[l].pc = "fetch"
        BY <4>1, <4>2 DEF StartLoop, SingleLoop, IdleLoop
      <4> QED BY <3>3, <4>3
    <3>5. CASE Upgrade
      BY <1>3, <3>5 DEF Upgrade
    <3>6. CASE AdminRestartInvalid
      <4>1. loops'[l] = loops[l] \/ loops'[l].pc = "off"
        BY <1>0, <3>6 DEF AdminRestartInvalid, Cleared, IdleLoop
      <4> QED BY <3>2, <3>3, <4>1
    <3>7. CASE NewBest \/ (\E c \in AgentCalls : AgentStep(c)) \/ UNCHANGED vars
      BY <3>2, <3>7 DEF NewBest, AgentStep, vars
    <3> QED BY <3>1, <3>4, <3>5, <3>6, <3>7 DEF Next
  <2> QED BY <1>2, <1>4, <1>6, <2>1 DEF EarlyBest
<1> QED BY <1>3, <1>5, <1>6, TipMoves

LEMMA OnwardInit == ASSUME StartOnBest, Init PROVE OnwardInv
<1>1. /\ tip.hash = StartBlock /\ processed = At(0, NoBlock) /\ confirmed = At(0, NoBlock)
      /\ start = At(0, NoBlock) /\ queue = << >> /\ processed_blocks = << >> /\ status = 0
      /\ best = FirstBest /\ loops = [l \in Loops |-> IdleLoop]
  BY DEF Init, At
<1>2. Tight
  BY <1>1 DEF Tight, Beneath, LastDone, At
<1>3. Backlog
  BY <1>1 DEF Backlog, At
<1>4. EarlyBest
  BY <1>1 DEF EarlyBest, EarlyLoop, StartOnBest, IdleLoop
<1> QED BY <1>1, <1>2, <1>3, <1>4 DEF OnwardInv, NeverGivesUp

LEMMA OnwardKept ==
  ASSUME ChainsValid, EarlyResets = FALSE, SingleLoop, ChainState, IndexInv, OnwardInv,
         [Next]_vars
  PROVE  OnwardInv'
<1>1. Onward /\ NeverGivesUp'
  BY OnwardMoves
<1>2. SyncInv /\ ChainInv /\ min_confirmations \in Nat
  BY SyncingAssumption DEF ChainState, SyncInv, ConfirmationsType
<1> QED BY <1>1, <1>2, TightKept, BacklogKept, EarlyKept DEF OnwardInv

LEMMA OnwardAlways ==
  ASSUME ChainsValid, EarlyResets = FALSE, SingleLoop, StartOnBest
  PROVE  Spec => [](ChainState /\ IndexInv /\ OnwardInv)
<1>1. Init => OnwardInv
  BY OnwardInit
<1>2. ChainState /\ IndexInv /\ OnwardInv /\ [Next]_vars => OnwardInv'
  BY OnwardKept
<1> QED BY <1>1, <1>2, IndexAlways, PTL DEF Spec

\* One loop that is not reset before it first confirms: no block is out of
\* order and no height to confirm lacks its block, for any lies, failures,
\* restarts and upgrades after that, and for forks of any depth.
THEOREM KeepsGoing ==
  ASSUME ChainsValid, EarlyResets = FALSE, SingleLoop, StartOnBest
  PROVE  Spec => []NeverGivesUp
<1>1. OnwardInv => NeverGivesUp
  BY DEF OnwardInv
<1> QED BY <1>1, OnwardAlways, PTL

-----------------------------------------------------------------------------
(* Completeness: what the index may not lose are the outputs of the chain  *)
(* that is followed whose points S, what the best chain spends, has not.   *)

SpendsOnly(t, S) == \A k \in DOMAIN Ins[t] : Ins[t][k] \in S
NoneLost(ix, O, S) == IsIndex(ix) /\ (ix.ok => \A o \in O : Point(o) \notin S => o \in ix.uts)

LEMMA SpendLoses ==
  ASSUME NEW ix, NEW O, NEW S, NoneLost(ix, O, S), NEW in \in S, Point(in) = in, NEW h
  PROVE  NoneLost(SpendInput(ix, in, h), O, S)
<1> DEFINE known == Loaded(ix, in.tx)
           bad  == [known EXCEPT !.ok = FALSE]
           new  == SpendOutput(known, in, h)
           utxo == [height |-> known.utxs[in.tx].height, tx |-> in.tx, vout |-> in.vout]
<1>1. IsIndex(known) /\ known.uts = ix.uts /\ known.ok = ix.ok
  BY LoadFields DEF NoneLost
<1>2. \/ SpendInput(ix, in, h) = ix \/ SpendInput(ix, in, h) = bad
      \/ SpendInput(ix, in, h) = new
  BY Zenon DEF SpendInput
<1> HIDE DEF known
<1>3. IsIndex(bad) /\ ~bad.ok
  BY <1>1 DEF IsIndex
<1>4. /\ IsIndex(new) /\ new.ok = known.ok
      /\ new.uts = IF Pays(in.tx, in.vout) THEN known.uts \ {utxo} ELSE known.uts
  BY <1>1 DEF SpendOutput, IsIndex
<1>5. Point(utxo) = in
  BY DEF Point
<1> HIDE DEF bad, new, utxo
<1>6. NoneLost(bad, O, S) /\ NoneLost(new, O, S)
  BY <1>1, <1>3, <1>4, <1>5 DEF NoneLost
<1> QED BY <1>2, <1>6, Zenon

LEMMA AddLoses ==
  ASSUME NEW ix, NEW O, NEW S, NoneLost(ix, O, S), ix.ok, NEW t, NEW h
  PROVE  NoneLost(AddOutputs(ix, t, h), O \cup CreatedBy(t, h), S)
<1> DEFINE new == AddOutputs(ix, t, h)
<1>1. IsIndex(new) /\ new.uts = ix.uts \cup CreatedBy(t, h) /\ new.ok = ix.ok
  BY DEF NoneLost, IsIndex, AddOutputs, CreatedBy
<1> HIDE DEF new
<1>2. NoneLost(new, O \cup CreatedBy(t, h), S)
  BY <1>1 DEF NoneLost
<1> QED BY <1>2 DEF new

LEMMA TxLoses ==
  ASSUME NEW ix, NEW O, NEW S, NoneLost(ix, O, S), NEW t \in DOMAIN OutCount, NEW h,
         SpendsOnly(t, S)
  PROVE  NoneLost(ProcessTx(ix, t, h), O \cup CreatedBy(t, h), S)
<1> DEFINE n == Len(Ins[t])
<1>1. n \in Nat /\ DOMAIN Ins[t] = 1..n /\ \A k \in 1..n : Point(Ins[t][k]) = Ins[t][k]
  BY InputsDomain
<1>2. PICK r : /\ r[0] = ix
               /\ \A i \in 1..n : r[i] = SpendInput(r[i - 1], Ins[t][i], h)
               /\ ProcessTx(ix, t, h) = IF r[n].ok THEN AddOutputs(r[n], t, h) ELSE r[n]
  <2>1. n \in Nat /\ DOMAIN Ins[t] = 1..n
    BY <1>1
  <2> HIDE DEF n
  <2> QED BY <2>1, InputsRun
<1>3. NoneLost(r[n], O, S)
  <2> HIDE DEF n
  <2> DEFINE G == {i \in 0..n : NoneLost(r[i], O, S)}
  <2>1. 0 \in G
    BY <1>1, <1>2
  <2>2. \A i \in 1..n : i - 1 \in G => i \in G
    <3> SUFFICES ASSUME NEW i \in 1..n, i - 1 \in G PROVE i \in G
      OBVIOUS
    <3> DEFINE in == Ins[t][i]
    <3>1. in \in S /\ Point(in) = in /\ r[i] = SpendInput(r[i - 1], in, h)
      BY <1>1, <1>2 DEF SpendsOnly
    <3>2. NoneLost(r[i - 1], O, S)
      OBVIOUS
    <3> HIDE DEF in
    <3>3. NoneLost(r[i], O, S)
      BY <3>1, <3>2, SpendLoses
    <3> QED BY <1>1, <3>3
  <2>3. n \in G
    <3> HIDE DEF G
    <3> QED BY <1>1, <2>1, <2>2, Climb
  <2> QED BY <2>3
<1>4. r[n].ok => NoneLost(AddOutputs(r[n], t, h), O \cup CreatedBy(t, h), S)
  <2> HIDE DEF n
  <2> QED BY <1>3, AddLoses
<1>5. ~r[n].ok => NoneLost(r[n], O \cup CreatedBy(t, h), S)
  BY <1>3 DEF NoneLost
<1> QED BY <1>2, <1>4, <1>5

LEMMA BlockLoses ==
  ASSUME NEW ix, NEW O, NEW S, NoneLost(ix, O, S), NEW b \in Blocks, NEW h,
         \A i \in 1..TxCount(b) : SpendsOnly(TxAt(b, i), S)
  PROVE  NoneLost(IndexBlock(ix, b, h),
              O \cup UNION {CreatedBy(TxAt(b, j), h) : j \in 1..TxCount(b)}, S)
<1> DEFINE n == TxCount(b)
           U(i) == O \cup UNION {CreatedBy(TxAt(b, j), h) : j \in 1..i}
<1>1. /\ n \in Nat /\ DOMAIN Tail(TxsOf[b]) = 1..n
      /\ \A i \in 1..n : Tail(TxsOf[b])[i] = TxAt(b, i) /\ TxAt(b, i) \in DOMAIN OutCount
  BY BlockTxs
<1>2. PICK r : IsBlockRun(ix, h, b, n, r)
  <2> HIDE DEF n
  <2> QED BY <1>1, BlockRun
<1>3. U(0) = O /\ \A i \in 1..n : U(i) = U(i - 1) \cup CreatedBy(TxAt(b, i), h)
  <2> HIDE DEF n
  <2>1. 1..0 = {} /\ \A i \in 1..n : 1..i = (1..(i - 1)) \cup {i}
    BY <1>1
  <2> QED BY <2>1
<1>4. \A i \in 1..n : SpendsOnly(TxAt(b, i), S)
  OBVIOUS
<1> HIDE DEF n, U
<1> DEFINE G == {i \in 0..n : NoneLost(r[i], U(i), S)}
<1>5. 0 \in G
  BY <1>1, <1>2, <1>3 DEF IsBlockRun
<1>6. \A i \in 1..n : i - 1 \in G => i \in G
  <2> SUFFICES ASSUME NEW i \in 1..n, i - 1 \in G PROVE i \in G
    OBVIOUS
  <2> DEFINE t == TxAt(b, i)
  <2>1. /\ r[i] = ProcessTx(r[i - 1], t, h) /\ t \in DOMAIN OutCount
        /\ U(i) = U(i - 1) \cup CreatedBy(t, h)
        /\ SpendsOnly(t, S)
    BY <1>1, <1>2, <1>3, <1>4 DEF IsBlockRun
  <2>2. NoneLost(r[i - 1], U(i - 1), S)
    OBVIOUS
  <2> HIDE DEF t
  <2>3. NoneLost(r[i], U(i), S)
    BY <2>1, <2>2, TxLoses
  <2> QED BY <1>1, <2>3
<1>7. n \in G
  <2> HIDE DEF G
  <2> QED BY <1>1, <1>5, <1>6, Climb
<1> QED BY <1>2, <1>7 DEF IsBlockRun, n, U

\* The outputs created on D that C does not spend.
Wanted(D, C) == {o \in Created(D) : Point(o) \notin SpentIn(C)}
CompleteInv ==
  /\ Wanted(Suffix(processed.hash), BestChain) \subseteq index.uts \cup index.stable_utxos
  /\ Wanted(Suffix(confirmed.hash), BestChain) \subseteq index.stable_utxos

LEMMA SuffixOfBest ==
  ASSUME NEW b, b # NoBlock => Under(b, best)
  PROVE  Suffix(b) \subseteq BestChain
  BY UnderFacts DEF Suffix, Under, BestChain

LEMMA ProcessComplete ==
  ASSUME ChainsValid, ChainState, IndexInv, BestInv, OnwardInv, CompleteInv,
         NEW l \in Loops, ProcessBlock(l)
  PROVE  /\ Wanted(Suffix(processed'.hash), BestChain) \subseteq index'.uts \cup index'.stable_utxos
         /\ UNCHANGED confirmed /\ index'.stable_utxos = index.stable_utxos
<1> DEFINE b == Head(queue).hash
           f == queue[1].hash
           S == SpentIn(BestChain)
           P == Suffix(processed.hash)
           U == UNION {CreatedBy(TxAt(b, j), Height[b]) : j \in 1..TxCount(b)}
           new == IndexBlock(index, b, Height[b])
<1>0. /\ ChainInv /\ AboveStart /\ Tight /\ IsIndex(index)
      /\ Chain(queue, tip, processed, processed_blocks, confirmed)
  BY DEF ChainState, SyncInv, ChainInv, OnwardInv, IndexInv, Shape
<1>1. /\ queue # << >> /\ loops[l].pc = "process" /\ processed' = Head(queue)
      /\ UNCHANGED confirmed /\ index' = Processed(Head(queue)) /\ index'.ok
  BY DEF ProcessBlock
<1>2. /\ 1 \in DOMAIN queue /\ Head(queue) = queue[1] /\ b \in Blocks /\ b # NoBlock
      /\ Head(queue).height = Height[b]
  <2>1. 1 \in DOMAIN queue /\ Head(queue) = queue[1]
    BY <1>0, <1>1, SeqTail DEF Chain, Oks
  <2> QED BY <1>0, <2>1, ElementOk DEF Chain
<1>3. index' = new
  BY <1>1, <1>2 DEF Processed
<1>4. Suffix(b) = P \cup {b} /\ P \subseteq Blocks
  <2>1. StartBlock # NoBlock => Under(StartBlock, b) /\ b # StartBlock
    BY <1>0, <1>2 DEF AboveStart, OverStart
  <2>2. Prev[b] = LastDone
    BY <1>0, <1>1, <1>2 DEF Tight, Beneath
  <2>3. Suffix(LastDone) = P
    BY DEF LastDone, Suffix, Before
  <2>4. P \subseteq Blocks
    BY <1>0, SuffixBlocks DEF Chain
  <2> HIDE DEF b, P
  <2> QED BY <1>2, <2>1, <2>2, <2>3, <2>4, SuffixOf
<1>5. Suffix(b) \subseteq BestChain
  <2>1. Under(b, best)
    BY <1>0, <1>1, FrontBest DEF BestInv, LoopBest
  <2> HIDE DEF b
  <2> QED BY <2>1, SuffixOfBest
<1> HIDE DEF b
<1>6. \A i \in 1..TxCount(b) : SpendsOnly(TxAt(b, i), S)
  <2>1. b \in BestChain
    BY <1>4, <1>5
  <2>2. \A i \in 1..TxCount(b) : TxAt(b, i) \in Txs(b)
    BY <1>2, BlockTxs
  <2> QED BY <2>1, <2>2 DEF SpentIn, SpendsOnly
<1> HIDE DEF S
<1>7. NoneLost(new, index.uts \cup U, S)
  <2>1. NoneLost(index, index.uts, S)
    BY <1>0 DEF NoneLost
  <2> QED BY <1>2, <1>6, <2>1, BlockLoses
<1>8. new.stable_utxos = index.stable_utxos
  BY <1>0, <1>2, BlockStable
<1> HIDE DEF new
<1>9. ASSUME NEW o \in Created(Suffix(b)), Point(o) \notin S
      PROVE  o \in new.uts \cup new.stable_utxos
  <2>1. PICK c \in P \cup {b} :
          \E i \in 1..TxCount(c) : o \in CreatedBy(TxAt(c, i), Height[c])
    BY <1>2, <1>4, CreatedIs
  <2>2. CASE c = b
    <3>1. o \in U
      BY <2>1, <2>2
    <3> HIDE DEF U
    <3> QED BY <1>1, <1>3, <1>7, <1>9, <3>1 DEF NoneLost
  <2>3. CASE c \in P
    <3>1. o \in Created(P)
      BY <1>4, <2>1, <2>3, CreatedIs
    <3>2. o \in index.uts \cup index.stable_utxos
      BY <1>9, <3>1 DEF CompleteInv, Wanted, S
    <3> HIDE DEF U
    <3> QED BY <1>1, <1>3, <1>7, <1>8, <1>9, <3>2 DEF NoneLost
  <2> QED BY <2>1, <2>2, <2>3
<1> QED BY <1>1, <1>3, <1>8, <1>9 DEF Wanted, S, b

LEMMA ConfirmComplete ==
  ASSUME ChainState, IndexInv, BestInv, CompleteInv, NEW l \in Loops, Confirm(l)
  PROVE  /\ Wanted(Suffix(processed'.hash), BestChain) \subseteq index'.uts \cup index'.stable_utxos
         /\ Wanted(Suffix(confirmed'.hash), BestChain) \subseteq index'.stable_utxos
<1> DEFINE P == Suffix(processed.hash)
           D == Suffix(confirmed'.hash)
           c == Target
           newUtxos == {u \in index.uts : Confirms(u.height, c)}
           oldUtxos == {u \in DOMAIN index.sts : SpentBy(index.sts[u], c)}
<1>1. Chain(queue, tip, processed, processed_blocks, confirmed)
  BY DEF ChainState, SyncInv, ChainInv
<1>2. PICK i \in AtTarget : confirmed' = processed_blocks[i]
  BY DEF Confirm
<1>3. index' = Flush(index, c) /\ UNCHANGED processed
  BY DEF Confirm
<1>4. i \in DOMAIN processed_blocks /\ processed_blocks[i].height = c
  BY <1>2 DEF AtTarget
<1>5. /\ c \in Nat /\ Height[confirmed'.hash] = c /\ Ok(confirmed') /\ confirmed'.hash \in Blocks
  BY <1>1, <1>2, <1>4, ElementOk DEF Chain
<1>6. Under(confirmed'.hash, processed.hash)
  BY <1>1, <1>2, <1>4 DEF Chain, Confirming
<1>7. D \subseteq P /\ P \subseteq Blocks /\ P \subseteq BestChain
      /\ \A e \in D : e \in Blocks /\ Height[e] <= c
  <2>1. P \subseteq BestChain
    BY SuffixOfBest DEF BestInv
  <2>2. P \subseteq Blocks
    BY <1>1, SuffixBlocks DEF Chain
  <2>3. D \subseteq P
    BY <1>6, SuffixGrows
  <2>4. \A e \in D : e \in Blocks /\ Under(e, confirmed'.hash)
    BY <1>5, SuffixBlocks
  <2> HIDE DEF D, P
  <2> QED BY <1>5, <2>1, <2>2, <2>3, <2>4, UnderHeight
<1>8. /\ index'.uts = index.uts \ newUtxos
      /\ index'.stable_utxos = (index.stable_utxos \ oldUtxos) \cup newUtxos
  <2>1. IsIndex(index)
    BY DEF IndexInv, Shape
  <2> HIDE DEF c
  <2> QED BY <1>3, <2>1 DEF Flush, IsIndex
<1> HIDE DEF c
<1>9. ASSUME NEW o \in oldUtxos PROVE Point(o) \in SpentIn(BestChain)
  <2>1. <<Point(o), index.sts[o]>> \in Spent(P)
    BY DEF IndexInv, Facts, Marks
  <2>2. Point(o) \in SpentIn(P)
    <3> HIDE DEF P
    <3> QED BY <1>7, <2>1, SpentInIs
  <2> QED BY <1>7, <2>2 DEF SpentIn
<1>10. ASSUME NEW o \in Wanted(P, BestChain)
       PROVE  /\ o \in index'.uts \cup index'.stable_utxos
              /\ o.height <= c => o \in index'.stable_utxos
  <2>1. o \in index.uts \cup index.stable_utxos
    BY DEF CompleteInv
  <2>2. o \notin oldUtxos
    BY <1>9 DEF Wanted
  <2> HIDE DEF oldUtxos
  <2> QED BY <1>8, <2>1, <2>2 DEF Confirms
<1>11. ASSUME NEW o \in Wanted(D, BestChain) PROVE o \in Wanted(P, BestChain) /\ o.height <= c
  <2> HIDE DEF D, P
  <2>1. PICK e \in D : \E k \in 1..TxCount(e) : o \in CreatedBy(TxAt(e, k), Height[e])
    BY <1>7, CreatedIs DEF Wanted
  <2>2. o.height = Height[e]
    BY <2>1 DEF CreatedBy
  <2>3. o \in Created(P)
    BY <1>7, <2>1, CreatedIs
  <2> QED BY <1>7, <2>2, <2>3 DEF Wanted
<1> HIDE DEF P, D
<1> QED BY <1>3, <1>10, <1>11 DEF P, D

LEMMA CompleteKept ==
  ASSUME ChainsValid, ReorgDepth = 0, ChainState, IndexInv, BestInv, OnwardInv, CompleteInv,
         [Next]_vars
  PROVE  CompleteInv'
<1> DEFINE Listed(C) ==
     /\ Wanted(Suffix(processed'.hash), C) \subseteq index'.uts \cup index'.stable_utxos
     /\ Wanted(Suffix(confirmed'.hash), C) \subseteq index'.stable_utxos
<1>0. ChainInv /\ LoopInv /\ best \in Blocks /\ AboveStart
  BY DEF ChainState, SyncInv, LoopInv
<1>1. SpentIn(BestChain) \subseteq SpentIn(BestChain')
  <2>1. BestChain \subseteq BestChain'
    BY <1>0, BestGrows DEF BestChain, Under
  <2> QED BY <2>1 DEF SpentIn
<1>2. SUFFICES Listed(BestChain)
  BY <1>1 DEF CompleteInv, Wanted
<1>3. ASSUME NEW l \in Loops, ProcessBlock(l) PROVE Listed(BestChain)
  BY <1>3, ProcessComplete DEF CompleteInv
<1>4. ASSUME NEW l \in Loops, ProcessFails(l) PROVE Listed(BestChain)
  <2>1. queue # << >> /\ InOrder(Head(queue).height) /\ ~Processed(Head(queue)).ok
    BY <1>4 DEF ProcessFails
  <2> QED BY <1>0, <2>1, NoBlockFails
<1>5. ASSUME NEW l \in Loops, Confirm(l) PROVE Listed(BestChain)
  BY <1>5, ConfirmComplete
<1>6. CASE BackToConfirmed /\ index' = ClearUnconfirmed(index)
  <2>1. index'.stable_utxos = index.stable_utxos
    BY <1>6 DEF IndexInv, Shape, IsIndex, ClearUnconfirmed
  <2>2. processed' = confirmed /\ UNCHANGED confirmed
    BY <1>6 DEF BackToConfirmed
  <2> QED BY <2>1, <2>2 DEF CompleteInv
<1>7. CASE UNCHANGED <<index, processed, confirmed>>
  BY <1>7 DEF CompleteInv
<1> QED BY <1>3, <1>4, <1>5, <1>6, <1>7, IndexMoves DEF IndexMove

LEMMA CompleteInit == ASSUME Init PROVE CompleteInv
<1>1. processed.hash = NoBlock /\ confirmed.hash = NoBlock
  BY DEF Init, At
<1>2. Suffix(NoBlock) = {} /\ Created({}) = {}
  BY DEF Suffix, Created
<1> QED BY <1>1, <1>2 DEF CompleteInv, Wanted

LEMMA CompleteAlways ==
  ASSUME ChainsValid, EarlyResets = FALSE, SingleLoop, StartOnBest, ReorgDepth = 0, HonestAgents
  PROVE  Spec => [](ChainState /\ IndexInv /\ BestInv /\ CompleteInv)
<1>1. Init => BestInv /\ CompleteInv
  BY CompleteInit DEF HonestAgents, Init, InitAgents, BestInv, HonestLists, LoopBest, IdleLoop, At
<1>2. ChainState /\ BestInv /\ [Next]_vars => BestInv'
  BY BestKeeps DEF ChainState
<1>3. ChainState /\ IndexInv /\ BestInv /\ OnwardInv /\ CompleteInv /\ [Next]_vars => CompleteInv'
  BY CompleteKept
<1> QED BY <1>1, <1>2, <1>3, OnwardAlways, PTL DEF Spec

\* What the completeness of the index rests on: valid chains, one loop that
\* is not reset before it first confirms, an honest attester on every list
\* and a best chain that only grows.  Then an output of the followed chain
\* that the best chain leaves unspent is listed, whatever fails, restarts or
\* is made up.
THEOREM AllListed ==
  ASSUME ChainsValid, EarlyResets = FALSE, SingleLoop, StartOnBest, ReorgDepth = 0, HonestAgents
  PROVE  Spec => []LiveIsComplete
<1>1. ASSUME ChainState, IndexInv, CompleteInv PROVE LiveIsComplete
  <2> DEFINE P == Suffix(processed.hash)
  <2>1. P = Followed(processed) /\ P \subseteq Blocks
    BY <1>1, SuffixBlocks DEF Followed, Suffix, ChainState, SyncInv, ChainInv, Chain
  <2> SUFFICES ASSUME NEW o \in Created(P), Point(o) \notin SpentIn(P),
                      Point(o) \notin SpentIn(BestChain)
               PROVE  o \in LiveUtxos(index)
    BY <2>1 DEF LiveIsComplete, Unspent
  <2>2. o \in index.uts \cup index.stable_utxos
    BY <1>1 DEF CompleteInv, Wanted
  <2>3. o \notin DOMAIN index.sts
    <3> SUFFICES ASSUME o \in DOMAIN index.sts PROVE FALSE
      OBVIOUS
    <3>1. <<Point(o), index.sts[o]>> \in Spent(P)
      BY <1>1 DEF IndexInv, Facts, Marks
    <3> HIDE DEF P
    <3> QED BY <2>1, <3>1, SpentInIs
  <2> QED BY <2>2, <2>3 DEF LiveUtxos
<1> QED BY <1>1, CompleteAlways, PTL

\* And a confirmed one is among those the minter mints for.
THEOREM AllConfirmed ==
  ASSUME ChainsValid, EarlyResets = FALSE, SingleLoop, StartOnBest, ReorgDepth = 0, HonestAgents
  PROVE  Spec => []ConfirmedIsComplete
<1>1. CompleteInv => ConfirmedIsComplete
  BY DEF CompleteInv, Wanted, ConfirmedIsComplete, Unspent, Followed, Suffix
<1> QED BY <1>1, CompleteAlways, PTL
=============================================================================
