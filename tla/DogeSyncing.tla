----------------------------- MODULE DogeSyncing -----------------------------
(***************************************************************************)
(* The ck-doge-canister following the Dogecoin chain: fetching a block,    *)
(* having it attested, processing it into the index, confirming the index, *)
(* and the restarts by an error, an administrator or an upgrade.           *)
(*                                                                         *)
(* The work runs in loops.  A loop is a timer that is set (pc "fetch",     *)
(* "process" or "confirm") or a fetch_block that awaits an answer (pc      *)
(* "hash", "block" or "attest"); its locals are the agent, the height it   *)
(* asked for, the hash it got and the attesters still to be asked.  There  *)
(* is one loop until an administrator restarts the syncing while another   *)
(* is open.  The loop post_upgrade starts signs tokens before it fetches   *)
(* (pc "upgraded" while its timer is set, then "tokens").                  *)
(*                                                                         *)
(* The agents may be changed while a loop runs (RpcAgents).  A call that   *)
(* fails, for an expired token too, is the fault "rpc"; last_errors is     *)
(* left out.                                                               *)
(***************************************************************************)
EXTENDS UtxoIndex, RpcAgents

CONSTANTS
  NoBlock,        \* the all-zero hash
  Prev, Height,   \* header.prev_blockhash and the height of a block
  StartBlock,     \* prev_start_blockhash, NoBlock to start from genesis
  FirstBest,      \* end of the best chain when the run starts
  MinConfs,       \* values of min_confirmations
  Liars,          \* agents that may make up answers
  Loops,          \* slots for loops
  ReorgDepth,     \* how many blocks of the best chain may be replaced
  Faults,         \* the kinds of failure that may happen
  EarlyResets,    \* may the canister have to reset before it first confirms?
  MaxRestarts, MaxUpgrades   \* bounds of the model

NoLoop == "none"

ASSUME ChainAssumption ==
  /\ NoBlock \notin Blocks /\ StartBlock \in Blocks \cup {NoBlock}
  /\ FirstBest \in Blocks
  /\ Prev \in [Blocks -> Blocks \cup {NoBlock}]
  /\ Height \in [Blocks -> Nat]
  /\ \A b \in Blocks : Height[b] = IF Prev[b] = NoBlock THEN 0
                                   ELSE Height[Prev[b]] + 1
ASSUME SyncingAssumption ==
  /\ MinConfs \subseteq Nat /\ MinConfs # {}
  /\ Faults \subseteq {"rpc", "sign"}
  /\ Liars \subseteq Agents
  /\ NoLoop \notin Loops /\ Loops \subseteq Signers
  /\ EarlyResets \in BOOLEAN
  /\ {ReorgDepth, MaxRestarts, MaxUpgrades} \subseteq Nat

VARIABLES
  \* the canister's state
  tip, processed, confirmed, start,   \* [height, hash]
  processed_blocks,                   \* queue of [height, hash] to confirm
  queue,                              \* UNPROCESSED_BLOCKS: [height, hash]
  index,                              \* the UTXO index
  min_confirmations,
  status, timer,                      \* SyncingState; the loop that set timer
  loops,
  \* the world outside
  best,                               \* end of the best chain
  restarts, upgrades

store == <<tip, processed, confirmed, start, processed_blocks, queue, index>>
vars  == <<store, min_confirmations, status, timer, loops, agents, best,
           restarts, upgrades>>

At(h, b)  == [height |-> h, hash |-> b]
IdleLoop  == [pc |-> "off", agent |-> << >>, height |-> 0, hash |-> NoBlock,
              left |-> << >>]
Waiting   == {"fetch", "process", "confirm", "upgraded"}
Awaiting  == {"tokens", "hash", "block", "attest"}

\* The calls of administrators and of the refresh timer.
AgentCalls == Signers \ Loops

-----------------------------------------------------------------------------
(* The Dogecoin network *)

Ancestors[b \in Blocks] ==
  {b} \cup (IF Prev[b] = NoBlock THEN {} ELSE Ancestors[Prev[b]])

\* getblockhash(h) of a node that follows the best chain.
BestAt(h) == {b \in Ancestors[best] : Height[b] = h}

\* An assumption about administrators, miners and agents that some runs make.
MayReset == EarlyResets \/ confirmed.height > 0

\* getblockhash(h) and getblock(b) of an agent, which may be made up.
Lies(a) == a \in Liars /\ MayReset
AgentAt(a, h)    == IF Lies(a) THEN {b \in Blocks : Height[b] = h} ELSE BestAt(h)
AgentBlock(a, b) == IF Lies(a) THEN Blocks ELSE {b}

\* What miners build on: blocks whose inputs name outputs that exist.
InputsOf(b) == UNION {{Ins[TxsOf[b][n]][i] : i \in DOMAIN Ins[TxsOf[b][n]]} :
                        n \in DOMAIN TxsOf[b]}
Valid == {b \in Blocks : \A c \in Ancestors[b] : \A in \in InputsOf(c) :
            in.tx \in DOMAIN OutCount => in.vout <= OutCount[in.tx]}

\* A better chain appears; it shares all but the last blocks with this one.
NewBest ==
  /\ \E b \in Blocks :
       /\ Height[b] > Height[best] /\ b \in Valid
       /\ best \in Ancestors[b] \/ MayReset
       /\ \A a \in Ancestors[best] :
            Height[a] + ReorgDepth <= Height[best] => a \in Ancestors[b]
       /\ best' = b
  /\ UNCHANGED <<store, min_confirmations, status, timer, loops, agents,
                 restarts, upgrades>>

-----------------------------------------------------------------------------
(* Restarting: what is reset before the next fetch *)

\* clear_for_restart_process_block, and the same reset in load()
TipReset_kept(p) == tip   \* mutant: no reset
TipReset(p) == IF p.height > 0 THEN p ELSE tip

ClearForProcess ==
  /\ queue' = << >>
  /\ tip' = TipReset(processed)
  /\ UNCHANGED <<processed, confirmed, start, processed_blocks, index>>

ClearForConfirm ==   \* clear_for_restart_confirm_utxos
  /\ queue' = << >>
  /\ index' = ClearUnconfirmed(index)
  /\ processed_blocks' = << >>
  /\ processed' = confirmed
  /\ tip' = TipReset(confirmed)
  /\ UNCHANGED <<confirmed, start>>

\* Setting a timer, and stopping with an error.
SetTimer(l, pc) ==
  /\ loops' = [loops EXCEPT ![l] = [IdleLoop EXCEPT !.pc = pc]]
  /\ timer' = l
Stop(l, error) ==
  /\ loops' = [loops EXCEPT ![l] = IdleLoop]
  /\ status' = error
  /\ UNCHANGED timer

world == <<min_confirmations, agents, best, restarts, upgrades>>

-----------------------------------------------------------------------------

Init ==
  /\ tip = IF StartBlock = NoBlock THEN At(0, NoBlock)
                                   ELSE At(Height[StartBlock], StartBlock)
  /\ processed = At(0, NoBlock) /\ confirmed = At(0, NoBlock)
  /\ start = At(0, NoBlock)
  /\ processed_blocks = << >> /\ queue = << >>
  /\ index = EmptyIndex
  /\ min_confirmations \in MinConfs
  /\ status = 0 /\ timer = NoLoop
  /\ loops = [l \in Loops |-> IdleLoop]
  /\ InitAgents
  /\ best = FirstBest
  /\ restarts = 0 /\ upgrades = 0

-----------------------------------------------------------------------------
(* fetch_block *)

\* The first agent of the list is asked for the hash after the tip.
AskHash(l, list) ==
  /\ loops' = [loops EXCEPT ![l] = [IdleLoop EXCEPT !.pc = "hash",
       !.agent = <<Agent(list)>>,
       !.height = IF tip.hash = NoBlock THEN 0 ELSE tip.height + 1]]
  /\ status' = 1

FetchStart(l) ==   \* the timer fires
  /\ loops[l].pc = "fetch" /\ rpc_agents # << >>
  /\ AskHash(l, rpc_agents)
  /\ UNCHANGED <<store, timer, world>>

FetchNoAgent(l) ==   \* expect("no RPCAgent"): the message is undone
  /\ loops[l].pc \in {"fetch", "upgraded"} /\ rpc_agents = << >>
  /\ loops' = [loops EXCEPT ![l] = IdleLoop]
  /\ UNCHANGED <<store, status, timer, world>>

FetchHash(l) ==   \* the agent has a block there: ask for the block
  /\ loops[l].pc = "hash"
  /\ \E b \in AgentAt(Agent(loops[l].agent), loops[l].height) :
       loops' = [loops EXCEPT ![l].pc = "block", ![l].hash = b]
  /\ UNCHANGED <<store, status, timer, world>>

FetchWait(l) ==   \* ShouldWait: no block there yet, or no answer
  /\ loops[l].pc = "hash"
  /\ BestAt(loops[l].height) = {} \/ "rpc" \in Faults
  /\ SetTimer(l, "fetch")
  /\ UNCHANGED <<store, status, world>>

FetchBlockFails(l) ==
  /\ loops[l].pc = "block" /\ "rpc" \in Faults
  /\ Stop(l, 0 - 1)
  /\ UNCHANGED <<store, world>>

\* The checks of append_block, on the state of the moment it is called.
Appends_height(h, hash, b) ==   \* mutant: no link
  (h # 0 => h = tip.height + 1) /\ b = hash
Appends(h, hash, b) ==
  /\ h # 0 => h = tip.height + 1
  /\ Prev[b] = tip.hash
  /\ b = hash

\* The last attestation came: process what is queued.
Attested_none(l, left) == SetTimer(l, "process")   \* mutant: nobody is asked
Attested(l, left) ==
  IF left = << >> THEN SetTimer(l, "process")
  ELSE /\ loops' = [loops EXCEPT ![l].pc = "attest", ![l].left = left]
       /\ UNCHANGED timer

FetchAppend(l) ==   \* the attesters are those of this moment
  /\ loops[l].pc = "block"
  /\ \E b \in AgentBlock(Agent(loops[l].agent), loops[l].hash) :
       Appends(loops[l].height, loops[l].hash, b)
  /\ queue' = Append(queue, At(loops[l].height, loops[l].hash))
  /\ tip' = At(loops[l].height, loops[l].hash)
  /\ Attested(l, AttestAgents(rpc_agents))
  /\ UNCHANGED <<processed, confirmed, start, processed_blocks, index, status,
                 world>>

FetchReorg(l) ==   \* append_block fails: clear, and fetch again
  /\ loops[l].pc = "block"
  /\ \E b \in AgentBlock(Agent(loops[l].agent), loops[l].hash) :
       ~Appends(loops[l].height, loops[l].hash, b)
  /\ ClearForConfirm
  /\ SetTimer(l, "fetch")
  /\ UNCHANGED <<status, world>>

AttestOk(l) ==   \* the next attester answers with the same hash
  /\ loops[l].pc = "attest"
  /\ loops[l].hash \in AgentAt(Head(loops[l].left), loops[l].height)
  /\ Attested(l, Tail(loops[l].left))
  /\ UNCHANGED <<store, status, world>>

AttestFails(l) ==   \* another hash, or no answer; the block stays queued
  /\ loops[l].pc = "attest"
  /\ \/ AgentAt(Head(loops[l].left), loops[l].height) # {loops[l].hash}
     \/ "rpc" \in Faults
  /\ Stop(l, 0 - 1)
  /\ UNCHANGED <<store, world>>

-----------------------------------------------------------------------------
(* process_block: the front block leaves the queue whatever happens then   *)

InOrder(h) == processed.height # 0 => h = processed.height + 1

ProcessNothing(l) ==
  /\ loops[l].pc = "process" /\ queue = << >>
  /\ SetTimer(l, "fetch")
  /\ status' = 2
  /\ UNCHANGED <<store, world>>

ProcessOutOfOrder(l) ==
  /\ loops[l].pc = "process" /\ queue # << >>
  /\ ~InOrder(Head(queue).height)
  /\ queue' = Tail(queue)
  /\ Stop(l, 0 - 2)
  /\ UNCHANGED <<tip, processed, confirmed, start, processed_blocks, index, world>>

\* The index after the block; an error leaves what was done before it.
Processed_tip(q) == IndexBlock(index, q.hash, tip.height)   \* mutant: the tip's
Processed(q) == IndexBlock(index, q.hash, q.height)

ProcessBlock(l) ==
  /\ loops[l].pc = "process" /\ queue # << >>
  /\ InOrder(Head(queue).height)
  /\ Processed(Head(queue)).ok
  /\ index' = Processed(Head(queue))
  /\ queue' = Tail(queue)
  /\ processed' = Head(queue)
  /\ processed_blocks' = Append(processed_blocks, Head(queue))
  /\ start' = IF start = At(0, NoBlock) THEN Head(queue) ELSE start
  /\ SetTimer(l, "confirm")
  /\ status' = 2
  /\ UNCHANGED <<tip, confirmed, world>>

ProcessFails(l) ==   \* an input names an output that does not exist
  /\ loops[l].pc = "process" /\ queue # << >>
  /\ InOrder(Head(queue).height)
  /\ ~Processed(Head(queue)).ok
  /\ index' = [Processed(Head(queue)) EXCEPT !.ok = TRUE]
  /\ queue' = Tail(queue)
  /\ Stop(l, 0 - 2)
  /\ UNCHANGED <<tip, processed, confirmed, start, processed_blocks, world>>

-----------------------------------------------------------------------------
(* confirm_utxos *)

\* processed_height.saturating_sub(min_confirmations)
Target == IF processed.height > min_confirmations
          THEN processed.height - min_confirmations ELSE 0

AfterConfirm(l) ==
  /\ SetTimer(l, IF queue = << >> THEN "fetch" ELSE "process")
  /\ status' = 3

ConfirmNothing(l) ==
  /\ loops[l].pc = "confirm"
  /\ Target < start.height \/ Target <= confirmed.height
  /\ AfterConfirm(l)
  /\ UNCHANGED <<store, world>>

\* Positions of the blocks of the target height; the queue is popped up to
\* the first of them, and to its end if there is none.
AtTarget == {i \in DOMAIN processed_blocks : processed_blocks[i].height = Target}
IsFirst(i, S) == i \in S /\ \A j \in S : i <= j

Confirm(l) ==
  /\ loops[l].pc = "confirm"
  /\ Target >= start.height /\ Target > confirmed.height
  /\ \E i \in AtTarget :
       /\ IsFirst(i, AtTarget)
       /\ confirmed' = processed_blocks[i]
       /\ processed_blocks' = SubSeq(processed_blocks, i + 1, Len(processed_blocks))
  /\ index' = Flush(index, Target)
  /\ AfterConfirm(l)
  /\ UNCHANGED <<tip, processed, start, queue, world>>

ConfirmFails(l) ==   \* no processed blockhash at that height
  /\ loops[l].pc = "confirm"
  /\ Target >= start.height /\ Target > confirmed.height
  /\ AtTarget = {}
  /\ processed_blocks' = << >>
  /\ Stop(l, 0 - 3)
  /\ UNCHANGED <<tip, processed, confirmed, start, queue, index, world>>

-----------------------------------------------------------------------------
(* admin_restart_syncing(for_status), post_upgrade *)

\* clear_timer(s.timer): the loop that set the last timer ends, unless its
\* timer has fired.
Cleared == IF timer # NoLoop /\ loops[timer].pc \in Waiting
           THEN [loops EXCEPT ![timer] = IdleLoop] ELSE loops

\* A new loop l starts from the loops others.
StartLoop(others, l, pc) ==
  /\ others[l].pc = "off"
  /\ loops' = [others EXCEPT ![l] = [IdleLoop EXCEPT !.pc = pc]]
  /\ timer' = l /\ status' = 0

ResetFor(s) ==
  \/ s \in {0, 0 - 1} /\ UNCHANGED store
  \/ s = 0 - 2 /\ MayReset /\ ClearForProcess
  \/ s = 0 - 3 /\ MayReset /\ ClearForConfirm

Restarted ==
  /\ restarts < MaxRestarts
  /\ restarts' = restarts + 1
  /\ UNCHANGED <<min_confirmations, best, upgrades>>

AdminRestart ==   \* for_status = None: by the status there is
  /\ Restarted
  /\ ResetFor(status)
  /\ \E l \in Loops : StartLoop(loops, l, "fetch")
  /\ RefreshAfter(AgentCalls)

AdminRestartFor(s) ==   \* for_status = Some(s)
  /\ Restarted
  /\ ResetFor(s)
  /\ \E l \in Loops : StartLoop(Cleared, l, "fetch")
  /\ RefreshAfter(AgentCalls)

AdminRestartInvalid ==   \* an error, but the timer has been cleared
  /\ Restarted
  /\ loops' = Cleared
  /\ UNCHANGED <<store, status, timer, agents>>

\* An upgrade waits for open calls; timers, the queue and the syncing state
\* are lost, load() resets the tip and post_upgrade starts a loop.
Upgrade ==
  /\ upgrades < MaxUpgrades /\ upgrades' = upgrades + 1
  /\ MayReset
  /\ \A l \in Loops : loops[l].pc \notin Awaiting
  /\ ClearForProcess
  /\ min_confirmations' \in MinConfs
  /\ UpgradeAgents
  /\ \E l \in Loops : StartLoop([k \in Loops |-> IdleLoop], l, "upgraded")
  /\ UNCHANGED <<best, restarts>>

\* The loop of post_upgrade: refresh_proxy_token, then fetch_block.
UpgradedStart(l) ==
  /\ loops[l].pc = "upgraded" /\ rpc_agents # << >>
  /\ Refresh(l)
  /\ loops' = [loops EXCEPT ![l].pc = "tokens"]
  /\ UNCHANGED <<store, min_confirmations, status, timer, best, restarts, upgrades>>

UpgradedSigned(l) ==
  /\ loops[l].pc = "tokens"
  /\ \/ TokenSigned(l) /\ UNCHANGED <<loops, status>>
     \/ TokensSigned(l) /\ AskHash(l, rpc_agents')
  /\ UNCHANGED <<store, min_confirmations, timer, best, restarts, upgrades>>

UpgradedFails(l) ==   \* no loop is left
  /\ loops[l].pc = "tokens" /\ "sign" \in Faults
  /\ SignFails(l)
  /\ loops' = [loops EXCEPT ![l] = IdleLoop]
  /\ UNCHANGED <<store, min_confirmations, status, timer, best, restarts, upgrades>>

\* The calls that sign beside the loops.
AgentStep(c) ==
  /\ \/ \E list \in AgentLists : AdminSetAgent(c, list)
     \/ RefreshTick(c)
     \/ TokenSigned(c) \/ TokensSigned(c)
     \/ "sign" \in Faults /\ SignFails(c)
  /\ UNCHANGED <<store, min_confirmations, status, timer, loops, best, restarts,
                 upgrades>>

-----------------------------------------------------------------------------

UpgradeSteps(l) == UpgradedStart(l) \/ UpgradedSigned(l) \/ UpgradedFails(l)
FetchAnswers(l) == FetchHash(l) \/ FetchWait(l) \/ FetchBlockFails(l)
                     \/ FetchAppend(l) \/ FetchReorg(l)
                     \/ AttestOk(l) \/ AttestFails(l)
ProcessSteps(l) == ProcessNothing(l) \/ ProcessOutOfOrder(l)
                     \/ ProcessBlock(l) \/ ProcessFails(l)
ConfirmSteps(l) == ConfirmNothing(l) \/ Confirm(l) \/ ConfirmFails(l)
LoopSteps(l)    == FetchStart(l) \/ FetchNoAgent(l) \/ FetchAnswers(l)
                     \/ ProcessSteps(l) \/ ConfirmSteps(l) \/ UpgradeSteps(l)

Next ==
  \/ \E l \in Loops : LoopSteps(l)
  \/ AdminRestart
  \/ \E s \in {0, 0 - 1, 0 - 2, 0 - 3} : AdminRestartFor(s)
  \/ AdminRestartInvalid
  \/ Upgrade
  \/ \E c \in AgentCalls : AgentStep(c)
  \/ NewBest

\* Timers fire and calls are answered; an agent that has the block gives it,
\* since the loop asks again and again.  Administrators and miners owe nothing.
Fairness == \A l \in Loops : WF_vars(LoopSteps(l))

Spec == Init /\ [][Next]_vars
FairSpec == Spec /\ Fairness

-----------------------------------------------------------------------------
(* Properties *)

Blk == [height : Nat, hash : Blocks \cup {NoBlock}]

\* The shape of the state; the three unconfirmed maps agree on every output.
TypeOK ==
  /\ {tip, processed, confirmed, start} \subseteq Blk
  /\ queue \in Seq([height : Nat, hash : Blocks])
  /\ processed_blocks \in Seq([height : Nat, hash : Blocks])
  /\ min_confirmations \in MinConfs
  /\ status \in {0, 1, 2, 3} \cup {0 - 1, 0 - 2, 0 - 3}
  /\ timer \in Loops \cup {NoLoop}
  /\ loops \in [Loops -> [pc : {"off"} \cup Waiting \cup Awaiting,
                          agent : {<< >>} \cup {<<a>> : a \in Agents},
                          height : Nat, hash : Blocks \cup {NoBlock},
                          left : Seq(Agents)]]
  /\ AgentTypes
  /\ index.uts \cap DOMAIN index.sts = {}
  /\ \A u \in index.uts : /\ index.utxs[u.tx].height = u.height
                         /\ index.utxs[u.tx].spent[u.vout] = 0
  /\ \A u \in DOMAIN index.sts : /\ index.utxs[u.tx].height = u.height
                                /\ index.utxs[u.tx].spent[u.vout] = index.sts[u]
  /\ best \in Blocks /\ restarts \in Nat /\ upgrades \in Nat

\* The chain a block ends, after the block the canister started from.
Before      == IF StartBlock = NoBlock THEN {} ELSE Ancestors[StartBlock]
Followed(p) == IF p.hash = NoBlock THEN {} ELSE Ancestors[p.hash] \ Before

\* The three heights are ordered, and the confirmed block, the processed
\* block and the tip lie on one chain, whatever loops, restarts and upgrades
\* do.
OnOneChain ==
  /\ confirmed.height <= processed.height
  /\ processed.height <= tip.height
  /\ processed.height > 0 =>
       /\ processed.hash \in Ancestors[tip.hash]
       /\ confirmed.hash = NoBlock \/ confirmed.hash \in Ancestors[processed.hash]

\* The queue is a chain that ends with the tip.  process_block compares heights
\* only, and when it accepts the front block that block extends the processed
\* one, also when earlier blocks have failed and left the queue.
QueueLinked ==
  /\ \A i \in 2..Len(queue) :
       /\ queue[i].height = queue[i - 1].height + 1
       /\ Prev[queue[i].hash] = queue[i - 1].hash
  /\ queue # << >> => tip = Last(queue)
  /\ queue # << >> /\ processed.height > 0 /\ InOrder(Head(queue).height) =>
       Prev[Head(queue).hash] = processed.hash

\* store.rs:379, :455 "reset the tip to the last processed block": once there
\* is a processed block above height 0, processing goes on from it or from the
\* confirmed one, never from further ahead.
ProcessedExtends ==
  [][processed.height > 0 =>
       \/ processed' = confirmed
       \/ Prev[processed'.hash] = processed.hash]_processed

\* A confirmed block is never replaced by one that does not extend it.
ConfirmedStays ==
  [][confirmed.hash # NoBlock =>
       /\ confirmed'.hash \in Blocks
       /\ confirmed.hash \in Ancestors[confirmed'.hash]]_confirmed

\* An agent that makes up blocks cannot get one processed when every list of
\* agents has an honest attester, there is one loop and there are no forks:
\* even though a block that fails its attestation stays in the queue and
\* restarts go on from there, a list is replaced while a block is fetched
\* with the agent of the other one, and a refresh brings a replaced list back.
HonestlyAttested(list) == \E i \in 2..Len(list) : list[i] \notin Liars
ProcessedIsBest ==
  (\A list \in AgentLists : HonestlyAttested(list)) =>
    (processed.hash # NoBlock => processed.hash \in Ancestors[best])

\* One loop following honest agents through forks and restarts never stops on
\* a block out of order or on a height without a processed block.
NeverGivesUp == status \notin {0 - 2, 0 - 3}

\* The reference: outputs of a chain's transactions that none of them spends.
Vouts      == UNION {1..OutCount[t] : t \in DOMAIN OutCount}
Txs(b)     == {TxsOf[b][i] : i \in 2..Len(TxsOf[b])}
Outputs(b) == {[height |-> Height[b], tx |-> t, vout |-> v] :
                 t \in Txs(b), v \in Vouts}
Created(C) == {o \in UNION {Outputs(b) : b \in C} :
                 o.vout <= OutCount[o.tx] /\ Pays(o.tx, o.vout)}
SpentIn(C) == UNION {{Ins[t][i] : i \in DOMAIN Ins[t]} :
                       t \in UNION {Txs(b) : b \in C}}
Unspent(C) == {o \in Created(C) : Point(o) \notin SpentIn(C)}

\* What miners and nodes see to, and the network of the theorems about the
\* index: on the chain a block ends a transaction is there once, an output is
\* spent once, and after it is created; the first block has only the coinbase;
\* an input does not name an output that its transaction has not.
TxCount(b) == Len(TxsOf[b]) - 1
TxAt(b, i) == TxsOf[b][i + 1]
ValidChain(c) ==
  \A a, b \in Ancestors[c] : \A i \in 1..TxCount(a), j \in 1..TxCount(b) :
    /\ TxAt(a, i) = TxAt(b, j) => a = b /\ i = j
    /\ \A k \in DOMAIN Ins[TxAt(a, i)] :
         /\ \A m \in DOMAIN Ins[TxAt(b, j)] :
              Ins[TxAt(a, i)][k] = Ins[TxAt(b, j)][m] => a = b /\ i = j /\ k = m
         /\ Ins[TxAt(a, i)][k].tx = TxAt(b, j) =>
              Height[b] < Height[a] \/ (a = b /\ j < i)
ChainsValid ==
  /\ \A c \in Blocks : ValidChain(c) /\ (Height[c] = 0 => Len(TxsOf[c]) = 1)
  /\ \A t \in UNION {Txs(c) : c \in Blocks} : \A k \in DOMAIN Ins[t] :
       Ins[t][k].tx \in DOMAIN OutCount => Ins[t][k].vout \in 1..OutCount[Ins[t][k].tx]

\* In any history of forks and restarts, a listed UTXO was created on the
\* chain that is followed and is not spent there; also next to a block that
\* fails, when it fails before a transaction of it is indexed.
LiveIsSound == LiveUtxos(index) \subseteq Unspent(Followed(processed))

\* README.md:20 "indexing the complete set of unspent transaction outputs":
\* an output that the processed chain has and leaves unspent is listed, unless
\* the best chain spends it further on.  (After a restart the canister follows
\* again blocks whose spendings it has seen.)
BestChain == Ancestors[best] \ Before
LiveIsComplete ==
  Unspent(Followed(processed)) \cap Unspent(BestChain) \subseteq LiveUtxos(index)

\* The UTXOs the minter mints for (confirmed = true) were created by a
\* confirmed block and are not spent by one, in any history of forks and with
\* the same proviso.
ConfirmedIsSound == index.stable_utxos \subseteq Unspent(Followed(confirmed))

\* A confirmed output is missing from them only when the best chain spends it.
ConfirmedIsComplete ==
  Unspent(Followed(confirmed)) \cap Unspent(BestChain) \subseteq index.stable_utxos

\* store.rs:446 "clear all unconfirmed states": get_tx_status reports only
\* transactions of the chain that is followed or of the best one, and at the
\* height of their block.
StatusIsTrue ==
  \A t \in KnownTxs(index) : \E b \in Followed(processed) \cup BestChain :
    t \in Txs(b) /\ Height[b] = TxHeight(index, t)

\* A loop that keeps running catches up with the best chain: it has processed
\* the last block, or a restart has left blocks in the queue, which go with
\* the next one.
Running  == \E l \in Loops : loops[l].pc # "off"
CaughtUp == tip.hash = best /\ (queue # << >> \/ processed.hash = best)
CatchesUp == <>[]Running => <>[]CaughtUp
=============================================================================
