---------------------------- MODULE CkDogeMinter ----------------------------
(***************************************************************************)
(* The ck-doge-minter canister: minting ckDOGE against confirmed deposits, *)
(* burning ckDOGE against a Dogecoin payout, tracking the payouts until    *)
(* they are mined, and collecting the change.                              *)
(*                                                                         *)
(* A canister runs one message at a time and gives up control at every     *)
(* await, so an action is the code between two awaits, and a call keeps    *)
(* its locals in a slot (mints, burns, finals, collects) while it waits.   *)
(* The callee's execution and the delivery of its answer are two steps:    *)
(* anything may happen in between.  A call whose first message changes     *)
(* nothing starts at the moment its first callee executes.                 *)
(*                                                                         *)
(* A UTXO is its position in the sequence of outputs confirmed at the      *)
(* minter's deposit addresses: UtxoState is ordered by height first, so    *)
(* positions order them as the code's BTreeMaps do.  The owner the code    *)
(* keeps beside a collected UTXO is utxos[u].owner.                        *)
(***************************************************************************)
EXTENDS Naturals, Sequences, FiniteSets, SequencesExt

CONSTANTS
  Users,          \* principals that deposit, mint and burn
  Minter,         \* the canister's own principal, owner of the change
  Managers,       \* users that may retry anybody's burn
  MintCalls, BurnCalls, FinalizeCalls, CollectCalls,  \* slots for open calls
  CallerOf,       \* the principal that uses a mint or burn slot
  Amounts,        \* amounts asked for in burn_ckdoge
  DustLimit,      \* amount::DUST_LIMIT
  Fee,            \* fee_by_size of a payout
  BatchDivisor,   \* 200 in the code
  MaxBatch,       \* MAX_RETRIEVE_BATCH_SIZE, 100 in the code
  ListTake,       \* page size of list_utxos_b, 1000 in the code
  KeepHeights,    \* how long spent UTXOS are kept, 100 in the code
  MinConf,        \* min_confirmations of the chain canister
  StartHeight,    \* the tip when the run starts
  Faults,         \* the kinds of failure that may happen
  Values,         \* values of deposits
  MaxDeposits, MaxMints, MaxHeight, MaxReorgs   \* bounds of the model

FaultKinds == {"ledger", "sign", "send", "send_lost", "chain"}

ASSUME PrincipalsAssumption ==
  /\ Minter \notin Users
  /\ Managers \subseteq Users
  /\ CallerOf \in [MintCalls \cup BurnCalls -> Users]
ASSUME NumbersAssumption ==
  /\ DustLimit \in Nat \ {0}
  /\ Fee \in Nat
  /\ BatchDivisor \in Nat \ {0}
  /\ MaxBatch \in Nat \ {0}
  /\ ListTake \in Nat \ {0}
  /\ KeepHeights \in Nat
  /\ MinConf \in Nat \ {0}
  /\ StartHeight \in Nat \ {0, 1}
  /\ Values \subseteq Nat \ {0}
  /\ Amounts \subseteq Nat
  /\ {MaxDeposits, MaxMints, MaxHeight, MaxReorgs} \subseteq Nat
ASSUME FaultsAssumption == Faults \subseteq FaultKinds

VARIABLES
  \* the canister's state
  minted_utxos,      \* principal -> UTXOs already minted for it
  collected_utxos,   \* UTXO -> [block, height]; block 0 marks it free
  burning_utxos,     \* burn block -> [owner, amount, failed]
  burned_utxos,      \* burn block -> [utxos, tx, height]
  unconfirmed_burning_utxos,   \* queue of burn blocks to look up
  tokens_minted, tokens_burned, tokens_minted_count, tokens_burned_count,
  \* open calls
  mints, burns, finals, collects,
  \* the world outside: Dogecoin as the chain canister shows it, the ledger
  utxos,             \* outputs confirmed at the minter's addresses
  network,           \* payouts the network accepted: [ins, block, change, height]
  tip, reorgs,
  balances,          \* ledger: balances of the users
  log                \* ledger: [op, user, amount, utxo]; block b is log[b + 1]

tokens == <<tokens_minted, tokens_burned, tokens_minted_count,
            tokens_burned_count>>
calls  == <<mints, burns, finals, collects>>
chain  == <<utxos, network, tip, reorgs>>
stores == <<minted_utxos, collected_utxos, burning_utxos, burned_utxos,
            unconfirmed_burning_utxos>>
ledger == <<balances, log>>
vars   == <<stores, tokens, calls, chain, ledger>>

-----------------------------------------------------------------------------
(* The world outside the canister *)

TotalValue(S) == MapThenSumSet(LAMBDA u : utxos[u].value, S)

\* Ledger entries of one kind, as positions, and what they add up to.
Entries(op) == {i \in DOMAIN log : log[i].op = op}
LogSum(S)   == MapThenSumSet(LAMBDA i : log[i].amount, S)

ConfirmedHeight == IF tip > MinConf THEN tip - MinConf ELSE 0

\* list_utxos_b(address of p, take, confirmed = true): outputs are dropped
\* once their spending is confirmed, and only the first page is returned.
SpentConfirmed(u) ==
  \E t \in DOMAIN network : /\ u \in network[t].ins
                            /\ network[t].height \in 1..ConfirmedHeight
ListUtxos(p) ==
  LET unspent == {u \in DOMAIN utxos : /\ utxos[u].owner = p
                                       /\ ~SpentConfirmed(u)}
  IN  {u \in unspent : Cardinality({v \in unspent : v < u}) < ListTake}

\* A node takes a transaction whose inputs no other transaction spends and
\* whose outputs they cover.
Spends(u) == \E t \in DOMAIN network : u \in network[t].ins
Monus(a, b) == IF a > b THEN a - b ELSE 0

-----------------------------------------------------------------------------
(* The canister's pure helpers *)

\* mint_ckdoge keeps the listed UTXOs the caller has not been minted for.
MintCandidates_all(listed, snap) == listed   \* mutant: no filter
MintCandidates(listed, snap) == listed \ snap

\* COLLECTED_UTXOS_HEAP.insert for every UTXO of S.
MarkUtxos(S, b, h) ==
  [u \in DOMAIN collected_utxos \cup S |->
     IF u \in S THEN [block |-> b, height |-> h] ELSE collected_utxos[u]]

\* burn_ckdoge walks the free UTXOS in order and stops at the first prefix
\* that has a batch and covers the amount, or that is as large as a batch
\* may be; the whole free set if neither ever happens.
FreeUtxos_unsent ==   \* mutant: takes what a failed burn holds
  {u \in DOMAIN collected_utxos : collected_utxos[u].height = 0}
FreeUtxos == {u \in DOMAIN collected_utxos : collected_utxos[u].block = 0}
BatchSize ==
  LET share == Cardinality(DOMAIN collected_utxos) \div BatchDivisor
  IN  IF share > 1 THEN share ELSE 1
StopsAt(S, amount) ==
  \/ Cardinality(S) >= BatchSize /\ TotalValue(S) >= amount
  \/ Cardinality(S) >= MaxBatch
SelectUtxos(amount) ==
  LET upTo(n)  == {u \in FreeUtxos : u <= n}
      stops    == {n \in FreeUtxos : StopsAt(upTo(n), amount)}
  IN  IF stops = {} THEN FreeUtxos ELSE upTo(Min(stops))

\* retry_burn_utxos takes what the burn holds and has not been sent.
RetryUtxos_fresh(b) ==   \* mutant: selects again instead
  SelectUtxos(burning_utxos[b].amount)
RetryUtxos(b) ==
  {u \in DOMAIN collected_utxos : /\ collected_utxos[u].block = b
                                  /\ collected_utxos[u].height = 0}
MayRetry(p, b) == p = burning_utxos[b].owner \/ p \in Managers

\* The change output of a payout: dust is left to the miners (value 0).
ChangeValue_minimum(total, amount) ==   \* mutant: the minimum burn, not dust
  IF Monus(total, amount) <= DustLimit * 10 THEN 0 ELSE Monus(total, amount)
ChangeValue(total, amount) ==
  IF Monus(total, amount) <= DustLimit THEN 0 ELSE Monus(total, amount)
PayoutValue(amount) == Monus(amount, Fee)
NodeAccepts(S, amount) ==
  /\ \A u \in S : ~Spends(u)
  /\ PayoutValue(amount) + ChangeValue(TotalValue(S), amount) <= TotalValue(S)

\* collect_and_clear_utxos: add what is new, forget what was spent long ago.
Collected_again(listed) ==   \* mutant: insert instead of or_insert
  [u \in DOMAIN collected_utxos \cup listed |->
     IF u \in listed THEN [block |-> 0, height |-> 0] ELSE collected_utxos[u]]
Collected(listed) ==
  [u \in DOMAIN collected_utxos \cup listed |->
     IF u \in DOMAIN collected_utxos THEN collected_utxos[u]
                                     ELSE [block |-> 0, height |-> 0]]
Retained_old(m, confirmed) ==   \* mutant: forgets what was never spent
  {u \in DOMAIN m : m[u].height >= Monus(confirmed, KeepHeights)}
Retained(m, confirmed) ==
  {u \in DOMAIN m : m[u].height <= 1
                    \/ m[u].height >= Monus(confirmed, KeepHeights)}

-----------------------------------------------------------------------------
(* Initial state *)

IdleMint     == [pc |-> "idle", todo |-> {}, cur |-> 0, snap |-> {}]
IdleBurn     == [pc |-> "idle", amount |-> 0, balance |-> 0, utxos |-> {},
                 block |-> 0, tx |-> 0]
NoBurned     == [utxos |-> {}, tx |-> 0, height |-> 0]
IdleFinalize == [pc |-> "idle", block |-> 0, bu |-> NoBurned, status |-> 0]
IdleCollect  == [pc |-> "idle", listed |-> {}, confirmed |-> 0]

InitCanister ==
  /\ minted_utxos = [p \in Users |-> {}]
  /\ collected_utxos = << >>
  /\ burning_utxos = << >>
  /\ burned_utxos = << >>
  /\ unconfirmed_burning_utxos = << >>
  /\ tokens_minted = 0 /\ tokens_burned = 0
  /\ tokens_minted_count = 0 /\ tokens_burned_count = 0
  /\ mints = [c \in MintCalls |-> IdleMint]
  /\ burns = [c \in BurnCalls |-> IdleBurn]
  /\ finals = [c \in FinalizeCalls |-> IdleFinalize]
  /\ collects = [c \in CollectCalls |-> IdleCollect]

InitWorld ==
  /\ utxos = << >> /\ network = << >>
  /\ balances = [p \in Users |-> 0] /\ log = << >>
  /\ tip = StartHeight /\ reorgs = 0

Init == InitCanister /\ InitWorld

-----------------------------------------------------------------------------
(* mint_ckdoge *)

\* Bound: calls that reach the minting loop, done or open.
OpenMints == {c \in MintCalls : mints[c].pc # "idle"}

MintStart(c) ==   \* the chain canister answers list_utxos
  /\ mints[c].pc = "idle"
  /\ tokens_minted_count + Cardinality(OpenMints) < MaxMints
  /\ ListUtxos(CallerOf[c]) # {}
  /\ mints' = [mints EXCEPT ![c] =
                 [IdleMint EXCEPT !.pc = "listed", !.todo = ListUtxos(CallerOf[c])]]
  /\ UNCHANGED <<stores, tokens, burns, finals, collects, chain, ledger>>

\* The next UTXO of the loop, in the order of the list.
MintNext(c, todo, snap) ==
  \E u \in todo :
    /\ \A v \in todo : u <= v
    /\ mints' = [mints EXCEPT ![c] = [pc |-> "mint", todo |-> todo \ {u},
                                      cur |-> u, snap |-> snap]]

MintListed(c) ==   \* the list arrives: MINTED_UTXOS is read now
  /\ mints[c].pc = "listed"
  /\ LET snap == minted_utxos[CallerOf[c]]
         todo == MintCandidates(mints[c].todo, snap)
     IN  IF todo = {} THEN mints' = [mints EXCEPT ![c] = IdleMint]
                      ELSE MintNext(c, todo, snap)
  /\ UNCHANGED <<stores, tokens, burns, finals, collects, chain, ledger>>

LedgerMint(c) ==   \* the ledger executes icrc1_transfer from the minter
  /\ mints[c].pc = "mint"
  /\ log' = Append(log, [op |-> "mint", user |-> CallerOf[c],
                         amount |-> utxos[mints[c].cur].value,
                         utxo |-> mints[c].cur])
  /\ balances' = [balances EXCEPT ![CallerOf[c]] =
                    @ + utxos[mints[c].cur].value]
  /\ mints' = [mints EXCEPT ![c].pc = "minted"]
  /\ UNCHANGED <<stores, tokens, burns, finals, collects, chain>>

LedgerRefusesMint(c) ==
  /\ mints[c].pc = "mint" /\ "ledger" \in Faults
  /\ mints' = [mints EXCEPT ![c].pc = "refused"]
  /\ UNCHANGED <<stores, tokens, burns, finals, collects, chain, ledger>>

MintDone(c) ==   \* the loop is over, with or without an error
  /\ tokens_minted_count' = tokens_minted_count + 1
  /\ mints' = [mints EXCEPT ![c] = IdleMint]

\* The snapshot read at the list with what the loop has minted since, and
\* the amount the ledger has just confirmed.
Snapshot(c)  == mints[c].snap \cup {mints[c].cur}
MintedNow_total(c) == TotalValue(Snapshot(c))   \* mutant: adds the total again
MintedNow(c) == utxos[mints[c].cur].value

MintMinted(c) ==   \* the ledger's Ok arrives: save, then the next UTXO
  /\ mints[c].pc = "minted"
  /\ tokens_minted' = tokens_minted + MintedNow(c)
  /\ minted_utxos' = [minted_utxos EXCEPT ![CallerOf[c]] = Snapshot(c)]
  /\ collected_utxos' = MarkUtxos({mints[c].cur}, 0, 0)
  /\ IF mints[c].todo = {} THEN MintDone(c)
     ELSE MintNext(c, mints[c].todo, Snapshot(c)) /\ UNCHANGED tokens_minted_count
  /\ UNCHANGED <<burning_utxos, burned_utxos, unconfirmed_burning_utxos,
                 tokens_burned, tokens_burned_count, burns, finals, collects,
                 chain, ledger>>

MintRefused(c) ==   \* the ledger's error arrives: the loop stops
  /\ mints[c].pc = "refused"
  /\ MintDone(c)
  /\ UNCHANGED <<stores, tokens_minted, tokens_burned, tokens_burned_count,
                 burns, finals, collects, chain, ledger>>

-----------------------------------------------------------------------------
(* burn_ckdoge and retry_burn_utxos *)

BurnStart(c, amount) ==   \* the ledger answers icrc1_balance_of
  /\ burns[c].pc = "idle"
  /\ amount >= DustLimit * 10
  /\ burns' = [burns EXCEPT ![c] =
                 [IdleBurn EXCEPT !.pc = "balance", !.amount = amount,
                                  !.balance = balances[CallerOf[c]]]]
  /\ UNCHANGED <<stores, tokens, mints, finals, collects, chain, ledger>>

BurnBalance(c) ==   \* the balance arrives: select, ask the ledger to burn
  /\ burns[c].pc = "balance"
  /\ LET amount   == burns[c].amount
         selected == SelectUtxos(amount)
     IN  IF amount <= burns[c].balance /\ amount <= TotalValue(selected)
         THEN burns' = [burns EXCEPT ![c] = [@ EXCEPT !.pc = "burn", !.utxos = selected]]
         ELSE burns' = [burns EXCEPT ![c] = IdleBurn]
  /\ UNCHANGED <<stores, tokens, mints, finals, collects, chain, ledger>>

LedgerBurn(c) ==   \* the ledger executes icrc2_transfer_from to the minter
  /\ burns[c].pc = "burn"
  /\ burns[c].amount <= balances[CallerOf[c]]
  /\ log' = Append(log, [op |-> "burn", user |-> CallerOf[c],
                         amount |-> burns[c].amount, utxo |-> 0])
  /\ balances' = [balances EXCEPT ![CallerOf[c]] = @ - burns[c].amount]
  /\ burns' = [burns EXCEPT ![c] = [@ EXCEPT !.pc = "burned", !.block = Len(log)]]
  /\ UNCHANGED <<stores, tokens, mints, finals, collects, chain>>

LedgerRefusesBurn(c) ==   \* and the call returns the error
  /\ burns[c].pc = "burn"
  /\ burns[c].amount > balances[CallerOf[c]] \/ "ledger" \in Faults
  /\ burns' = [burns EXCEPT ![c] = IdleBurn]
  /\ UNCHANGED <<stores, tokens, mints, finals, collects, chain, ledger>>

BurnBurned(c) ==   \* the block index arrives: mark, record, start the payout
  /\ burns[c].pc = "burned"
  /\ tokens_burned' = tokens_burned + burns[c].amount
  /\ tokens_burned_count' = tokens_burned_count + 1
  /\ collected_utxos' = MarkUtxos(burns[c].utxos, burns[c].block, 0)
  /\ burning_utxos' =
       [b \in DOMAIN burning_utxos \cup {burns[c].block} |->
          IF b = burns[c].block
          THEN [owner |-> CallerOf[c], amount |-> burns[c].amount,
                failed |-> FALSE]
          ELSE burning_utxos[b]]
  /\ burns' = [burns EXCEPT ![c].pc = "sign"]
  /\ UNCHANGED <<minted_utxos, burned_utxos, unconfirmed_burning_utxos,
                 tokens_minted, tokens_minted_count, mints, finals, collects,
                 chain, ledger>>

RetryStart(c, b) ==   \* retry_burn_utxos up to the first await of the payout
  /\ burns[c].pc = "idle"
  /\ b \in DOMAIN burning_utxos
  /\ MayRetry(CallerOf[c], b)
  /\ RetryUtxos(b) # {}
  /\ burns' = [burns EXCEPT ![c] =
                 [IdleBurn EXCEPT !.pc = "sign", !.block = b,
                                  !.amount = burning_utxos[b].amount,
                                  !.utxos = RetryUtxos(b)]]
  /\ UNCHANGED <<stores, tokens, mints, finals, collects, chain, ledger>>

PayoutFails(c) ==   \* no key, a failing signature, a transaction not sent
  /\ burns[c].pc = "sign"
  /\ \/ {"sign", "send"} \cap Faults # {}
     \/ ~NodeAccepts(burns[c].utxos, burns[c].amount)
  /\ burns' = [burns EXCEPT ![c].pc = "unsent"]
  /\ UNCHANGED <<stores, tokens, mints, finals, collects, chain, ledger>>

SendTx(c) ==   \* the chain canister hands the signed payout to the network
  /\ burns[c].pc = "sign"
  /\ NodeAccepts(burns[c].utxos, burns[c].amount)
  /\ network' = Append(network,
       [ins |-> burns[c].utxos, block |-> burns[c].block, height |-> 0,
        change |-> ChangeValue(TotalValue(burns[c].utxos), burns[c].amount)])
  /\ \/ burns' = [burns EXCEPT ![c] = [@ EXCEPT !.pc = "sent",
                                              !.tx = Len(network) + 1]]
     \/ "send_lost" \in Faults /\ burns' = [burns EXCEPT ![c].pc = "unsent"]
  /\ UNCHANGED <<stores, tokens, mints, finals, collects, utxos, tip, reorgs,
                 ledger>>

WithPayout_lost(c) == burned_utxos   \* mutant: BURNED_UTXOS not written
WithPayout(c) ==
  [b \in DOMAIN burned_utxos \cup {burns[c].block} |->
     IF b = burns[c].block
     THEN [utxos |-> burns[c].utxos, tx |-> burns[c].tx, height |-> 0]
     ELSE burned_utxos[b]]

BurnSent(c) ==   \* send_tx's Ok arrives
  /\ burns[c].pc = "sent"
  /\ LET b == burns[c].block
     IN  /\ collected_utxos' = MarkUtxos(burns[c].utxos, b, 1)
         /\ burned_utxos' = WithPayout(c)
         /\ unconfirmed_burning_utxos' = Append(unconfirmed_burning_utxos, b)
         /\ burning_utxos' =
              [x \in DOMAIN burning_utxos \ {b} |-> burning_utxos[x]]
  /\ burns' = [burns EXCEPT ![c] = IdleBurn]
  /\ UNCHANGED <<minted_utxos, tokens, mints, finals, collects, chain, ledger>>

WithError_removed(block) ==   \* mutant: removed as after a success
  [b \in DOMAIN burning_utxos \ {block} |-> burning_utxos[b]]
WithError(block) ==   \* entry(block).and_modify: only if it is still there
  [b \in DOMAIN burning_utxos |->
     IF b = block THEN [burning_utxos[b] EXCEPT !.failed = TRUE]
                  ELSE burning_utxos[b]]

BurnUnsent(c) ==   \* an error of burn_utxos arrives: keep it for a retry
  /\ burns[c].pc = "unsent"
  /\ burning_utxos' = WithError(burns[c].block)
  /\ burns' = [burns EXCEPT ![c] = IdleBurn]
  /\ UNCHANGED <<minted_utxos, collected_utxos, burned_utxos,
                 unconfirmed_burning_utxos, tokens, mints, finals, collects,
                 chain, ledger>>

-----------------------------------------------------------------------------
(* The timers: finalize_burning and collect_and_clear_utxos.  That the      *)
(* front of the queue is 60 seconds old, and that has_more runs the task    *)
(* again at once, only say when FinalizeStart may happen.                   *)

FinalizeStart(c) ==   \* the entry leaves the queue before the lookup
  /\ finals[c].pc = "idle"
  /\ unconfirmed_burning_utxos # << >>
  /\ LET b == Head(unconfirmed_burning_utxos)
     IN  IF b \in DOMAIN burned_utxos
         THEN finals' = [finals EXCEPT ![c] =
                [pc |-> "query", block |-> b, bu |-> burned_utxos[b],
                 status |-> 0]]
         ELSE UNCHANGED finals
  /\ unconfirmed_burning_utxos' = Tail(unconfirmed_burning_utxos)
  /\ UNCHANGED <<minted_utxos, collected_utxos, burning_utxos, burned_utxos,
                 tokens, mints, burns, collects, chain, ledger>>

TxStatus(c) ==   \* the chain canister answers get_tx_status; 0 stands for None
  /\ finals[c].pc = "query"
  /\ finals' = [finals EXCEPT ![c] =
       [@ EXCEPT !.pc = "status", !.status = network[finals[c].bu.tx].height]]
  /\ UNCHANGED <<stores, tokens, mints, burns, collects, chain, ledger>>

TxStatusFails(c) ==   \* the call fails: finalize_burning returns the error
  /\ finals[c].pc = "query" /\ "chain" \in Faults
  /\ finals' = [finals EXCEPT ![c] = IdleFinalize]
  /\ UNCHANGED <<stores, tokens, mints, burns, collects, chain, ledger>>

AtHeight_stale(bu, h) == bu   \* mutant: saves the record it has read
AtHeight(bu, h) == [bu EXCEPT !.height = h]

FinalizeMined(c) ==   \* a new height: save it, look again after some rounds
  /\ finals[c].pc = "status"
  /\ finals[c].status # 0 /\ finals[c].status # finals[c].bu.height
  /\ collected_utxos' =
       MarkUtxos(finals[c].bu.utxos, finals[c].block, finals[c].status)
  /\ burned_utxos' =
       [b \in DOMAIN burned_utxos |->
          IF b = finals[c].block
          THEN AtHeight(finals[c].bu, finals[c].status)
          ELSE burned_utxos[b]]
  /\ unconfirmed_burning_utxos' =
       Append(unconfirmed_burning_utxos, finals[c].block)
  /\ finals' = [finals EXCEPT ![c] = IdleFinalize]
  /\ UNCHANGED <<minted_utxos, burning_utxos, tokens, mints, burns, collects,
                 chain, ledger>>

\* None: a payout that was never seen in a block stays in the queue.
NeverSeen_seen(c) ==   \* mutant: the opposite test
  finals[c].status = 0 /\ finals[c].bu.height # 0
NeverSeen(c) == finals[c].status = 0 /\ finals[c].bu.height = 0

FinalizeUnmined(c) ==
  /\ finals[c].pc = "status"
  /\ NeverSeen(c)
  /\ unconfirmed_burning_utxos' =
       Append(unconfirmed_burning_utxos, finals[c].block)
  /\ finals' = [finals EXCEPT ![c] = IdleFinalize]
  /\ UNCHANGED <<minted_utxos, collected_utxos, burning_utxos, burned_utxos,
                 tokens, mints, burns, collects, chain, ledger>>

FinalizeDropped(c) ==   \* the same height again, or none after one was seen
  /\ finals[c].pc = "status"
  /\ \/ finals[c].status # 0 /\ finals[c].status = finals[c].bu.height
     \/ finals[c].status = 0 /\ ~NeverSeen(c)
  /\ finals' = [finals EXCEPT ![c] = IdleFinalize]
  /\ UNCHANGED <<stores, tokens, mints, burns, collects, chain, ledger>>

CollectStart(c) ==   \* the chain canister lists the minter's own UTXOs
  /\ collects[c].pc = "idle"
  /\ ListUtxos(Minter) # {}
  /\ collects' = [collects EXCEPT ![c] =
       [pc |-> "listed", listed |-> ListUtxos(Minter),
        confirmed |-> ConfirmedHeight]]
  /\ UNCHANGED <<stores, tokens, mints, burns, finals, chain, ledger>>

CollectListed(c) ==
  /\ collects[c].pc = "listed"
  /\ LET m == Collected(collects[c].listed)
     IN  collected_utxos' =
           [u \in Retained(m, collects[c].confirmed) |-> m[u]]
  /\ collects' = [collects EXCEPT ![c] = IdleCollect]
  /\ UNCHANGED <<minted_utxos, burning_utxos, burned_utxos,
                 unconfirmed_burning_utxos, tokens, mints, burns, finals,
                 chain, ledger>>

-----------------------------------------------------------------------------
(* Dogecoin: deposits confirm, blocks come, the unconfirmed end may change  *)

Deposits == {u \in DOMAIN utxos : utxos[u].owner \in Users}

Deposit(p, v) ==
  /\ Cardinality(Deposits) < MaxDeposits
  /\ utxos' = Append(utxos, [owner |-> p, value |-> v])
  /\ UNCHANGED <<stores, tokens, calls, network, tip, reorgs, ledger>>

\* The payouts whose change the next block confirms, and their change
\* outputs in an order of the payouts.
Confirming == {t \in DOMAIN network : /\ network[t].change > 0
                                      /\ network[t].height # 0
                                      /\ network[t].height = tip + 1 - MinConf}
ChangeOutputs(order) ==
  [i \in DOMAIN order |-> [owner |-> Minter, value |-> network[order[i]].change]]

NewBlock ==   \* the next block mines some of the waiting payouts
  /\ tip < MaxHeight
  /\ \E M \in SUBSET {t \in DOMAIN network : network[t].height = 0} :
       network' = [t \in DOMAIN network |->
         IF t \in M THEN [network[t] EXCEPT !.height = tip + 1] ELSE network[t]]
  /\ \E order \in SetToSeqs(Confirming) : utxos' = utxos \o ChangeOutputs(order)
  /\ tip' = tip + 1
  /\ UNCHANGED <<stores, tokens, calls, reorgs, ledger>>

Reorg ==   \* other blocks from height h up; payouts in them move or wait again
  /\ reorgs < MaxReorgs
  /\ \E h \in (ConfirmedHeight + 1)..tip :
       LET moved == {t \in DOMAIN network : network[t].height >= h}
       IN  /\ moved # {}
           /\ \E g \in [moved -> {0} \cup h..tip] :
                network' = [t \in DOMAIN network |->
                  IF t \in moved THEN [network[t] EXCEPT !.height = g[t]]
                                 ELSE network[t]]
  /\ reorgs' = reorgs + 1
  /\ UNCHANGED <<stores, tokens, calls, utxos, tip, ledger>>

-----------------------------------------------------------------------------

MintAnswers(c) == LedgerMint(c) \/ LedgerRefusesMint(c)
MintSteps(c)   == MintListed(c) \/ MintMinted(c) \/ MintRefused(c)
BurnAnswers(c) == LedgerBurn(c) \/ LedgerRefusesBurn(c)
                    \/ PayoutFails(c) \/ SendTx(c)
BurnSteps(c)   == BurnBalance(c) \/ BurnBurned(c) \/ BurnSent(c) \/ BurnUnsent(c)
TxAnswers(c)   == TxStatus(c) \/ TxStatusFails(c)
FinalizeSteps(c) == FinalizeMined(c) \/ FinalizeUnmined(c) \/ FinalizeDropped(c)

Next ==
  \/ \E c \in MintCalls : MintStart(c) \/ MintAnswers(c) \/ MintSteps(c)
  \/ \E c \in BurnCalls :
       \/ \E amount \in Amounts : BurnStart(c, amount)
       \/ \E b \in DOMAIN burning_utxos : RetryStart(c, b)
       \/ BurnAnswers(c) \/ BurnSteps(c)
  \/ \E c \in FinalizeCalls : FinalizeStart(c) \/ TxAnswers(c) \/ FinalizeSteps(c)
  \/ \E c \in CollectCalls : CollectStart(c) \/ CollectListed(c)
  \/ \E p \in Users, v \in Values : Deposit(p, v)
  \/ NewBlock \/ Reorg

\* The Internet Computer answers every call and delivers every answer, and
\* the interval timers of init and post_upgrade fire for ever.  Users, nodes
\* and miners owe nothing.
Fairness ==
  /\ \A c \in MintCalls : WF_vars(MintAnswers(c)) /\ WF_vars(MintSteps(c))
  /\ \A c \in BurnCalls : WF_vars(BurnAnswers(c)) /\ WF_vars(BurnSteps(c))
  /\ \A c \in FinalizeCalls : /\ WF_vars(FinalizeStart(c))
                              /\ WF_vars(TxAnswers(c))
                              /\ WF_vars(FinalizeSteps(c))
  /\ \A c \in CollectCalls : WF_vars(CollectStart(c)) /\ WF_vars(CollectListed(c))

Spec == Init /\ [][Next]_vars
FairSpec == Spec /\ Fairness

-----------------------------------------------------------------------------
(* Properties *)

BurnBlocks == {i - 1 : i \in Entries("burn")}

Outpoints == [owner : Users \cup {Minter}, value : Nat \ {0}]
Payouts   == [ins : SUBSET DOMAIN utxos, block : Nat, change : Nat, height : Nat]
Entry     == [op : {"mint", "burn"}, user : Users, amount : Nat,
              utxo : {0} \cup DOMAIN utxos]
WorldTypes ==
  /\ utxos \in Seq(Outpoints)
  /\ network \in Seq(Payouts)
  /\ tip \in Nat /\ reorgs \in Nat
  /\ balances \in [Users -> Nat]
  /\ log \in Seq(Entry)
StoreTypes ==
  /\ tokens_minted \in Nat /\ tokens_burned \in Nat
  /\ tokens_minted_count \in Nat /\ tokens_burned_count \in Nat
  /\ minted_utxos \in [Users -> SUBSET DOMAIN utxos]
  /\ DOMAIN collected_utxos \subseteq DOMAIN utxos
  /\ collected_utxos \in [DOMAIN collected_utxos -> [block : Nat, height : Nat]]
  /\ DOMAIN burning_utxos \subseteq Nat
  /\ burning_utxos \in [DOMAIN burning_utxos ->
                          [owner : Users, amount : Nat, failed : BOOLEAN]]
  /\ DOMAIN burned_utxos \subseteq Nat
  /\ burned_utxos \in [DOMAIN burned_utxos ->
       [utxos : SUBSET DOMAIN utxos, tx : DOMAIN network, height : Nat]]
  /\ unconfirmed_burning_utxos \in Seq(DOMAIN burned_utxos)
MintTypes ==
  mints \in [MintCalls ->
    [pc : {"idle", "listed", "mint", "minted", "refused"},
     todo : SUBSET DOMAIN utxos, cur : {0} \cup DOMAIN utxos,
     snap : SUBSET DOMAIN utxos]]
BurnTypes ==
  burns \in [BurnCalls ->
    [pc : {"idle", "balance", "burn", "burned", "sign", "sent", "unsent"},
     amount : Nat, balance : Nat, utxos : SUBSET DOMAIN utxos,
     block : Nat, tx : {0} \cup DOMAIN network]]
TimerTypes ==
  /\ finals \in [FinalizeCalls ->
       [pc : {"idle", "query", "status"}, block : Nat,
        bu : [utxos : SUBSET DOMAIN utxos, tx : {0} \cup DOMAIN network,
              height : Nat],
        status : Nat]]
  /\ collects \in [CollectCalls ->
       [pc : {"idle", "listed"}, listed : SUBSET DOMAIN utxos,
        confirmed : Nat]]
OpenCalls ==
  /\ \A c \in MintCalls : mints[c].pc \in {"mint", "minted"} => mints[c].cur # 0
  /\ \A c \in BurnCalls : burns[c].pc = "sent" => burns[c].tx # 0
  /\ \A c \in FinalizeCalls : finals[c].pc # "idle" =>
       /\ finals[c].block \in DOMAIN burned_utxos
       /\ finals[c].bu.tx # 0

\* The shape of the state; in particular every queued block and every open
\* lookup has its record in BURNED_UTXOS, which finalize_burning relies on,
\* and every recorded payout is a transaction the network has taken.
TypeOK == /\ WorldTypes /\ StoreTypes /\ MintTypes /\ BurnTypes /\ TimerTypes
          /\ OpenCalls

\* "The CK-Doge minter occupies the UTXOs and mints": the ledger never mints
\* twice for one UTXO, whatever fails in the minting loop and whenever the
\* answers come, as long as a principal has one mint_ckdoge open at a time.
NoDoubleMint ==
  \A i, j \in Entries("mint") : log[i].utxo = log[j].utxo => i = j

\* tokens_minted and tokens_burned are what the ledger minted and burned, but
\* for the answers that are still on their way.
AccountsMatchLedger ==
  /\ LogSum(Entries("mint")) = tokens_minted
       + MapThenSumSet(LAMBDA c : utxos[mints[c].cur].value,
                       {c \in MintCalls : mints[c].pc = "minted"})
  /\ LogSum(Entries("burn")) = tokens_burned
       + MapThenSumSet(LAMBDA c : burns[c].amount,
                       {c \in BurnCalls : burns[c].pc = "burned"})

\* A burn the ledger executed is never forgotten: its answer is on its way,
\* or it waits in burning_utxos, or its payout is in BURNED_UTXOS.
NoBurnForgotten ==
  \A b \in BurnBlocks :
    \/ b \in DOMAIN burning_utxos \cup DOMAIN burned_utxos
    \/ \E c \in BurnCalls : burns[c].pc = "burned" /\ burns[c].block = b

\* A UTXO the minter would select for the next burn is not an input of a
\* payout the network has, or of one that an open call is about to send.
FreeIsUnspent ==
  \A u \in FreeUtxos :
    /\ ~Spends(u)
    /\ \A c \in BurnCalls :
         burns[c].pc \in {"sign", "sent", "unsent"} => u \notin burns[c].utxos

\* README.md:29 "the total value of ckDOGE cannot exceed the DOGE held by the
\* two contracts", but for the change of at most DustLimit that each payout may
\* leave to the miners: the supply is covered by what the minter can still spend.
Supply == LogSum(Entries("mint")) - LogSum(Entries("burn"))
Unconfirmed ==
  {t \in DOMAIN network : network[t].height \notin 1..ConfirmedHeight}
Held == TotalValue({u \in DOMAIN utxos : ~Spends(u)})
          + MapThenSumSet(LAMBDA t : network[t].change, Unconfirmed)
BackedUpToDust == Supply <= Held + DustLimit * Len(network)

\* Retries and lost answers never pay one burn twice.
PayoutOnce ==
  \A s, t \in DOMAIN network : network[s].block = network[t].block => s = t

\* store.rs:525: when burns do not overlap, a failed one can be retried: it
\* still owns UTXOs that are not marked as sent and that cover its amount.
OpenBurn(b) == \E c \in BurnCalls : burns[c].pc # "idle" /\ burns[c].block = b
FailedBurnRetryable ==
  \A b \in DOMAIN burning_utxos : burning_utxos[b].failed /\ ~OpenBurn(b) =>
    TotalValue({u \in DOMAIN collected_utxos :
                  /\ collected_utxos[u].block = b
                  /\ collected_utxos[u].height = 0}) >= burning_utxos[b].amount

\* finalize_burning loses sight of a payout only when it is in a block.
Tracked(b) ==
  \/ \E i \in DOMAIN unconfirmed_burning_utxos : unconfirmed_burning_utxos[i] = b
  \/ \E c \in FinalizeCalls : finals[c].pc # "idle" /\ finals[c].block = b
TrackedUntilMined ==
  [][\A b \in DOMAIN burned_utxos :
       Tracked(b) /\ ~Tracked(b)' => network[burned_utxos[b].tx].height # 0]_vars

\* A payout whose block is confirmed gets its final height into BURNED_UTXOS.
BlockBound == 3 * MaxDeposits
PayoutConfirmed(b) ==
  b \in DOMAIN burned_utxos /\ burned_utxos[b].tx \notin Unconfirmed
FinalHeight(b) ==
  /\ b \in DOMAIN burned_utxos
  /\ burned_utxos[b].height = network[burned_utxos[b].tx].height
BurnFinalized == \A b \in 0..BlockBound : PayoutConfirmed(b) ~> FinalHeight(b)

\* Confirmed change comes back to the pool the burns select from.
IsChange(u) == u \in DOMAIN utxos /\ utxos[u].owner = Minter
ChangeCollected ==
  \A u \in 1..BlockBound : IsChange(u) ~> (u \in DOMAIN collected_utxos)
=============================================================================
