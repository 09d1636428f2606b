---------------------------- MODULE MinterSafety ----------------------------
(***************************************************************************)
(* Safety of CkDogeMinter for every value of its constants.  In this order:*)
(* its types; no executed burn is forgotten; no burn is paid twice; no UTXO*)
(* is minted twice when a principal has one mint_ckdoge open at a time;    *)
(* what the canister counts as minted and burned is what the ledger has    *)
(* executed, but for the answers that are on their way; then the pool of   *)
(* UTXOs the minter pays from; then the refinement of Bridge.              *)
(***************************************************************************)
EXTENDS MinterBridge, Sums, SequenceTheorems

-----------------------------------------------------------------------------
(* Type correctness: TypeOK is inductive.  Every action keeps each of its *)
(* parts; those it does not touch, because the outputs and the payouts    *)
(* that the canister's state refers to only grow.                         *)

LEMMA UtxoTypes ==
  ASSUME WorldTypes, NEW u \in DOMAIN utxos
  PROVE  utxos[u].value \in Nat \ {0} /\ utxos[u].owner \in Users \cup {Minter}
<1>1. utxos[u] \in Outpoints
  BY DEF WorldTypes
<1> QED BY <1>1 DEF Outpoints

\* A set of UTXOs has a natural number for its value, the empty one 0.
LEMMA TotalIsSum ==
  ASSUME NEW S, S \subseteq DOMAIN utxos
  PROVE  TotalValue(S) = Sum([u \in S |-> utxos[u].value], S)
<1> DEFINE f == [u \in S |-> utxos[u].value]
           P(g) == g = [s \in SUBSET S |->
                     IF s = {} THEN 0
                     ELSE utxos[CHOOSE x \in s : TRUE].value
                            + g[s \ {CHOOSE x \in s : TRUE}]]
           Q(g) == g = [s \in SUBSET S |->
                     IF s = {} THEN 0
                     ELSE f[CHOOSE x \in s : TRUE]
                            + g[s \ {CHOOSE x \in s : TRUE}]]
<1>1. TotalValue(S) = (CHOOSE g : P(g))[S]
  BY DEF TotalValue, MapThenSumSet, MapThenFoldSet
<1>2. Sum(f, S) = (CHOOSE g : Q(g))[S]
  BY DEF Sum, MapThenSumSet, MapThenFoldSet
<1>3. \A s \in SUBSET S : s # {} =>
        f[CHOOSE x \in s : TRUE] = utxos[CHOOSE x \in s : TRUE].value
  OBVIOUS
<1>4. \A g : P(g) <=> Q(g)
  BY <1>3
<1>5. (CHOOSE g : P(g)) = (CHOOSE g : Q(g))
  BY <1>4
<1> QED BY <1>1, <1>2, <1>5

\* The entries of the ledger add up in the same way.
LEMMA LogIsSum ==
  ASSUME NEW S, S \subseteq DOMAIN log
  PROVE  LogSum(S) = Sum([i \in S |-> log[i].amount], S)
<1> DEFINE f == [i \in S |-> log[i].amount]
           P(g) == g = [s \in SUBSET S |->
                     IF s = {} THEN 0
                     ELSE log[CHOOSE x \in s : TRUE].amount
                            + g[s \ {CHOOSE x \in s : TRUE}]]
           Q(g) == g = [s \in SUBSET S |->
                     IF s = {} THEN 0
                     ELSE f[CHOOSE x \in s : TRUE]
                            + g[s \ {CHOOSE x \in s : TRUE}]]
<1>1. LogSum(S) = (CHOOSE g : P(g))[S]
  BY DEF LogSum, MapThenSumSet, MapThenFoldSet
<1>2. Sum(f, S) = (CHOOSE g : Q(g))[S]
  BY DEF Sum, MapThenSumSet, MapThenFoldSet
<1>3. \A s \in SUBSET S : s # {} =>
        f[CHOOSE x \in s : TRUE] = log[CHOOSE x \in s : TRUE].amount
  OBVIOUS
<1>4. \A g : P(g) <=> Q(g)
  BY <1>3
<1>5. (CHOOSE g : P(g)) = (CHOOSE g : Q(g))
  BY <1>4
<1> QED BY <1>1, <1>2, <1>4, <1>5

LEMMA TotalEmpty == TotalValue({}) = 0
  BY TotalIsSum, SumEmpty

LEMMA TotalNat ==
  ASSUME WorldTypes, NEW S \in SUBSET DOMAIN utxos
  PROVE  TotalValue(S) \in Nat
<1>1. DOMAIN utxos = 1..Len(utxos) /\ Len(utxos) \in Nat
  BY DEF WorldTypes
<1>2. IsFiniteSet(S)
  <2>1. IsFiniteSet(1..Len(utxos))
    BY <1>1, FS_Interval
  <2> QED BY <1>1, <2>1, FS_Subset
<1>3. [u \in S |-> utxos[u].value] \in [S -> Nat]
  BY UtxoTypes
<1> QED BY <1>2, <1>3, TotalIsSum, SumNat

LEMMA ChangeNat ==
  ASSUME WorldTypes, NEW S \in SUBSET DOMAIN utxos, NEW amount \in Nat
  PROVE  ChangeValue(TotalValue(S), amount) \in Nat
  BY TotalNat DEF ChangeValue, Monus

LEMMA ListTypes ==
  ASSUME NEW p
  PROVE  /\ ListUtxos(p) \subseteq DOMAIN utxos
         /\ \A u \in ListUtxos(p) : utxos[u].owner = p
  BY DEF ListUtxos

\* What is selected is free; a positive amount is not covered by nothing.
LEMMA SelectTypes ==
  ASSUME NEW amount \in Nat
  PROVE  /\ SelectUtxos(amount) \subseteq FreeUtxos
         /\ amount > 0 /\ amount <= TotalValue(SelectUtxos(amount)) =>
              SelectUtxos(amount) # {}
<1>1. SelectUtxos(amount) \subseteq FreeUtxos
  BY DEF SelectUtxos
<1> QED BY <1>1, TotalEmpty

LEMMA ConfirmedNat == ASSUME WorldTypes PROVE ConfirmedHeight \in Nat
  BY NumbersAssumption DEF ConfirmedHeight, WorldTypes

-----------------------------------------------------------------------------
(* Parts an action does not touch *)

Grows == /\ DOMAIN utxos \subseteq DOMAIN utxos'
         /\ DOMAIN network \subseteq DOMAIN network'

LEMMA SameGrows == UNCHANGED chain => Grows
  BY DEF chain, Grows

LEMMA WorldFrame ==
  ASSUME WorldTypes, UNCHANGED <<chain, ledger>>
  PROVE  WorldTypes'
  BY DEF WorldTypes, chain, ledger, Payouts, Entry

LEMMA StoreFrame ==
  ASSUME StoreTypes, Grows, UNCHANGED <<stores, tokens>>
  PROVE  StoreTypes'
<1> USE DEF StoreTypes, Grows, stores, tokens
<1>1. minted_utxos' \in [Users -> SUBSET DOMAIN utxos']
  OBVIOUS
<1>2. burned_utxos' \in [DOMAIN burned_utxos ->
         [utxos : SUBSET DOMAIN utxos', tx : DOMAIN network', height : Nat]]
  OBVIOUS
<1> QED BY <1>1, <1>2

LEMMA MintFrame ==
  ASSUME MintTypes, Grows, UNCHANGED mints
  PROVE  MintTypes'
  BY DEF MintTypes, Grows

LEMMA BurnFrame ==
  ASSUME BurnTypes, Grows, UNCHANGED burns
  PROVE  BurnTypes'
  BY DEF BurnTypes, Grows

LEMMA TimerFrame ==
  ASSUME TimerTypes, Grows, UNCHANGED <<finals, collects>>
  PROVE  TimerTypes'
  BY DEF TimerTypes, Grows

LEMMA OpenFrame ==
  ASSUME OpenCalls, UNCHANGED calls, DOMAIN burned_utxos \subseteq DOMAIN burned_utxos'
  PROVE  OpenCalls'
  BY DEF OpenCalls, calls

-----------------------------------------------------------------------------
(* mint_ckdoge *)

\* Answers that change a call and nothing else.
LEMMA MintCallTypes ==
  ASSUME TypeOK, MintTypes', UNCHANGED <<stores, tokens, burns, finals, collects, chain, ledger>>,
         \A c \in MintCalls : mints'[c].pc \in {"mint", "minted"} => mints'[c].cur # 0
  PROVE  TypeOK'
<1>1. Grows
  BY SameGrows
<1>2. WorldTypes' /\ StoreTypes' /\ BurnTypes' /\ TimerTypes'
  BY <1>1, WorldFrame, StoreFrame, BurnFrame, TimerFrame DEF TypeOK
<1>3. OpenCalls'
  BY DEF TypeOK, OpenCalls, stores
<1> QED BY <1>2, <1>3 DEF TypeOK

LEMMA MintStartTypes == ASSUME TypeOK, NEW c \in MintCalls, MintStart(c) PROVE TypeOK'
<1>0. ListUtxos(CallerOf[c]) \in SUBSET DOMAIN utxos
  BY ListTypes
<1>1. MintTypes'
  BY <1>0 DEF TypeOK, MintTypes, MintStart, IdleMint, chain
<1>2. \A d \in MintCalls : mints'[d].pc \in {"mint", "minted"} => mints'[d].cur # 0
  BY DEF TypeOK, MintTypes, OpenCalls, MintStart, IdleMint
<1> QED BY <1>1, <1>2, MintCallTypes DEF MintStart

LEMMA MintNextTypes ==
  ASSUME TypeOK, NEW c \in MintCalls,
         NEW todo \in SUBSET DOMAIN utxos, NEW snap \in SUBSET DOMAIN utxos,
         MintNext(c, todo, snap), DOMAIN utxos \subseteq DOMAIN utxos'
  PROVE  /\ MintTypes'
         /\ \A d \in MintCalls : mints'[d].pc \in {"mint", "minted"} => mints'[d].cur # 0
<1>1. PICK u \in todo :
        mints' = [mints EXCEPT ![c] = [pc |-> "mint", todo |-> todo \ {u},
                                       cur |-> u, snap |-> snap]]
  BY DEF MintNext
<1>2. u # 0
  BY DEF TypeOK, WorldTypes
<1>3. MintTypes'
  BY <1>1 DEF TypeOK, MintTypes
<1> QED BY <1>1, <1>2, <1>3 DEF TypeOK, MintTypes, OpenCalls

LEMMA MintListedTypes == ASSUME TypeOK, NEW c \in MintCalls, MintListed(c) PROVE TypeOK'
<1> DEFINE snap == minted_utxos[CallerOf[c]]
           todo == MintCandidates(mints[c].todo, snap)
<1>0. snap \in SUBSET DOMAIN utxos /\ todo \in SUBSET DOMAIN utxos
  BY PrincipalsAssumption DEF TypeOK, StoreTypes, MintTypes, MintCandidates
<1>1. CASE todo = {}
  <2>1. mints' = [mints EXCEPT ![c] = IdleMint]
    BY <1>1 DEF MintListed
  <2>2. MintTypes'
    BY <2>1 DEF TypeOK, MintTypes, MintListed, chain, IdleMint
  <2>3. \A d \in MintCalls : mints'[d].pc \in {"mint", "minted"} => mints'[d].cur # 0
    BY <2>1 DEF TypeOK, MintTypes, OpenCalls, IdleMint
  <2> QED BY <2>2, <2>3, MintCallTypes DEF MintListed
<1>2. CASE todo # {}
  <2>1. MintNext(c, todo, snap) /\ utxos' = utxos
    BY <1>2 DEF MintListed, chain
  <2> HIDE DEF snap, todo
  <2> QED BY <1>0, <2>1, MintNextTypes, MintCallTypes DEF MintListed
<1> QED BY <1>1, <1>2

LEMMA LedgerMintTypes == ASSUME TypeOK, NEW c \in MintCalls, LedgerMint(c) PROVE TypeOK'
<1>1. mints[c].cur \in DOMAIN utxos
  BY DEF TypeOK, OpenCalls, MintTypes, LedgerMint
<1>2. utxos[mints[c].cur].value \in Nat
  BY <1>1, UtxoTypes DEF TypeOK
<1>3. CallerOf[c] \in Users
  BY PrincipalsAssumption
<1>4. Grows
  BY SameGrows DEF LedgerMint
<1>5. WorldTypes'
  <2>1. balances' \in [Users -> Nat]
    BY <1>2, <1>3 DEF TypeOK, WorldTypes, LedgerMint
  <2>2. log' \in Seq(Entry)
    BY <1>1, <1>2, <1>3 DEF TypeOK, WorldTypes, LedgerMint, Entry
  <2> QED BY <2>1, <2>2 DEF TypeOK, WorldTypes, LedgerMint, chain, Payouts, Entry
<1>6. MintTypes'
  BY DEF TypeOK, MintTypes, LedgerMint, chain
<1>7. OpenCalls'
  BY <1>1 DEF TypeOK, MintTypes, OpenCalls, LedgerMint, stores
<1> QED BY <1>4, <1>5, <1>6, <1>7, StoreFrame, BurnFrame, TimerFrame DEF TypeOK, LedgerMint

LEMMA LedgerRefusesMintTypes ==
  ASSUME TypeOK, NEW c \in MintCalls, LedgerRefusesMint(c) PROVE TypeOK'
<1>1. MintTypes'
  BY DEF TypeOK, MintTypes, LedgerRefusesMint, chain
<1>2. \A d \in MintCalls : mints'[d].pc \in {"mint", "minted"} => mints'[d].cur # 0
  BY DEF TypeOK, MintTypes, OpenCalls, LedgerRefusesMint
<1> QED BY <1>1, <1>2, MintCallTypes DEF LedgerRefusesMint

LEMMA MarkTypes ==
  ASSUME StoreTypes, NEW S \in SUBSET DOMAIN utxos, NEW b \in Nat, NEW h \in Nat
  PROVE  /\ DOMAIN MarkUtxos(S, b, h) \subseteq DOMAIN utxos
         /\ MarkUtxos(S, b, h) \in
              [DOMAIN MarkUtxos(S, b, h) -> [block : Nat, height : Nat]]
  BY DEF StoreTypes, MarkUtxos

LEMMA MintMintedTypes == ASSUME TypeOK, NEW c \in MintCalls, MintMinted(c) PROVE TypeOK'
<1>0. CallerOf[c] \in Users
  BY PrincipalsAssumption
<1>1. mints[c].cur \in DOMAIN utxos
  BY DEF TypeOK, OpenCalls, MintTypes, MintMinted
<1>2. utxos[mints[c].cur].value \in Nat
  BY <1>1, UtxoTypes DEF TypeOK
<1>3. Snapshot(c) \in SUBSET DOMAIN utxos /\ mints[c].todo \in SUBSET DOMAIN utxos
  BY <1>1 DEF TypeOK, MintTypes, Snapshot
<1>4. Grows /\ UNCHANGED <<chain, ledger>>
  BY SameGrows DEF MintMinted
<1>5. StoreTypes'
  <2>1. tokens_minted' \in Nat
    BY <1>2 DEF TypeOK, StoreTypes, MintMinted, MintedNow
  <2>4. tokens_minted_count' \in Nat
    BY DEF TypeOK, StoreTypes, MintMinted, MintDone
  <2>2. minted_utxos' \in [Users -> SUBSET DOMAIN utxos]
    BY <1>0, <1>3 DEF TypeOK, StoreTypes, MintMinted
  <2>3. /\ DOMAIN collected_utxos' \subseteq DOMAIN utxos
        /\ collected_utxos' \in [DOMAIN collected_utxos' -> [block : Nat, height : Nat]]
    BY <1>1, MarkTypes DEF TypeOK, MintMinted
  <2> QED BY <2>1, <2>2, <2>3, <2>4 DEF TypeOK, StoreTypes, MintMinted, chain
<1>6. /\ MintTypes'
      /\ \A d \in MintCalls : mints'[d].pc \in {"mint", "minted"} => mints'[d].cur # 0
  <2>1. CASE mints[c].todo = {}
    BY <2>1, <1>4 DEF MintMinted, MintDone, IdleMint, TypeOK, MintTypes, OpenCalls, chain
  <2>2. CASE mints[c].todo # {}
    <3>1. MintNext(c, mints[c].todo, Snapshot(c))
      BY <2>2 DEF MintMinted
    <3> QED BY <1>3, <1>4, <3>1, MintNextTypes DEF Grows
  <2> QED BY <2>1, <2>2
<1>7. OpenCalls'
  BY <1>6 DEF TypeOK, OpenCalls, MintMinted
<1> QED BY <1>4, <1>5, <1>6, <1>7, WorldFrame, BurnFrame, TimerFrame DEF TypeOK, MintMinted

LEMMA MintRefusedTypes == ASSUME TypeOK, NEW c \in MintCalls, MintRefused(c) PROVE TypeOK'
<1>1. Grows /\ UNCHANGED <<chain, ledger>>
  BY SameGrows DEF MintRefused
<1>2. StoreTypes'
  BY <1>1 DEF TypeOK, StoreTypes, MintRefused, MintDone, stores, chain
<1>3. MintTypes'
  BY DEF TypeOK, MintTypes, MintRefused, MintDone, IdleMint, chain
<1>4. OpenCalls'
  BY DEF TypeOK, MintTypes, OpenCalls, MintRefused, MintDone, IdleMint, stores
<1> QED BY <1>1, <1>2, <1>3, <1>4, WorldFrame, BurnFrame, TimerFrame DEF TypeOK, MintRefused

-----------------------------------------------------------------------------
(* burn_ckdoge and retry_burn_utxos *)

\* Steps that change a burn call and nothing else.
LEMMA BurnCallTypes ==
  ASSUME TypeOK, BurnTypes', UNCHANGED <<stores, tokens, mints, finals, collects, chain, ledger>>,
         \A c \in BurnCalls : burns'[c].pc = "sent" => burns'[c].tx # 0
  PROVE  TypeOK'
<1>1. Grows
  BY SameGrows
<1>2. WorldTypes' /\ StoreTypes' /\ MintTypes' /\ TimerTypes'
  BY <1>1, WorldFrame, StoreFrame, MintFrame, TimerFrame DEF TypeOK
<1>3. OpenCalls'
  BY DEF TypeOK, OpenCalls, stores
<1> QED BY <1>2, <1>3 DEF TypeOK

LEMMA BurnStartTypes ==
  ASSUME TypeOK, NEW c \in BurnCalls, NEW amount \in Amounts, BurnStart(c, amount)
  PROVE  TypeOK'
<1>1. balances[CallerOf[c]] \in Nat /\ amount \in Nat
  BY PrincipalsAssumption, NumbersAssumption DEF TypeOK, WorldTypes
<1>2. BurnTypes'
  BY <1>1 DEF TypeOK, BurnTypes, BurnStart, IdleBurn, chain
<1>3. \A d \in BurnCalls : burns'[d].pc = "sent" => burns'[d].tx # 0
  BY DEF TypeOK, BurnTypes, OpenCalls, BurnStart, IdleBurn
<1> QED BY <1>2, <1>3, BurnCallTypes DEF BurnStart

LEMMA FreeTypes == ASSUME StoreTypes PROVE FreeUtxos \in SUBSET DOMAIN utxos
  BY DEF StoreTypes, FreeUtxos

LEMMA BurnBalanceTypes == ASSUME TypeOK, NEW c \in BurnCalls, BurnBalance(c) PROVE TypeOK'
<1> DEFINE selected == SelectUtxos(burns[c].amount)
<1>1. selected \in SUBSET DOMAIN utxos
  <2>1. burns[c].amount \in Nat
    BY DEF TypeOK, BurnTypes
  <2> QED BY <2>1, SelectTypes, FreeTypes DEF TypeOK
<1>2. \/ burns' = [burns EXCEPT ![c] = [@ EXCEPT !.pc = "burn", !.utxos = selected]]
      \/ burns' = [burns EXCEPT ![c] = IdleBurn]
  BY DEF BurnBalance
<1> HIDE DEF selected
<1>3. /\ BurnTypes'
      /\ \A d \in BurnCalls : burns'[d].pc = "sent" => burns'[d].tx # 0
  <2>0. utxos' = utxos /\ network' = network
    BY DEF BurnBalance, chain
  <2>1. CASE burns' = [burns EXCEPT ![c] = [@ EXCEPT !.pc = "burn", !.utxos = selected]]
    <3>1. BurnTypes'
      BY <1>1, <2>0, <2>1, ZenonT(60) DEF TypeOK, BurnTypes
    <3> QED BY <2>1, <3>1 DEF TypeOK, BurnTypes, OpenCalls
  <2>2. CASE burns' = [burns EXCEPT ![c] = IdleBurn]
    BY <2>0, <2>2 DEF TypeOK, BurnTypes, OpenCalls, IdleBurn
  <2> QED BY <1>2, <2>1, <2>2
<1> QED BY <1>3, BurnCallTypes DEF BurnBalance

LEMMA LedgerBurnTypes == ASSUME TypeOK, NEW c \in BurnCalls, LedgerBurn(c) PROVE TypeOK'
<1>1. burns[c].amount \in Nat /\ CallerOf[c] \in Users /\ Len(log) \in Nat
  BY PrincipalsAssumption DEF TypeOK, BurnTypes, WorldTypes
<1>2. Grows
  BY SameGrows DEF LedgerBurn
<1>3. WorldTypes'
  <2>1. balances' \in [Users -> Nat]
    BY <1>1 DEF TypeOK, WorldTypes, LedgerBurn
  <2>2. log' \in Seq(Entry)
    BY <1>1 DEF TypeOK, WorldTypes, LedgerBurn, Entry
  <2> QED BY <2>1, <2>2 DEF TypeOK, WorldTypes, LedgerBurn, chain, Payouts, Entry
<1>4. BurnTypes'
  BY <1>1, ZenonT(60) DEF TypeOK, BurnTypes, LedgerBurn, chain
<1>5. OpenCalls'
  BY DEF TypeOK, BurnTypes, OpenCalls, LedgerBurn, stores
<1> QED BY <1>2, <1>3, <1>4, <1>5, StoreFrame, MintFrame, TimerFrame DEF TypeOK, LedgerBurn

LEMMA LedgerRefusesBurnTypes ==
  ASSUME TypeOK, NEW c \in BurnCalls, LedgerRefusesBurn(c) PROVE TypeOK'
<1>1. BurnTypes'
  BY DEF TypeOK, BurnTypes, LedgerRefusesBurn, IdleBurn, chain
<1>2. \A d \in BurnCalls : burns'[d].pc = "sent" => burns'[d].tx # 0
  BY DEF TypeOK, BurnTypes, OpenCalls, LedgerRefusesBurn, IdleBurn
<1> QED BY <1>1, <1>2, BurnCallTypes DEF LedgerRefusesBurn

LEMMA BurnBurnedTypes == ASSUME TypeOK, NEW c \in BurnCalls, BurnBurned(c) PROVE TypeOK'
<1>0. /\ burns[c].amount \in Nat /\ burns[c].block \in Nat
      /\ burns[c].utxos \in SUBSET DOMAIN utxos /\ CallerOf[c] \in Users
  BY PrincipalsAssumption DEF TypeOK, BurnTypes
<1>1. Grows /\ UNCHANGED <<chain, ledger>>
  BY SameGrows DEF BurnBurned
<1>2. StoreTypes'
  <2>1. tokens_burned' \in Nat /\ tokens_burned_count' \in Nat
    BY <1>0 DEF TypeOK, StoreTypes, BurnBurned
  <2>2. /\ DOMAIN collected_utxos' \subseteq DOMAIN utxos
        /\ collected_utxos' \in [DOMAIN collected_utxos' -> [block : Nat, height : Nat]]
    BY <1>0, MarkTypes DEF TypeOK, BurnBurned
  <2>3. /\ DOMAIN burning_utxos' \subseteq Nat
        /\ burning_utxos' \in [DOMAIN burning_utxos' ->
                                 [owner : Users, amount : Nat, failed : BOOLEAN]]
    BY <1>0 DEF TypeOK, StoreTypes, BurnBurned
  <2> QED BY <2>1, <2>2, <2>3 DEF TypeOK, StoreTypes, BurnBurned, chain
<1>3. BurnTypes'
  BY DEF TypeOK, BurnTypes, BurnBurned, chain
<1>4. OpenCalls'
  BY DEF TypeOK, BurnTypes, OpenCalls, BurnBurned
<1> QED BY <1>1, <1>2, <1>3, <1>4, WorldFrame, MintFrame, TimerFrame DEF TypeOK, BurnBurned

LEMMA RetryStartTypes ==
  ASSUME TypeOK, NEW c \in BurnCalls, NEW b \in DOMAIN burning_utxos, RetryStart(c, b)
  PROVE  TypeOK'
<1>1. /\ b \in Nat /\ burning_utxos[b].amount \in Nat
      /\ RetryUtxos(b) \in SUBSET DOMAIN utxos
  BY DEF TypeOK, StoreTypes, RetryUtxos
<1>2. BurnTypes'
  BY <1>1 DEF TypeOK, BurnTypes, RetryStart, IdleBurn, chain
<1>3. \A d \in BurnCalls : burns'[d].pc = "sent" => burns'[d].tx # 0
  BY DEF TypeOK, BurnTypes, OpenCalls, RetryStart, IdleBurn
<1> QED BY <1>2, <1>3, BurnCallTypes DEF RetryStart

LEMMA PayoutFailsTypes == ASSUME TypeOK, NEW c \in BurnCalls, PayoutFails(c) PROVE TypeOK'
<1>1. BurnTypes'
  BY DEF TypeOK, BurnTypes, PayoutFails, chain
<1>2. \A d \in BurnCalls : burns'[d].pc = "sent" => burns'[d].tx # 0
  BY DEF TypeOK, BurnTypes, OpenCalls, PayoutFails
<1> QED BY <1>1, <1>2, BurnCallTypes DEF PayoutFails

LEMMA SendTxTypes == ASSUME TypeOK, NEW c \in BurnCalls, SendTx(c) PROVE TypeOK'
<1>0. /\ burns[c].amount \in Nat /\ burns[c].block \in Nat
      /\ burns[c].utxos \in SUBSET DOMAIN utxos
  BY DEF TypeOK, BurnTypes
<1>1. ChangeValue(TotalValue(burns[c].utxos), burns[c].amount) \in Nat
  BY <1>0, ChangeNat DEF TypeOK
<1>2. network' \in Seq(Payouts) /\ Len(network') = Len(network) + 1
  BY <1>0, <1>1 DEF TypeOK, WorldTypes, Payouts, SendTx
<1>3. /\ Grows /\ Len(network) + 1 \in DOMAIN network'
      /\ Len(network) + 1 # 0
  BY <1>2 DEF Grows, TypeOK, WorldTypes, SendTx
<1>4. WorldTypes'
  <2>1. UNCHANGED <<utxos, tip, reorgs, ledger>>
    BY DEF SendTx
  <2>2. network' \in Seq(Payouts') /\ log' \in Seq(Entry')
    BY <1>2, <2>1 DEF TypeOK, WorldTypes, Payouts, Entry, ledger
  <2> QED BY <2>1, <2>2 DEF TypeOK, WorldTypes, ledger
<1>5. \/ burns' = [burns EXCEPT ![c] = [@ EXCEPT !.pc = "sent",
                                                 !.tx = Len(network) + 1]]
      \/ burns' = [burns EXCEPT ![c].pc = "unsent"]
  BY DEF SendTx
<1>6. BurnTypes' /\ \A d \in BurnCalls : burns'[d].pc = "sent" => burns'[d].tx # 0
  <2>1. CASE burns' = [burns EXCEPT ![c] = [@ EXCEPT !.pc = "sent",
                                                     !.tx = Len(network) + 1]]
    <3>1. BurnTypes'
      BY <1>3, <2>1 DEF TypeOK, BurnTypes, Grows
    <3> QED BY <1>3, <2>1, <3>1 DEF TypeOK, BurnTypes, OpenCalls
  <2>2. CASE burns' = [burns EXCEPT ![c].pc = "unsent"]
    BY <1>3, <2>2 DEF TypeOK, BurnTypes, OpenCalls, Grows
  <2> QED BY <1>5, <2>1, <2>2
<1>7. OpenCalls'
  BY <1>6 DEF TypeOK, OpenCalls, SendTx, stores
<1> QED BY <1>3, <1>4, <1>6, <1>7, StoreFrame, MintFrame, TimerFrame DEF TypeOK, SendTx

LEMMA BurnSentTypes == ASSUME TypeOK, NEW c \in BurnCalls, BurnSent(c) PROVE TypeOK'
<1>0. /\ burns[c].block \in Nat /\ burns[c].tx \in DOMAIN network
      /\ burns[c].utxos \in SUBSET DOMAIN utxos
  BY DEF TypeOK, BurnTypes, OpenCalls, BurnSent
<1>1. Grows /\ UNCHANGED <<chain, ledger>>
  BY SameGrows DEF BurnSent
<1>2. /\ DOMAIN burned_utxos' = DOMAIN burned_utxos \cup {burns[c].block}
      /\ burned_utxos' \in [DOMAIN burned_utxos' ->
           [utxos : SUBSET DOMAIN utxos, tx : DOMAIN network, height : Nat]]
  BY <1>0 DEF TypeOK, StoreTypes, BurnSent, WithPayout
<1>3. StoreTypes'
  <2>1. /\ DOMAIN collected_utxos' \subseteq DOMAIN utxos
        /\ collected_utxos' \in [DOMAIN collected_utxos' -> [block : Nat, height : Nat]]
    BY <1>0, MarkTypes DEF TypeOK, BurnSent
  <2>2. /\ DOMAIN burning_utxos' \subseteq Nat
        /\ burning_utxos' \in [DOMAIN burning_utxos' ->
                                 [owner : Users, amount : Nat, failed : BOOLEAN]]
    BY DEF TypeOK, StoreTypes, BurnSent
  <2>3. unconfirmed_burning_utxos' \in Seq(DOMAIN burned_utxos')
    <3>1. unconfirmed_burning_utxos \in Seq(DOMAIN burned_utxos')
      BY <1>2, SeqMonotonic DEF TypeOK, StoreTypes
    <3> QED BY <1>2, <3>1 DEF BurnSent
  <2>4. DOMAIN burned_utxos' \subseteq Nat
    BY <1>0, <1>2 DEF TypeOK, StoreTypes
  <2> QED BY <1>2, <2>1, <2>2, <2>3, <2>4 DEF TypeOK, StoreTypes, BurnSent, chain, tokens
<1>4. BurnTypes'
  BY DEF TypeOK, BurnTypes, BurnSent, IdleBurn, chain
<1>5. OpenCalls'
  BY <1>2 DEF TypeOK, BurnTypes, OpenCalls, BurnSent, IdleBurn
<1> QED BY <1>1, <1>3, <1>4, <1>5, WorldFrame, MintFrame, TimerFrame DEF TypeOK, BurnSent

LEMMA BurnUnsentTypes == ASSUME TypeOK, NEW c \in BurnCalls, BurnUnsent(c) PROVE TypeOK'
<1>1. Grows /\ UNCHANGED <<chain, ledger>>
  BY SameGrows DEF BurnUnsent
<1>2. StoreTypes'
  <2>1. /\ DOMAIN burning_utxos' \subseteq Nat
        /\ burning_utxos' \in [DOMAIN burning_utxos' ->
                                 [owner : Users, amount : Nat, failed : BOOLEAN]]
    BY DEF TypeOK, StoreTypes, BurnUnsent, WithError
  <2> QED BY <2>1 DEF TypeOK, StoreTypes, BurnUnsent, chain, tokens
<1>3. BurnTypes'
  BY DEF TypeOK, BurnTypes, BurnUnsent, IdleBurn, chain
<1>4. OpenCalls'
  BY DEF TypeOK, BurnTypes, OpenCalls, BurnUnsent, IdleBurn
<1> QED BY <1>1, <1>2, <1>3, <1>4, WorldFrame, MintFrame, TimerFrame DEF TypeOK, BurnUnsent

-----------------------------------------------------------------------------
(* finalize_burning and collect_and_clear_utxos *)

FinalTypes(f) ==
  /\ f \in [FinalizeCalls ->
       [pc : {"idle", "query", "status"}, block : Nat,
        bu : [utxos : SUBSET DOMAIN utxos, tx : {0} \cup DOMAIN network,
              height : Nat],
        status : Nat]]
  /\ \A c \in FinalizeCalls : f[c].pc # "idle" =>
       f[c].block \in DOMAIN burned_utxos /\ f[c].bu.tx # 0

\* Steps of a lookup, seen from the rest of the state.
LEMMA FinalCallTypes ==
  ASSUME TypeOK, FinalTypes(finals'), StoreTypes',
         DOMAIN burned_utxos \subseteq DOMAIN burned_utxos',
         UNCHANGED <<mints, burns, collects, chain, ledger>>
  PROVE  TypeOK'
<1>1. Grows /\ UNCHANGED <<chain, ledger>>
  BY SameGrows
<1>2. WorldTypes' /\ MintTypes' /\ BurnTypes'
  BY <1>1, WorldFrame, MintFrame, BurnFrame DEF TypeOK
<1>3. TimerTypes'
  BY DEF TypeOK, TimerTypes, FinalTypes, chain
<1>4. OpenCalls'
  BY DEF TypeOK, OpenCalls, FinalTypes
<1> QED BY <1>2, <1>3, <1>4 DEF TypeOK

LEMMA QueueTypes ==
  ASSUME TypeOK, NEW q, q \in Seq(DOMAIN burned_utxos),
         unconfirmed_burning_utxos' = q,
         UNCHANGED <<minted_utxos, collected_utxos, burning_utxos, burned_utxos,
                     tokens, chain>>
  PROVE  StoreTypes'
  BY DEF TypeOK, StoreTypes, tokens, chain

LEMMA FinalizeStartTypes ==
  ASSUME TypeOK, NEW c \in FinalizeCalls, FinalizeStart(c) PROVE TypeOK'
<1> DEFINE b == Head(unconfirmed_burning_utxos)
<1>1. b \in DOMAIN burned_utxos
      /\ Tail(unconfirmed_burning_utxos) \in Seq(DOMAIN burned_utxos)
  BY HeadTailProperties DEF TypeOK, StoreTypes, FinalizeStart
<1>2. StoreTypes'
  BY <1>1, QueueTypes DEF FinalizeStart
<1>3. finals' = [finals EXCEPT ![c] =
         [pc |-> "query", block |-> b, bu |-> burned_utxos[b], status |-> 0]]
  BY <1>1 DEF FinalizeStart
<1> HIDE DEF b
<1>4. /\ burned_utxos[b] \in [utxos : SUBSET DOMAIN utxos, tx : DOMAIN network,
                              height : Nat]
      /\ b \in Nat
  BY <1>1 DEF TypeOK, StoreTypes
<1>5. burned_utxos[b].tx # 0
  BY <1>4 DEF TypeOK, WorldTypes
<1>6. FinalTypes(finals')
  BY <1>1, <1>3, <1>4, <1>5 DEF TypeOK, TimerTypes, OpenCalls, FinalTypes
<1> QED BY <1>2, <1>6, FinalCallTypes DEF FinalizeStart

LEMMA TxStatusTypes == ASSUME TypeOK, NEW c \in FinalizeCalls, TxStatus(c) PROVE TypeOK'
<1>1. finals[c].bu.tx \in DOMAIN network
  BY DEF TypeOK, TimerTypes, OpenCalls, TxStatus
<1>2. network[finals[c].bu.tx].height \in Nat
  <2>1. network[finals[c].bu.tx] \in Payouts
    BY <1>1 DEF TypeOK, WorldTypes
  <2> QED BY <2>1 DEF Payouts
<1>3. FinalTypes(finals')
  BY <1>2 DEF TypeOK, TimerTypes, OpenCalls, FinalTypes, TxStatus
<1>4. StoreTypes' /\ burned_utxos' = burned_utxos
  BY SameGrows, StoreFrame DEF TypeOK, TxStatus, stores
<1> QED BY <1>3, <1>4, FinalCallTypes DEF TxStatus

LEMMA IdleFinalTypes ==
  ASSUME TypeOK, NEW c \in FinalizeCalls,
         finals' = [finals EXCEPT ![c] = IdleFinalize]
  PROVE  FinalTypes(finals')
  BY DEF TypeOK, TimerTypes, OpenCalls, FinalTypes, IdleFinalize, NoBurned

LEMMA TxStatusFailsTypes ==
  ASSUME TypeOK, NEW c \in FinalizeCalls, TxStatusFails(c) PROVE TypeOK'
<1>1. FinalTypes(finals')
  BY IdleFinalTypes DEF TxStatusFails
<1>2. StoreTypes' /\ burned_utxos' = burned_utxos
  BY SameGrows, StoreFrame DEF TypeOK, TxStatusFails, stores
<1> QED BY <1>1, <1>2, FinalCallTypes DEF TxStatusFails

LEMMA FinalizeMinedTypes ==
  ASSUME TypeOK, NEW c \in FinalizeCalls, FinalizeMined(c) PROVE TypeOK'
<1>0. /\ finals[c].block \in DOMAIN burned_utxos /\ finals[c].block \in Nat
      /\ finals[c].status \in Nat
      /\ finals[c].bu.utxos \in SUBSET DOMAIN utxos
      /\ AtHeight(finals[c].bu, finals[c].status) \in
           [utxos : SUBSET DOMAIN utxos, tx : DOMAIN network, height : Nat]
  BY DEF TypeOK, TimerTypes, OpenCalls, FinalizeMined, AtHeight
<1>1. FinalTypes(finals')
  BY IdleFinalTypes DEF FinalizeMined
<1>2. /\ DOMAIN burned_utxos' = DOMAIN burned_utxos
      /\ burned_utxos' \in [DOMAIN burned_utxos' ->
           [utxos : SUBSET DOMAIN utxos, tx : DOMAIN network, height : Nat]]
  BY <1>0 DEF TypeOK, StoreTypes, FinalizeMined
<1>3. /\ DOMAIN collected_utxos' \subseteq DOMAIN utxos
      /\ collected_utxos' \in [DOMAIN collected_utxos' -> [block : Nat, height : Nat]]
  BY <1>0, MarkTypes DEF TypeOK, FinalizeMined
<1>4. unconfirmed_burning_utxos' \in Seq(DOMAIN burned_utxos')
  BY <1>0, <1>2 DEF TypeOK, StoreTypes, FinalizeMined
<1>5. StoreTypes'
  BY <1>2, <1>3, <1>4 DEF TypeOK, StoreTypes, FinalizeMined, tokens, chain
<1> QED BY <1>1, <1>2, <1>5, FinalCallTypes DEF FinalizeMined

LEMMA FinalizeUnminedTypes ==
  ASSUME TypeOK, NEW c \in FinalizeCalls, FinalizeUnmined(c) PROVE TypeOK'
<1>0. finals[c].block \in DOMAIN burned_utxos
  BY DEF TypeOK, OpenCalls, FinalizeUnmined
<1>1. FinalTypes(finals')
  BY IdleFinalTypes DEF FinalizeUnmined
<1>2. Append(unconfirmed_burning_utxos, finals[c].block) \in Seq(DOMAIN burned_utxos)
  BY <1>0 DEF TypeOK, StoreTypes
<1>3. StoreTypes' /\ burned_utxos' = burned_utxos
  BY <1>2, QueueTypes DEF FinalizeUnmined
<1> QED BY <1>1, <1>3, FinalCallTypes DEF FinalizeUnmined

LEMMA FinalizeDroppedTypes ==
  ASSUME TypeOK, NEW c \in FinalizeCalls, FinalizeDropped(c) PROVE TypeOK'
<1>1. FinalTypes(finals')
  BY IdleFinalTypes DEF FinalizeDropped
<1>2. StoreTypes' /\ burned_utxos' = burned_utxos
  BY SameGrows, StoreFrame DEF TypeOK, FinalizeDropped, stores
<1> QED BY <1>1, <1>2, FinalCallTypes DEF FinalizeDropped

LEMMA CollectStartTypes ==
  ASSUME TypeOK, NEW c \in CollectCalls, CollectStart(c) PROVE TypeOK'
<1>0. ListUtxos(Minter) \in SUBSET DOMAIN utxos /\ ConfirmedHeight \in Nat
  BY ListTypes, ConfirmedNat DEF TypeOK
<1>1. Grows /\ UNCHANGED <<chain, ledger>>
  BY SameGrows DEF CollectStart
<1>2. TimerTypes'
  BY <1>0 DEF TypeOK, TimerTypes, CollectStart, chain
<1>3. OpenCalls'
  BY DEF TypeOK, OpenCalls, CollectStart, stores
<1> QED BY <1>1, <1>2, <1>3, WorldFrame, StoreFrame, MintFrame, BurnFrame
        DEF TypeOK, CollectStart

LEMMA CollectListedTypes ==
  ASSUME TypeOK, NEW c \in CollectCalls, CollectListed(c) PROVE TypeOK'
<1> DEFINE m == Collected(collects[c].listed)
<1>1. Grows /\ UNCHANGED <<chain, ledger>>
  BY SameGrows DEF CollectListed
<1>2. /\ DOMAIN m \subseteq DOMAIN utxos
      /\ m \in [DOMAIN m -> [block : Nat, height : Nat]]
  BY DEF TypeOK, StoreTypes, TimerTypes, Collected
<1>3. /\ DOMAIN collected_utxos' \subseteq DOMAIN utxos
      /\ collected_utxos' \in [DOMAIN collected_utxos' -> [block : Nat, height : Nat]]
  <2>1. collected_utxos' = [u \in Retained(m, collects[c].confirmed) |-> m[u]]
    BY DEF CollectListed
  <2>2. Retained(m, collects[c].confirmed) \subseteq DOMAIN m
    BY DEF Retained
  <2> HIDE DEF m
  <2> QED BY <1>2, <2>1, <2>2
<1>4. StoreTypes'
  BY <1>3 DEF TypeOK, StoreTypes, CollectListed, tokens, chain
<1>5. TimerTypes'
  BY DEF TypeOK, TimerTypes, CollectListed, IdleCollect, chain
<1>6. OpenCalls'
  BY DEF TypeOK, OpenCalls, CollectListed
<1> QED BY <1>1, <1>4, <1>5, <1>6, WorldFrame, MintFrame, BurnFrame
        DEF TypeOK, CollectListed

-----------------------------------------------------------------------------
(* Dogecoin *)

\* What the canister and the open calls hold keeps its type when outputs and
\* payouts are added.
LEMMA WorldGrows ==
  ASSUME TypeOK, Grows, WorldTypes', UNCHANGED <<stores, tokens, calls>>
  PROVE  TypeOK'
  BY StoreFrame, MintFrame, BurnFrame, TimerFrame, OpenFrame
     DEF TypeOK, stores, calls

\* Payouts keep their inputs, burns and changes, and get other heights.
LEMMA Reheighted ==
  ASSUME WorldTypes, NEW h \in [DOMAIN network -> Nat],
         NEW n, n = [t \in DOMAIN network |-> [network[t] EXCEPT !.height = h[t]]]
  PROVE  n \in Seq(Payouts) /\ DOMAIN n = DOMAIN network
<1>1. \A t \in DOMAIN network : network[t] \in Payouts
  BY DEF WorldTypes
<1>2. \A t \in DOMAIN network : [network[t] EXCEPT !.height = h[t]] \in Payouts
  BY <1>1 DEF Payouts
<1>3. n \in [1..Len(network) -> Payouts] /\ Len(network) \in Nat
  BY <1>2 DEF WorldTypes
<1> QED BY <1>3 DEF WorldTypes

LEMMA DepositTypes ==
  ASSUME TypeOK, NEW p \in Users, NEW v \in Values, Deposit(p, v) PROVE TypeOK'
<1>1. [owner |-> p, value |-> v] \in Outpoints
  BY NumbersAssumption DEF Outpoints
<1>2. utxos' \in Seq(Outpoints) /\ DOMAIN utxos \subseteq DOMAIN utxos'
  BY <1>1 DEF TypeOK, WorldTypes, Deposit
<1>3. Grows
  BY <1>2 DEF Grows, Deposit
<1>4. network' \in Seq(Payouts')
  <2>1. Payouts \subseteq Payouts'
    BY <1>2 DEF Payouts
  <2>2. network \in Seq(Payouts')
    BY <2>1, SeqMonotonic DEF TypeOK, WorldTypes
  <2> QED BY <2>2 DEF Deposit
<1>6. log' \in Seq(Entry')
  <2>1. Entry \subseteq Entry'
    BY <1>2 DEF Entry
  <2>2. log \in Seq(Entry')
    BY <2>1, SeqMonotonic DEF TypeOK, WorldTypes
  <2> QED BY <2>2 DEF Deposit, ledger
<1>5. WorldTypes'
  BY <1>2, <1>4, <1>6 DEF TypeOK, WorldTypes, Deposit, ledger, Outpoints
<1> QED BY <1>3, <1>5, WorldGrows DEF Deposit

\* The change outputs of a block, in whatever order.
LEMMA ChangeTypes ==
  ASSUME WorldTypes, NEW order \in SetToSeqs(Confirming)
  PROVE  ChangeOutputs(order) \in Seq(Outpoints)
<1>1. Cardinality(Confirming) \in Nat
  <2>1. DOMAIN network = 1..Len(network) /\ Len(network) \in Nat
    BY DEF WorldTypes
  <2>2. IsFiniteSet(1..Len(network))
    BY <2>1, FS_Interval
  <2> QED BY <2>1, <2>2, FS_Subset, FS_CardinalityType DEF Confirming
<1>2. order \in [1..Cardinality(Confirming) -> Confirming]
  BY DEF SetToSeqs
<1>3. \A t \in Confirming : network[t].change \in Nat \ {0}
  <2>1. \A t \in DOMAIN network : network[t] \in Payouts
    BY DEF WorldTypes
  <2> QED BY <2>1 DEF Payouts, Confirming
<1>4. ChangeOutputs(order) \in [1..Cardinality(Confirming) -> Outpoints]
  BY <1>2, <1>3 DEF ChangeOutputs, Outpoints
<1> QED BY <1>1, <1>4

LEMMA NewBlockTypes == ASSUME TypeOK, NewBlock PROVE TypeOK'
<1>1. tip' \in Nat
  BY DEF TypeOK, WorldTypes, NewBlock
<1>2. network' \in Seq(Payouts) /\ DOMAIN network' = DOMAIN network
  <2>1. PICK M \in SUBSET {t \in DOMAIN network : network[t].height = 0} :
          network' = [t \in DOMAIN network |->
            IF t \in M THEN [network[t] EXCEPT !.height = tip + 1] ELSE network[t]]
    BY DEF NewBlock
  <2> DEFINE h == [t \in DOMAIN network |-> IF t \in M THEN tip + 1
                                                       ELSE network[t].height]
  <2>2. \A t \in DOMAIN network : network[t] \in Payouts
    BY DEF TypeOK, WorldTypes
  <2>3. h \in [DOMAIN network -> Nat]
    BY <2>2 DEF TypeOK, WorldTypes, Payouts
  <2>4. network' = [t \in DOMAIN network |-> [network[t] EXCEPT !.height = h[t]]]
    BY <2>1, <2>2 DEF Payouts
  <2> HIDE DEF h
  <2> QED BY <2>3, <2>4, Reheighted DEF TypeOK
<1>3. utxos' \in Seq(Outpoints) /\ DOMAIN utxos \subseteq DOMAIN utxos'
  <2>1. PICK order \in SetToSeqs(Confirming) : utxos' = utxos \o ChangeOutputs(order)
    BY DEF NewBlock
  <2>2. ChangeOutputs(order) \in Seq(Outpoints)
    BY <2>1, ChangeTypes DEF TypeOK
  <2> HIDE DEF Outpoints
  <2> QED BY <2>1, <2>2, ConcatProperties DEF TypeOK, WorldTypes
<1>4. Grows
  BY <1>2, <1>3 DEF Grows
<1>5. network' \in Seq(Payouts')
  <2>1. Payouts \subseteq Payouts'
    BY <1>3 DEF Payouts
  <2> QED BY <1>2, <2>1, SeqMonotonic
<1>7. log' \in Seq(Entry')
  <2>1. Entry \subseteq Entry'
    BY <1>3 DEF Entry
  <2>2. log \in Seq(Entry')
    BY <2>1, SeqMonotonic DEF TypeOK, WorldTypes
  <2> QED BY <2>2 DEF NewBlock, ledger
<1>6. WorldTypes'
  BY <1>1, <1>3, <1>5, <1>7 DEF TypeOK, WorldTypes, NewBlock, ledger, Outpoints
<1> QED BY <1>4, <1>6, WorldGrows DEF NewBlock

LEMMA ReorgTypes == ASSUME TypeOK, Reorg PROVE TypeOK'
<1>1. PICK k \in (ConfirmedHeight + 1)..tip :
        \E g \in [{t \in DOMAIN network : network[t].height >= k} -> {0} \cup k..tip] :
          network' = [t \in DOMAIN network |->
            IF t \in {s \in DOMAIN network : network[s].height >= k}
            THEN [network[t] EXCEPT !.height = g[t]] ELSE network[t]]
  BY DEF Reorg
<1>2. PICK g \in [{t \in DOMAIN network : network[t].height >= k} -> {0} \cup k..tip] :
        network' = [t \in DOMAIN network |->
          IF t \in {s \in DOMAIN network : network[s].height >= k}
          THEN [network[t] EXCEPT !.height = g[t]] ELSE network[t]]
  BY <1>1
<1> DEFINE h == [t \in DOMAIN network |-> IF network[t].height >= k
                                          THEN g[t] ELSE network[t].height]
<1>3. \A t \in DOMAIN network : network[t] \in Payouts
  BY DEF TypeOK, WorldTypes
<1>4. ({0} \cup k..tip) \subseteq Nat
  BY ConfirmedNat DEF TypeOK, WorldTypes
<1>5. h \in [DOMAIN network -> Nat]
  BY <1>3, <1>4 DEF Payouts
<1>6. network' = [t \in DOMAIN network |-> [network[t] EXCEPT !.height = h[t]]]
  BY <1>2, <1>3 DEF Payouts
<1>7. network' \in Seq(Payouts) /\ DOMAIN network' = DOMAIN network
  <2> HIDE DEF h
  <2> QED BY <1>5, <1>6, Reheighted DEF TypeOK
<1>8. Grows
  BY <1>7 DEF Grows, Reorg
<1>9. WorldTypes'
  <2>1. UNCHANGED <<utxos, tip, ledger>> /\ reorgs' \in Nat
    BY DEF TypeOK, WorldTypes, Reorg
  <2>2. network' \in Seq(Payouts') /\ log' \in Seq(Entry')
    BY <1>7, <2>1 DEF TypeOK, WorldTypes, Payouts, Entry, ledger
  <2> QED BY <2>1, <2>2 DEF TypeOK, WorldTypes, ledger
<1> QED BY <1>8, <1>9, WorldGrows DEF Reorg

-----------------------------------------------------------------------------

LEMMA InitTypes == Init => TypeOK
<1> SUFFICES ASSUME Init PROVE TypeOK
  OBVIOUS
<1> USE DEF Init, InitCanister, InitWorld
<1>1. WorldTypes
  BY NumbersAssumption DEF WorldTypes
<1>2. StoreTypes
  BY DEF StoreTypes
<1>3. MintTypes /\ BurnTypes /\ TimerTypes /\ OpenCalls
  BY DEF MintTypes, BurnTypes, TimerTypes, OpenCalls, IdleMint, IdleBurn,
         IdleFinalize, IdleCollect, NoBurned
<1> QED BY <1>1, <1>2, <1>3 DEF TypeOK

LEMMA NextTypes == TypeOK /\ [Next]_vars => TypeOK'
<1> SUFFICES ASSUME TypeOK, [Next]_vars PROVE TypeOK'
  OBVIOUS
<1>1. ASSUME NEW c \in MintCalls, MintStart(c) \/ MintAnswers(c) \/ MintSteps(c)
      PROVE  TypeOK'
  BY <1>1, MintStartTypes, LedgerMintTypes, LedgerRefusesMintTypes, MintListedTypes,
     MintMintedTypes, MintRefusedTypes DEF MintAnswers, MintSteps
<1>2. ASSUME NEW c \in BurnCalls, NEW amount \in Amounts, BurnStart(c, amount)
      PROVE  TypeOK'
  BY <1>2, BurnStartTypes
<1>3. ASSUME NEW c \in BurnCalls, NEW b \in DOMAIN burning_utxos, RetryStart(c, b)
      PROVE  TypeOK'
  BY <1>3, RetryStartTypes
<1>4. ASSUME NEW c \in BurnCalls, BurnAnswers(c) \/ BurnSteps(c)
      PROVE  TypeOK'
  BY <1>4, LedgerBurnTypes, LedgerRefusesBurnTypes, PayoutFailsTypes, SendTxTypes,
     BurnBalanceTypes, BurnBurnedTypes, BurnSentTypes, BurnUnsentTypes
     DEF BurnAnswers, BurnSteps
<1>5. ASSUME NEW c \in FinalizeCalls, FinalizeStart(c) \/ TxAnswers(c) \/ FinalizeSteps(c)
      PROVE  TypeOK'
  BY <1>5, FinalizeStartTypes, TxStatusTypes, TxStatusFailsTypes, FinalizeMinedTypes,
     FinalizeUnminedTypes, FinalizeDroppedTypes DEF TxAnswers, FinalizeSteps
<1>6. ASSUME NEW c \in CollectCalls, CollectStart(c) \/ CollectListed(c)
      PROVE  TypeOK'
  BY <1>6, CollectStartTypes, CollectListedTypes
<1>7. CASE (\E p \in Users, v \in Values : Deposit(p, v)) \/ NewBlock \/ Reorg
  BY <1>7, DepositTypes, NewBlockTypes, ReorgTypes
<1>8. CASE UNCHANGED vars
  <2>1. Grows /\ UNCHANGED <<stores, tokens, calls, chain, ledger>>
    BY <1>8, SameGrows DEF vars
  <2> QED BY <2>1, WorldFrame, WorldGrows DEF TypeOK
<1> QED BY <1>1, <1>2, <1>3, <1>4, <1>5, <1>6, <1>7, <1>8 DEF Next

\* The state keeps its shape: queued blocks and open lookups have their
\* records, and every record its payout.
THEOREM TypeCorrect == Spec => []TypeOK
  BY InitTypes, NextTypes, PTL DEF Spec

-----------------------------------------------------------------------------
(* The inductive invariants *)

\* Nobody has tokens before the ledger's first block, so a burn is never
\* block 0, which collected_utxos keeps for free UTXOs; and a burn is asked
\* for with UTXOs that cover a positive amount.
Funded ==
  /\ log = << >> => \A p \in Users : balances[p] = 0
  /\ \A c \in BurnCalls :
       /\ burns[c].pc \in {"balance", "burn"} => burns[c].amount > 0
       /\ burns[c].pc \in {"burn", "burned"} => burns[c].utxos # {}

\* Block indexes of burns that the canister or the network has heard of.
Used == DOMAIN burning_utxos \cup DOMAIN burned_utxos
          \cup {network[t].block : t \in DOMAIN network}
          \cup ({collected_utxos[u].block : u \in DOMAIN collected_utxos} \ {0})
          \cup {burns[c].block : c \in {d \in BurnCalls : burns[d].pc \in {"sign", "sent"}}}

\* A block index that is on its way to its call is used by nobody else.
Fresh ==
  /\ Used \subseteq 1..(Len(log) - 1)
  /\ \A c \in BurnCalls : burns[c].pc = "burned" =>
       /\ burns[c].block \in 1..(Len(log) - 1)
       /\ burns[c].block \notin Used
       /\ \A d \in BurnCalls : burns[d].pc = "burned" /\ burns[d].block = burns[c].block
            => c = d

\* UTXOs that no payout is known to spend; a retry of burn b takes those of
\* block b.
Unsent == {u \in DOMAIN collected_utxos : collected_utxos[u].height = 0}

\* Whoever pays a burn, or has paid it, claims all the UTXOs a retry would
\* take: so any two that pay the same burn spend a common one.
Claims ==
  /\ \A c \in BurnCalls : burns[c].pc = "sign" =>
       /\ \A u \in Unsent : collected_utxos[u].block = burns[c].block
            => u \in burns[c].utxos
       /\ \A d \in BurnCalls : burns[d].pc = "sign" /\ burns[d].block = burns[c].block
            => burns[c].utxos \cap burns[d].utxos # {}
       /\ \A t \in DOMAIN network : network[t].block = burns[c].block
            => burns[c].utxos \cap network[t].ins # {}
  /\ \A t \in DOMAIN network : \A u \in Unsent :
       collected_utxos[u].block = network[t].block => u \in network[t].ins

PayoutInv == Funded /\ Fresh /\ Claims /\ PayoutOnce

\* An open minting loop holds what its principal has been minted for, and
\* has none of it left to mint; what the ledger has minted is either there
\* or on its way.
Minting == {"mint", "minted", "refused"}
LoopKnows ==
  \A c \in MintCalls :
    /\ mints[c].pc # "idle" =>
         \A u \in mints[c].todo : utxos[u].owner = CallerOf[c]
    /\ mints[c].pc \in Minting =>
         /\ mints[c].cur \in DOMAIN utxos /\ utxos[mints[c].cur].owner = CallerOf[c]
         /\ mints[c].snap = minted_utxos[CallerOf[c]]
         /\ mints[c].cur \notin mints[c].snap \cup mints[c].todo
         /\ mints[c].todo \cap mints[c].snap = {}
MintsKnown ==
  \A i \in Entries("mint") :
    /\ log[i].utxo \in DOMAIN utxos /\ utxos[log[i].utxo].owner = log[i].user
    /\ \/ log[i].utxo \in minted_utxos[log[i].user]
       \/ \E c \in MintCalls : mints[c].pc = "minted" /\ mints[c].cur = log[i].utxo
MintInv == LoopKnows /\ MintsKnown /\ NoDoubleMint

-----------------------------------------------------------------------------
(* NoBurnForgotten *)

Records == DOMAIN burning_utxos \cup DOMAIN burned_utxos

\* A step that burns nothing, drops no record, and ends no call without one.
LEMMA BurnKept ==
  ASSUME NoBurnForgotten, log' = log, Records \subseteq Records',
         \A c \in BurnCalls : burns[c].pc = "burned" =>
           burns'[c] = burns[c] \/ burns[c].block \in Records'
  PROVE  NoBurnForgotten'
  BY DEF NoBurnForgotten, BurnBlocks, Entries, Records

\* Ledger entries of an operation, after one more entry.
LEMMA EntriesAppend ==
  ASSUME WorldTypes, NEW e, log' = Append(log, e), NEW op
  PROVE  /\ Entries(op)' = Entries(op) \cup
              (IF e.op = op THEN {Len(log) + 1} ELSE {})
         /\ \A i \in Entries(op) : log'[i] = log[i]
         /\ log'[Len(log) + 1] = e
         /\ Len(log') = Len(log) + 1 /\ Len(log) \in Nat
         /\ Len(log) + 1 \notin Entries(op)
<1>1. /\ log \in Seq(Entry) /\ Len(log) \in Nat /\ DOMAIN log = 1..Len(log)
  BY DEF WorldTypes
<1>2. /\ Len(log') = Len(log) + 1 /\ DOMAIN log' = 1..(Len(log) + 1)
      /\ \A i \in 1..Len(log) : log'[i] = log[i]
      /\ log'[Len(log) + 1] = e
  BY <1>1
<1>3. Entries(op)' = {i \in DOMAIN log' : log'[i].op = op}
  BY DEF Entries
<1>4. Entries(op) = {i \in 1..Len(log) : log[i].op = op}
  BY <1>1 DEF Entries
<1> QED BY <1>1, <1>2, <1>3, <1>4

LEMMA NextRemembers ==
  ASSUME TypeOK, NoBurnForgotten, [Next]_vars PROVE NoBurnForgotten'
<1>0. burns \in [BurnCalls -> Range(burns)]
  BY DEF TypeOK, BurnTypes, Range
<1>a. CASE UNCHANGED <<burning_utxos, burned_utxos, burns, log>>
  BY <1>a, BurnKept DEF Records
<1>1. ASSUME NEW c \in MintCalls, LedgerMint(c) PROVE NoBurnForgotten'
  <2> DEFINE e == [op |-> "mint", user |-> CallerOf[c],
                   amount |-> utxos[mints[c].cur].value, utxo |-> mints[c].cur]
  <2>3. log' = Append(log, e) /\ e.op # "burn"
    BY <1>1 DEF LedgerMint
  <2> HIDE DEF e
  <2>1. Entries("burn")' = Entries("burn")
    <3>1. Entries("burn")' = Entries("burn") \cup
                               (IF e.op = "burn" THEN {Len(log) + 1} ELSE {})
      BY <2>3, EntriesAppend DEF TypeOK
    <3> QED BY <2>3, <3>1
  <2>2. UNCHANGED <<burning_utxos, burned_utxos, burns>>
    BY <1>1 DEF LedgerMint, stores
  <2> QED BY <2>1, <2>2 DEF NoBurnForgotten, BurnBlocks
<1>2. ASSUME NEW c \in MintCalls, MintStart(c) \/ LedgerRefusesMint(c) \/ MintSteps(c)
      PROVE  NoBurnForgotten'
  BY <1>2, <1>a DEF MintStart, LedgerRefusesMint, MintSteps, MintListed, MintMinted,
     MintRefused, stores, ledger
<1>3. ASSUME NEW c \in BurnCalls,
             \/ \E amount \in Amounts : BurnStart(c, amount)
             \/ \E b \in DOMAIN burning_utxos : RetryStart(c, b)
             \/ BurnBalance(c) \/ LedgerRefusesBurn(c) \/ PayoutFails(c) \/ SendTx(c)
      PROVE  NoBurnForgotten'
  <2>1. UNCHANGED <<burning_utxos, burned_utxos, log>>
    BY <1>3 DEF BurnStart, RetryStart, BurnBalance, LedgerRefusesBurn, PayoutFails,
       SendTx, stores, ledger
  <2>2. burns[c].pc # "burned"
    BY <1>3 DEF BurnStart, RetryStart, BurnBalance, LedgerRefusesBurn, PayoutFails, SendTx
  <2>3. \A d \in BurnCalls : d # c => burns'[d] = burns[d]
    BY <1>0, <1>3 DEF BurnStart, RetryStart, BurnBalance, LedgerRefusesBurn, PayoutFails,
       SendTx
  <2> QED BY <2>1, <2>2, <2>3, BurnKept DEF Records
<1>4. ASSUME NEW c \in BurnCalls, LedgerBurn(c) PROVE NoBurnForgotten'
  <2>1. Entries("burn")' = Entries("burn") \cup {Len(log) + 1} /\ Len(log) \in Nat
    BY <1>4, EntriesAppend DEF TypeOK, LedgerBurn
  <2>2. BurnBlocks' = BurnBlocks \cup {Len(log)}
    <3> SUFFICES ASSUME NEW b
                 PROVE  b \in BurnBlocks' <=> b \in BurnBlocks \/ b = Len(log)
      OBVIOUS
    <3>1. b \in BurnBlocks' <=> \E i \in Entries("burn")' : b = i - 1
      BY DEF BurnBlocks
    <3>2. b \in BurnBlocks <=> \E i \in Entries("burn") : b = i - 1
      BY DEF BurnBlocks
    <3> QED BY <2>1, <3>1, <3>2
  <2>3. UNCHANGED <<burning_utxos, burned_utxos>>
    BY <1>4 DEF LedgerBurn, stores
  <2>4. burns'[c].pc = "burned" /\ burns'[c].block = Len(log)
    BY <1>4 DEF TypeOK, BurnTypes, LedgerBurn
  <2>5. \A d \in BurnCalls : burns[d].pc = "burned" => burns'[d] = burns[d]
    BY <1>4 DEF TypeOK, BurnTypes, LedgerBurn
  <2> QED BY <2>2, <2>3, <2>4, <2>5 DEF NoBurnForgotten
<1>5. ASSUME NEW c \in BurnCalls, BurnBurned(c) \/ BurnSent(c) \/ BurnUnsent(c)
      PROVE  NoBurnForgotten'
  <2>1. Records \subseteq Records' /\ log' = log
    BY <1>5 DEF BurnBurned, BurnSent, BurnUnsent, WithPayout, WithError, Records, ledger
  <2>2. burns[c].pc = "burned" => burns[c].block \in Records'
    BY <1>5 DEF BurnBurned, BurnSent, BurnUnsent, Records
  <2>3. \A d \in BurnCalls : d # c => burns'[d] = burns[d]
    BY <1>0, <1>5 DEF BurnBurned, BurnSent, BurnUnsent
  <2> QED BY <2>1, <2>2, <2>3, BurnKept
<1>6. ASSUME NEW c \in FinalizeCalls, FinalizeMined(c) PROVE NoBurnForgotten'
  BY <1>6, BurnKept DEF FinalizeMined, Records, ledger
<1>7. ASSUME NEW c \in FinalizeCalls,
             \/ FinalizeStart(c) \/ TxAnswers(c) \/ FinalizeUnmined(c) \/ FinalizeDropped(c)
      PROVE  NoBurnForgotten'
  BY <1>7, <1>a DEF FinalizeStart, TxAnswers, TxStatus, TxStatusFails, FinalizeUnmined,
     FinalizeDropped, stores, ledger
<1>8. ASSUME NEW c \in CollectCalls, CollectStart(c) \/ CollectListed(c)
      PROVE  NoBurnForgotten'
  BY <1>8, <1>a DEF CollectStart, CollectListed, stores, ledger
<1>9. CASE (\E p \in Users, v \in Values : Deposit(p, v)) \/ NewBlock \/ Reorg
            \/ UNCHANGED vars
  BY <1>9, <1>a DEF Deposit, NewBlock, Reorg, vars, stores, calls, ledger
<1> QED BY <1>1, <1>2, <1>3, <1>4, <1>5, <1>6, <1>7, <1>8, <1>9
        DEF Next, MintAnswers, MintSteps, BurnAnswers, BurnSteps, FinalizeSteps

\* A burn the ledger executed stays on its way to the canister, waiting for
\* its payout, or paid.
THEOREM BurnsRemembered == Spec => []NoBurnForgotten
<1>1. Init => NoBurnForgotten
  BY DEF Init, InitWorld, NoBurnForgotten, BurnBlocks, Entries
<1>2. TypeOK /\ NoBurnForgotten /\ [Next]_vars => NoBurnForgotten'
  BY NextRemembers
<1> QED BY <1>1, <1>2, TypeCorrect, PTL DEF Spec

-----------------------------------------------------------------------------
(* PayoutOnce *)

\* A step after which nobody uses another block index, no call starts to pay,
\* and no retry would take more than before.
Quiet ==
  /\ Used' \subseteq Used
  /\ Len(log) \in Nat /\ Len(log') \in Nat /\ Len(log) <= Len(log')
  /\ \A c \in BurnCalls : burns'[c].pc \in {"burned", "sign"} => burns'[c] = burns[c]
  /\ \A u \in Unsent' : collected_utxos'[u].block \in Used =>
       u \in Unsent /\ collected_utxos[u].block = collected_utxos'[u].block
  /\ DOMAIN network' = DOMAIN network
  /\ \A t \in DOMAIN network : /\ network'[t].block = network[t].block
                               /\ network'[t].ins = network[t].ins

LEMMA UsedParts ==
  /\ \A c \in BurnCalls : burns[c].pc \in {"sign", "sent"} => burns[c].block \in Used
  /\ \A t \in DOMAIN network : network[t].block \in Used
  /\ \A u \in DOMAIN collected_utxos :
       collected_utxos[u].block # 0 => collected_utxos[u].block \in Used
  /\ DOMAIN burning_utxos \subseteq Used /\ DOMAIN burned_utxos \subseteq Used
  BY DEF Used

LEMMA QuietFresh == ASSUME Fresh, Quiet PROVE Fresh'
<1>1. 1..(Len(log) - 1) \subseteq 1..(Len(log') - 1)
  BY DEF Quiet
<1>2. Used' \subseteq 1..(Len(log') - 1)
  BY <1>1 DEF Fresh, Quiet
<1>3. ASSUME NEW c \in BurnCalls, burns'[c].pc = "burned"
      PROVE  /\ burns'[c].block \in 1..(Len(log') - 1)
             /\ burns'[c].block \notin Used'
             /\ \A d \in BurnCalls :
                  burns'[d].pc = "burned" /\ burns'[d].block = burns'[c].block => c = d
  BY <1>1, <1>3 DEF Fresh, Quiet
<1> QED BY <1>2, <1>3 DEF Fresh

LEMMA QuietClaims == ASSUME Claims, Quiet PROVE Claims'
<1>1. ASSUME NEW c \in BurnCalls, burns'[c].pc = "sign"
      PROVE  /\ \A u \in Unsent' : collected_utxos'[u].block = burns'[c].block
                  => u \in burns'[c].utxos
             /\ \A d \in BurnCalls : burns'[d].pc = "sign" /\ burns'[d].block = burns'[c].block
                  => burns'[c].utxos \cap burns'[d].utxos # {}
             /\ \A t \in DOMAIN network' : network'[t].block = burns'[c].block
                  => burns'[c].utxos \cap network'[t].ins # {}
  <2>1. burns'[c] = burns[c] /\ burns[c].block \in Used
    BY <1>1, UsedParts DEF Quiet
  <2>2. \A d \in BurnCalls : burns'[d].pc = "sign" => burns'[d] = burns[d]
    BY DEF Quiet
  <2> QED BY <1>1, <2>1, <2>2 DEF Claims, Quiet
<1>2. ASSUME NEW t \in DOMAIN network', NEW u \in Unsent',
             collected_utxos'[u].block = network'[t].block
      PROVE  u \in network'[t].ins
  <2>1. network[t].block \in Used
    BY UsedParts DEF Quiet
  <2> QED BY <1>2, <2>1 DEF Claims, Quiet
<1> QED BY <1>1, <1>2 DEF Claims

LEMMA QuietPayout ==
  ASSUME PayoutInv, Quiet, Funded' PROVE PayoutInv'
<1>1. PayoutOnce'
  BY DEF PayoutInv, PayoutOnce, Quiet
<1> QED BY <1>1, QuietFresh, QuietClaims DEF PayoutInv

\* Used stays within its old value when each of its parts does.
LEMMA UsedWithin ==
  ASSUME DOMAIN burning_utxos' \subseteq Used, DOMAIN burned_utxos' \subseteq Used,
         \A t \in DOMAIN network' : network'[t].block \in Used,
         \A u \in DOMAIN collected_utxos' : collected_utxos'[u].block \in Used \cup {0},
         \A c \in BurnCalls : burns'[c].pc \in {"sign", "sent"} => burns'[c].block \in Used
  PROVE  Used' \subseteq Used
  BY DEF Used

\* A payout step that leaves the stores and the network alone.
LEMMA QuietCalls ==
  ASSUME TypeOK, UNCHANGED <<stores, network, log>>,
         \A c \in BurnCalls : burns'[c].pc \in {"burned", "sign"} => burns'[c] = burns[c],
         \A c \in BurnCalls : burns'[c].pc = "sent" => burns'[c] = burns[c]
  PROVE  Quiet
<1>1. Used' \subseteq Used
  BY UsedParts, UsedWithin DEF stores
<1>2. Len(log) \in Nat /\ log' = log
  BY DEF TypeOK, WorldTypes
<1> QED BY <1>1, <1>2 DEF Quiet, Unsent, stores

\* Marking UTXOs as free, or as sent for a known burn, frees none for a retry.
LEMMA MarkQuiet ==
  ASSUME Fresh, NEW S, NEW b, NEW h, h # 0 \/ b = 0, b \in Used \cup {0},
         collected_utxos' = MarkUtxos(S, b, h)
  PROVE  /\ \A u \in Unsent' : collected_utxos'[u].block \in Used =>
              u \in Unsent /\ collected_utxos[u].block = collected_utxos'[u].block
         /\ \A u \in DOMAIN collected_utxos' : collected_utxos'[u].block \in Used \cup {0}
<1>1. 0 \notin Used
  BY DEF Fresh
<1>2. \A u \in DOMAIN collected_utxos' :
        \/ collected_utxos'[u] = [block |-> b, height |-> h]
        \/ u \in DOMAIN collected_utxos /\ collected_utxos'[u] = collected_utxos[u]
  BY DEF MarkUtxos
<1> QED BY <1>1, <1>2, UsedParts DEF Unsent

LEMMA FundedFrame ==
  ASSUME Funded, UNCHANGED <<balances, log, burns>> PROVE Funded'
  BY DEF Funded

\* Steps of a minting loop.
LEMMA MintPayout ==
  ASSUME TypeOK, PayoutInv, NEW c \in MintCalls,
         MintStart(c) \/ MintAnswers(c) \/ MintSteps(c)
  PROVE  PayoutInv'
<1>1. ASSUME MintStart(c) \/ LedgerRefusesMint(c) \/ MintListed(c) \/ MintRefused(c)
      PROVE  PayoutInv'
  <2>1. UNCHANGED <<stores, network, log, balances, burns>>
    BY <1>1 DEF MintStart, LedgerRefusesMint, MintListed, MintRefused, chain, ledger
  <2> QED BY <2>1, QuietCalls, FundedFrame, QuietPayout DEF PayoutInv
<1>2. CASE LedgerMint(c)
  <2>1. /\ UNCHANGED <<stores, network, burns>>
        /\ Len(log') = Len(log) + 1 /\ Len(log) \in Nat /\ log' # << >>
    <3>1. log' # << >>
      BY <1>2 DEF LedgerMint, TypeOK, WorldTypes
    <3> QED BY <1>2, <3>1, EntriesAppend DEF LedgerMint, TypeOK, chain
  <2>2. Used' \subseteq Used
    BY <2>1, UsedParts, UsedWithin DEF stores
  <2>3. Quiet
    BY <2>1, <2>2 DEF Quiet, Unsent, stores
  <2>4. Funded'
    BY <2>1 DEF PayoutInv, Funded
  <2> QED BY <2>3, <2>4, QuietPayout
<1>3. CASE MintMinted(c)
  <2>1. UNCHANGED <<burning_utxos, burned_utxos, network, log, balances, burns>>
    BY <1>3 DEF MintMinted, chain, ledger
  <2>2. /\ \A u \in Unsent' : collected_utxos'[u].block \in Used =>
             u \in Unsent /\ collected_utxos[u].block = collected_utxos'[u].block
        /\ \A u \in DOMAIN collected_utxos' : collected_utxos'[u].block \in Used \cup {0}
    BY <1>3, MarkQuiet DEF MintMinted, PayoutInv
  <2>3. Used' \subseteq Used
    BY <2>1, <2>2, UsedParts, UsedWithin
  <2>4. Len(log) \in Nat
    BY DEF TypeOK, WorldTypes
  <2>5. Quiet
    BY <2>1, <2>2, <2>3, <2>4 DEF Quiet
  <2> QED BY <2>1, <2>5, FundedFrame, QuietPayout DEF PayoutInv
<1> QED BY <1>1, <1>2, <1>3 DEF MintAnswers, MintSteps

\* Steps of the timers and of the Dogecoin network.
LEMMA TimerPayout ==
  ASSUME TypeOK, PayoutInv,
         \/ \E c \in FinalizeCalls : FinalizeStart(c) \/ TxAnswers(c) \/ FinalizeSteps(c)
         \/ \E c \in CollectCalls : CollectStart(c) \/ CollectListed(c)
         \/ \E p \in Users, v \in Values : Deposit(p, v)
  PROVE  PayoutInv'
<1>0. Len(log) \in Nat
  BY DEF TypeOK, WorldTypes
<1>1. UNCHANGED <<network, log, balances, burns, burning_utxos>>
  BY DEF FinalizeStart, TxAnswers, TxStatus, TxStatusFails, FinalizeSteps, FinalizeMined,
     FinalizeUnmined, FinalizeDropped, CollectStart, CollectListed, Deposit, stores, chain,
     calls, ledger
<1>2. DOMAIN burned_utxos' = DOMAIN burned_utxos
  BY DEF FinalizeStart, TxAnswers, TxStatus, TxStatusFails, FinalizeSteps, FinalizeMined,
     FinalizeUnmined, FinalizeDropped, CollectStart, CollectListed, Deposit, stores
<1>3. /\ \A u \in Unsent' : collected_utxos'[u].block \in Used =>
           u \in Unsent /\ collected_utxos[u].block = collected_utxos'[u].block
      /\ \A u \in DOMAIN collected_utxos' : collected_utxos'[u].block \in Used \cup {0}
  <2>1. CASE UNCHANGED collected_utxos
    BY <2>1, UsedParts DEF Unsent
  <2>2. ASSUME NEW c \in FinalizeCalls, FinalizeMined(c)
        PROVE  <1>3!1 /\ <1>3!2
    <3>1. finals[c].block \in Used /\ finals[c].status # 0
      BY <2>2, UsedParts DEF TypeOK, OpenCalls, FinalizeMined
    <3>2. collected_utxos' =
            MarkUtxos(finals[c].bu.utxos, finals[c].block, finals[c].status)
      BY <2>2 DEF FinalizeMined
    <3> QED BY <3>1, <3>2, MarkQuiet DEF PayoutInv
  <2>3. ASSUME NEW c \in CollectCalls, CollectListed(c)
        PROVE  <1>3!1 /\ <1>3!2
    <3>1. \A u \in DOMAIN collected_utxos' :
            \/ collected_utxos'[u] = [block |-> 0, height |-> 0]
            \/ u \in DOMAIN collected_utxos /\ collected_utxos'[u] = collected_utxos[u]
      <4> DEFINE m == Collected(collects[c].listed)
      <4>1. \A u \in DOMAIN m :
              \/ m[u] = [block |-> 0, height |-> 0]
              \/ u \in DOMAIN collected_utxos /\ m[u] = collected_utxos[u]
        BY DEF Collected
      <4>2. collected_utxos' = [u \in Retained(m, collects[c].confirmed) |-> m[u]]
        BY <2>3 DEF CollectListed
      <4>3. Retained(m, collects[c].confirmed) \subseteq DOMAIN m
        BY DEF Retained
      <4> HIDE DEF m
      <4> QED BY <4>1, <4>2, <4>3
    <3>2. 0 \notin Used
      BY DEF PayoutInv, Fresh
    <3> QED BY <3>1, <3>2, UsedParts DEF Unsent
  <2> QED BY <2>1, <2>2, <2>3 DEF FinalizeStart, TxAnswers, TxStatus, TxStatusFails,
          FinalizeSteps, FinalizeUnmined, FinalizeDropped, CollectStart, Deposit, stores
<1>4. Used' \subseteq Used
  BY <1>1, <1>2, <1>3, UsedParts, UsedWithin
<1>5. Quiet
  BY <1>0, <1>1, <1>3, <1>4 DEF Quiet
<1> QED BY <1>1, <1>5, FundedFrame, QuietPayout DEF PayoutInv

LEMMA BlockPayout ==
  ASSUME TypeOK, PayoutInv, NewBlock \/ Reorg PROVE PayoutInv'
<1>0. Len(log) \in Nat
  BY DEF TypeOK, WorldTypes
<1>1. UNCHANGED <<stores, burns, balances, log>>
  BY DEF NewBlock, Reorg, calls, ledger
<1>2. \A t \in DOMAIN network : network[t] \in Payouts
  BY DEF TypeOK, WorldTypes
<1>3. /\ DOMAIN network' = DOMAIN network
      /\ \A t \in DOMAIN network : /\ network'[t].block = network[t].block
                                   /\ network'[t].ins = network[t].ins
  BY <1>2 DEF NewBlock, Reorg, Payouts
<1>4. Used' \subseteq Used
  BY <1>1, <1>3, UsedParts, UsedWithin DEF stores
<1>5. Quiet
  BY <1>0, <1>1, <1>3, <1>4 DEF Quiet, Unsent, stores
<1> QED BY <1>1, <1>5, FundedFrame, QuietPayout DEF PayoutInv

\* The steps of a burn call that start no payment: asking for the balance, a
\* refusal, a failure, and the last step, sent or not.
LEMMA BurnCallPayout ==
  ASSUME TypeOK, PayoutInv, NEW c \in BurnCalls,
         \/ \E amount \in Amounts : BurnStart(c, amount)
         \/ BurnBalance(c) \/ LedgerRefusesBurn(c) \/ PayoutFails(c) \/ BurnUnsent(c)
  PROVE  PayoutInv'
<1>0. Len(log) \in Nat /\ burns \in [BurnCalls -> Range(burns)]
  BY DEF TypeOK, WorldTypes, BurnTypes, Range
<1>1. /\ UNCHANGED <<network, balances, log, collected_utxos, burned_utxos>>
      /\ DOMAIN burning_utxos' = DOMAIN burning_utxos
      /\ \A d \in BurnCalls : d # c => burns'[d] = burns[d]
  BY <1>0 DEF BurnStart, BurnBalance, LedgerRefusesBurn, PayoutFails, BurnUnsent, WithError,
     stores, chain, ledger
<1>2. /\ burns'[c].pc \in {"idle", "balance", "burn", "unsent"}
      /\ burns'[c].pc = "balance" => burns'[c].amount > 0
      /\ burns'[c].pc = "burn" => burns'[c].amount > 0 /\ burns'[c].utxos # {}
  <2>1. ASSUME NEW amount \in Amounts, BurnStart(c, amount) PROVE <1>2
    <3>1. amount > 0 /\ burns'[c].amount = amount /\ burns'[c].pc = "balance"
      <4>1. amount \in Nat /\ DustLimit \in Nat \ {0} /\ amount >= DustLimit * 10
        BY <2>1, NumbersAssumption DEF BurnStart
      <4>2. amount > 0
        BY <4>1
      <4> QED BY <2>1, <4>2 DEF TypeOK, BurnTypes, BurnStart, IdleBurn
    <3> QED BY <3>1
  <2>2. CASE BurnBalance(c)
    <3> DEFINE selected == SelectUtxos(burns[c].amount)
    <3>1. burns[c].amount \in Nat /\ burns[c].amount > 0
      BY <2>2 DEF TypeOK, BurnTypes, PayoutInv, Funded, BurnBalance
    <3>2. burns[c].amount <= TotalValue(selected) => selected # {}
      BY <3>1, SelectTypes
    <3>3. \/ /\ burns[c].amount <= TotalValue(selected)
             /\ burns' = [burns EXCEPT ![c] = [@ EXCEPT !.pc = "burn", !.utxos = selected]]
          \/ burns' = [burns EXCEPT ![c] = IdleBurn]
      BY <2>2 DEF BurnBalance
    <3> HIDE DEF selected
    <3>4. CASE burns' = [burns EXCEPT ![c] = IdleBurn]
      BY <3>4 DEF TypeOK, BurnTypes, IdleBurn
    <3>5. CASE /\ selected # {}
               /\ burns' = [burns EXCEPT ![c] = [@ EXCEPT !.pc = "burn", !.utxos = selected]]
      BY <3>1, <3>5 DEF TypeOK, BurnTypes
    <3> QED BY <3>2, <3>3, <3>4, <3>5
  <2>3. CASE LedgerRefusesBurn(c) \/ PayoutFails(c) \/ BurnUnsent(c)
    BY <2>3 DEF LedgerRefusesBurn, PayoutFails, BurnUnsent, TypeOK, BurnTypes, IdleBurn
  <2> QED BY <2>1, <2>2, <2>3
<1>3. Funded'
  BY <1>1, <1>2 DEF PayoutInv, Funded
<1>4. Used' \subseteq Used
  BY <1>1, <1>2, UsedParts, UsedWithin
<1>5. Quiet
  BY <1>0, <1>1, <1>2, <1>4 DEF Quiet, Unsent
<1> QED BY <1>3, <1>5, QuietPayout

LEMMA BurnSentPayout ==
  ASSUME TypeOK, PayoutInv, NEW c \in BurnCalls, BurnSent(c) PROVE PayoutInv'
<1> DEFINE b == burns[c].block
<1>0. Len(log) \in Nat /\ b \in Used
  BY UsedParts DEF TypeOK, WorldTypes, BurnSent
<1>1. UNCHANGED <<network, balances, log>>
  BY DEF BurnSent, chain, ledger
<1>2. /\ burns'[c].pc = "idle"
      /\ \A d \in BurnCalls : d # c => burns'[d] = burns[d]
  BY DEF TypeOK, BurnTypes, BurnSent, IdleBurn
<1>3. /\ DOMAIN burned_utxos' \subseteq Used
      /\ DOMAIN burning_utxos' \subseteq Used
  BY <1>0, UsedParts DEF BurnSent, WithPayout
<1>4. /\ \A u \in Unsent' : collected_utxos'[u].block \in Used =>
           u \in Unsent /\ collected_utxos[u].block = collected_utxos'[u].block
      /\ \A u \in DOMAIN collected_utxos' : collected_utxos'[u].block \in Used \cup {0}
  <2>1. collected_utxos' = MarkUtxos(burns[c].utxos, b, 1)
    BY DEF BurnSent
  <2> QED BY <1>0, <2>1, MarkQuiet DEF PayoutInv
<1>5. Funded'
  BY <1>1, <1>2 DEF PayoutInv, Funded
<1>6. Used' \subseteq Used
  BY <1>1, <1>2, <1>3, <1>4, UsedParts, UsedWithin
<1>7. Quiet
  BY <1>0, <1>1, <1>2, <1>4, <1>6 DEF Quiet
<1> QED BY <1>5, <1>7, QuietPayout

LEMMA LedgerBurnPayout ==
  ASSUME TypeOK, PayoutInv, NEW c \in BurnCalls, LedgerBurn(c) PROVE PayoutInv'
<1>1. /\ UNCHANGED <<stores, network>>
      /\ Len(log') = Len(log) + 1 /\ Len(log) \in Nat /\ log' # << >>
  <2>1. log' # << >>
    BY DEF LedgerBurn, TypeOK, WorldTypes
  <2> QED BY <2>1, EntriesAppend DEF LedgerBurn, TypeOK, chain
<1>2. Len(log) # 0
  <2>1. CallerOf[c] \in Users /\ burns[c].amount > 0 /\ burns[c].amount \in Nat
    BY PrincipalsAssumption DEF TypeOK, BurnTypes, PayoutInv, Funded, LedgerBurn
  <2>2. balances[CallerOf[c]] # 0
    BY <2>1 DEF LedgerBurn, TypeOK, WorldTypes
  <2>3. log # << >>
    BY <2>1, <2>2 DEF PayoutInv, Funded
  <2> QED BY <2>3 DEF TypeOK, WorldTypes
<1>3. /\ burns'[c].pc = "burned" /\ burns'[c].block = Len(log)
      /\ burns'[c].utxos = burns[c].utxos
      /\ burns[c].pc = "burn"
      /\ \A d \in BurnCalls : d # c => burns'[d] = burns[d]
  BY DEF TypeOK, BurnTypes, LedgerBurn
<1>4. Funded'
  BY <1>1, <1>3 DEF PayoutInv, Funded
<1>5. Used' \subseteq Used
  BY <1>1, <1>3, UsedParts, UsedWithin DEF stores
<1>6. Fresh'
  <2>1. Used' \subseteq 1..(Len(log') - 1)
    <3>1. Used \subseteq 1..(Len(log) - 1)
      BY DEF PayoutInv, Fresh
    <3>2. 1..(Len(log) - 1) \subseteq 1..(Len(log') - 1)
      BY <1>1
    <3> QED BY <1>5, <3>1, <3>2
  <2>2. Len(log) \notin Used'
    BY <1>1, <1>5 DEF PayoutInv, Fresh
  <2>3. \A d \in BurnCalls : d # c /\ burns'[d].pc = "burned" =>
          /\ burns'[d] = burns[d]
          /\ burns[d].block \in 1..(Len(log) - 1) /\ burns[d].block \notin Used'
    BY <1>3, <1>5 DEF PayoutInv, Fresh
  <2>4. \A d, e \in BurnCalls :
          /\ burns'[d].pc = "burned" /\ burns'[e].pc = "burned"
          /\ burns'[d].block = burns'[e].block
          => d = e
    BY <1>1, <1>3, <2>3 DEF PayoutInv, Fresh
  <2>5. \A d \in BurnCalls : burns'[d].pc = "burned" =>
          burns'[d].block \in 1..(Len(log') - 1) /\ burns'[d].block \notin Used'
    BY <1>1, <1>2, <1>3, <2>2, <2>3
  <2> QED BY <2>1, <2>4, <2>5 DEF Fresh
<1>7. Claims'
  <2>1. \A d \in BurnCalls : burns'[d].pc = "sign" => burns'[d] = burns[d]
    BY <1>3
  <2> QED BY <1>1, <2>1 DEF PayoutInv, Claims, Unsent, stores
<1> QED BY <1>1, <1>4, <1>6, <1>7 DEF PayoutInv, PayoutOnce

\* The new burn's UTXOs are all a retry would take, and nobody else pays it.
LEMMA BurnBurnedPayout ==
  ASSUME TypeOK, PayoutInv, NEW c \in BurnCalls, BurnBurned(c) PROVE PayoutInv'
<1> DEFINE b == burns[c].block
           S == burns[c].utxos
<1>1. UNCHANGED <<network, balances, log, burned_utxos>>
  BY DEF BurnBurned, chain, ledger
<1>2. /\ burns[c].pc = "burned"
      /\ burns'[c].pc = "sign" /\ burns'[c].block = b /\ burns'[c].utxos = S
      /\ \A d \in BurnCalls : d # c => burns'[d] = burns[d]
  BY DEF TypeOK, BurnTypes, BurnBurned
<1>3. b \in 1..(Len(log) - 1) /\ b \notin Used /\ S # {}
  BY <1>2 DEF PayoutInv, Fresh, Funded
<1>4. \A u \in DOMAIN collected_utxos' :
        \/ u \in S /\ collected_utxos'[u] = [block |-> b, height |-> 0]
        \/ /\ u \in DOMAIN collected_utxos /\ collected_utxos'[u] = collected_utxos[u]
           /\ collected_utxos'[u].block # b
  <2>1. collected_utxos' = MarkUtxos(S, b, 0)
    BY DEF BurnBurned
  <2>2. \A u \in DOMAIN collected_utxos : collected_utxos[u].block # b
    BY <1>3, UsedParts
  <2> HIDE DEF b, S
  <2> QED BY <2>1, <2>2 DEF MarkUtxos
<1>5. DOMAIN burning_utxos' = DOMAIN burning_utxos \cup {b}
  BY DEF BurnBurned
<1> HIDE DEF b, S
<1>6. Used' \subseteq Used \cup {b}
  <2>1. \A u \in DOMAIN collected_utxos' : collected_utxos'[u].block \in Used \cup {b, 0}
    BY <1>4, UsedParts
  <2>2. \A d \in BurnCalls : burns'[d].pc \in {"sign", "sent"} =>
          burns'[d].block \in Used \cup {b}
    BY <1>2, UsedParts
  <2> QED BY <1>1, <1>5, <2>1, <2>2, UsedParts DEF Used
<1>7. Funded'
  BY <1>1, <1>2 DEF PayoutInv, Funded
<1>8. Fresh'
  <2>1. \A d \in BurnCalls : burns'[d].pc = "burned" =>
          d # c /\ burns'[d] = burns[d] /\ burns[d].block # b
    BY <1>2 DEF PayoutInv, Fresh, b
  <2> QED BY <1>1, <1>3, <1>6, <2>1 DEF PayoutInv, Fresh
<1>9. Claims'
  <2>1. \A d \in BurnCalls : d # c /\ burns'[d].pc = "sign" =>
          burns'[d] = burns[d] /\ burns[d].block # b
    BY <1>2, <1>3, UsedParts
  <2>2. \A t \in DOMAIN network : network[t].block # b
    BY <1>3, UsedParts
  <2>3. \A u \in Unsent' : collected_utxos'[u].block = b => u \in S
    BY <1>4 DEF Unsent
  <2>4. \A u \in Unsent' : collected_utxos'[u].block # b =>
          u \in Unsent /\ collected_utxos'[u].block = collected_utxos[u].block
    BY <1>4 DEF Unsent
  <2>5. \A d \in BurnCalls : burns'[d].pc = "sign" =>
          /\ \A u \in Unsent' : collected_utxos'[u].block = burns'[d].block
               => u \in burns'[d].utxos
          /\ \A e \in BurnCalls : burns'[e].pc = "sign" /\ burns'[e].block = burns'[d].block
               => burns'[d].utxos \cap burns'[e].utxos # {}
          /\ \A t \in DOMAIN network : network[t].block = burns'[d].block
               => burns'[d].utxos \cap network[t].ins # {}
    BY <1>2, <1>3, <2>1, <2>2, <2>3, <2>4 DEF PayoutInv, Claims
  <2>6. \A t \in DOMAIN network : \A u \in Unsent' :
          collected_utxos'[u].block = network[t].block => u \in network[t].ins
    BY <2>2, <2>4 DEF PayoutInv, Claims
  <2> QED BY <1>1, <2>5, <2>6 DEF Claims
<1> QED BY <1>1, <1>7, <1>8, <1>9 DEF PayoutInv, PayoutOnce

\* A retry takes what every other payer of the burn has claimed.
LEMMA RetryPayout ==
  ASSUME TypeOK, PayoutInv, NEW c \in BurnCalls, NEW b \in DOMAIN burning_utxos,
         RetryStart(c, b)
  PROVE  PayoutInv'
<1>1. /\ UNCHANGED <<stores, network, balances, log>> /\ RetryUtxos(b) # {}
      /\ Len(log) \in Nat
  BY DEF RetryStart, chain, ledger, TypeOK, WorldTypes
<1>2. /\ burns'[c].pc = "sign" /\ burns'[c].block = b /\ burns'[c].utxos = RetryUtxos(b)
      /\ \A d \in BurnCalls : d # c => burns'[d] = burns[d]
  BY DEF TypeOK, BurnTypes, RetryStart, IdleBurn
<1>3. Used' \subseteq Used
  BY <1>1, <1>2, UsedParts, UsedWithin DEF stores
<1>4. Funded'
  BY <1>1, <1>2 DEF PayoutInv, Funded
<1>5. Fresh'
  <2>1. \A d \in BurnCalls : burns'[d].pc = "burned" => d # c /\ burns'[d] = burns[d]
    BY <1>2
  <2> QED BY <1>1, <1>3, <2>1 DEF PayoutInv, Fresh
<1>6. Claims'
  <2>1. \A u : u \in RetryUtxos(b) <=> u \in Unsent /\ collected_utxos[u].block = b
    BY DEF RetryUtxos, Unsent
  <2>2. \A d \in BurnCalls : d # c /\ burns'[d].pc = "sign" => burns'[d] = burns[d]
    BY <1>2
  <2>3. Unsent' = Unsent /\ collected_utxos' = collected_utxos
    BY <1>1 DEF Unsent, stores
  <2>4. \A d \in BurnCalls : burns'[d].pc = "sign" =>
          /\ \A u \in Unsent : collected_utxos[u].block = burns'[d].block
               => u \in burns'[d].utxos
          /\ \A e \in BurnCalls : burns'[e].pc = "sign" /\ burns'[e].block = burns'[d].block
               => burns'[d].utxos \cap burns'[e].utxos # {}
          /\ \A t \in DOMAIN network : network[t].block = burns'[d].block
               => burns'[d].utxos \cap network[t].ins # {}
    BY <1>1, <1>2, <2>1, <2>2 DEF PayoutInv, Claims
  <2> QED BY <1>1, <2>3, <2>4 DEF PayoutInv, Claims
<1> QED BY <1>1, <1>4, <1>5, <1>6 DEF PayoutInv, PayoutOnce

\* The node refuses a payout that spends an output of another one, and every
\* payout of the same burn does.
LEMMA SendPayout ==
  ASSUME TypeOK, PayoutInv, NEW c \in BurnCalls, SendTx(c) PROVE PayoutInv'
<1> DEFINE n == Len(network) + 1
           b == burns[c].block
           S == burns[c].utxos
<1>1. /\ UNCHANGED <<stores, balances, log>> /\ Len(log) \in Nat
      /\ burns[c].pc = "sign"
      /\ \A u \in S : ~Spends(u)
  BY DEF SendTx, ledger, NodeAccepts, TypeOK, WorldTypes
<1>2. /\ DOMAIN network' = DOMAIN network \cup {n} /\ n \notin DOMAIN network
      /\ network'[n].block = b /\ network'[n].ins = S
      /\ \A t \in DOMAIN network : network'[t] = network[t]
  BY DEF SendTx, TypeOK, WorldTypes
<1>3. /\ burns'[c].pc \in {"sent", "unsent"} /\ burns'[c].block = b
      /\ \A d \in BurnCalls : d # c => burns'[d] = burns[d]
  BY DEF SendTx, TypeOK, BurnTypes
<1>4. \A t \in DOMAIN network : network[t].block # b
  <2>1. \A t \in DOMAIN network : network[t].block = b => S \cap network[t].ins # {}
    BY <1>1 DEF PayoutInv, Claims
  <2> QED BY <1>1, <2>1 DEF Spends
<1>5. b \in Used
  BY <1>1, UsedParts
<1>6. /\ \A u \in Unsent : collected_utxos[u].block = b => u \in S
      /\ \A d \in BurnCalls : burns[d].pc = "sign" /\ burns[d].block = b
           => S \cap burns[d].utxos # {}
  BY <1>1 DEF PayoutInv, Claims
<1> HIDE DEF n, b, S
<1>7. Used' \subseteq Used
  BY <1>1, <1>2, <1>3, <1>5, UsedParts, UsedWithin DEF stores
<1>8. Funded'
  BY <1>1, <1>3 DEF PayoutInv, Funded
<1>9. Fresh'
  <2>1. \A d \in BurnCalls : burns'[d].pc = "burned" => d # c /\ burns'[d] = burns[d]
    BY <1>3
  <2> QED BY <1>1, <1>7, <2>1 DEF PayoutInv, Fresh
<1>10. Claims'
  <2>1. \A d \in BurnCalls : burns'[d].pc = "sign" => d # c /\ burns'[d] = burns[d]
    BY <1>3
  <2>2. Unsent' = Unsent /\ collected_utxos' = collected_utxos
    BY <1>1 DEF Unsent, stores
  <2>3. \A d \in BurnCalls : burns'[d].pc = "sign" =>
          \A t \in DOMAIN network' : network'[t].block = burns'[d].block
            => burns'[d].utxos \cap network'[t].ins # {}
    BY <1>2, <1>6, <2>1 DEF PayoutInv, Claims
  <2>4. \A t \in DOMAIN network' : \A u \in Unsent :
          collected_utxos[u].block = network'[t].block => u \in network'[t].ins
    BY <1>2, <1>6 DEF PayoutInv, Claims
  <2> QED BY <2>1, <2>2, <2>3, <2>4 DEF PayoutInv, Claims
<1>11. PayoutOnce'
  BY <1>2, <1>4 DEF PayoutInv, PayoutOnce
<1> QED BY <1>8, <1>9, <1>10, <1>11 DEF PayoutInv

LEMMA InitPayout == Init => PayoutInv
<1> SUFFICES ASSUME Init PROVE PayoutInv
  OBVIOUS
<1> USE DEF Init, InitCanister, InitWorld, IdleBurn
<1>1. Funded /\ Claims /\ PayoutOnce
  BY DEF Funded, Claims, PayoutOnce, Unsent
<1>2. Used = {}
  BY DEF Used
<1>3. Fresh
  BY <1>2 DEF Fresh
<1> QED BY <1>1, <1>3 DEF PayoutInv

LEMMA NextPayout == ASSUME TypeOK, PayoutInv, [Next]_vars PROVE PayoutInv'
<1>1. CASE UNCHANGED vars
  <2>1. UNCHANGED <<stores, network, log, balances, burns>>
    BY <1>1 DEF vars, calls, chain, ledger
  <2> QED BY <2>1, QuietCalls, FundedFrame, QuietPayout DEF PayoutInv
<1>2. CASE Next
  BY <1>2, MintPayout, BurnCallPayout, BurnSentPayout, LedgerBurnPayout,
     BurnBurnedPayout, RetryPayout, SendPayout, TimerPayout, BlockPayout
     DEF Next, BurnAnswers, BurnSteps
<1> QED BY <1>1, <1>2

\* However answers are lost and burns retried, by whoever and at the same
\* time, the network takes at most one payout of a burn.
THEOREM PaidOnce == Spec => []PayoutOnce
<1>1. Init => PayoutInv
  BY InitPayout
<1>2. TypeOK /\ PayoutInv /\ [Next]_vars => PayoutInv'
  BY NextPayout
<1>3. PayoutInv => PayoutOnce
  BY DEF PayoutInv
<1> QED BY <1>1, <1>2, <1>3, TypeCorrect, PTL DEF Spec

-----------------------------------------------------------------------------
(* NoDoubleMint *)

\* A principal waits for its mint_ckdoge before it calls again.
OneMintEach == \A c, d \in MintCalls : CallerOf[c] = CallerOf[d] => c = d

\* Outputs keep their owners.
LEMMA OwnersStay ==
  ASSUME TypeOK, [Next]_vars
  PROVE  \A u \in DOMAIN utxos : u \in DOMAIN utxos' /\ utxos'[u] = utxos[u]
<1>1. CASE utxos' = utxos
  BY <1>1
<1>2. ASSUME NEW p \in Users, NEW v \in Values, Deposit(p, v)
      PROVE  \A u \in DOMAIN utxos : u \in DOMAIN utxos' /\ utxos'[u] = utxos[u]
  BY <1>2 DEF Deposit, TypeOK, WorldTypes
<1>3. CASE NewBlock
  <2>1. PICK order \in SetToSeqs(Confirming) : utxos' = utxos \o ChangeOutputs(order)
    BY <1>3 DEF NewBlock
  <2>2. ChangeOutputs(order) \in Seq(Outpoints)
    BY <2>1, ChangeTypes DEF TypeOK
  <2> QED BY <2>1, <2>2, ConcatProperties DEF TypeOK, WorldTypes
<1> QED BY <1>1, <1>2, <1>3 DEF Next, MintAnswers, MintSteps, BurnAnswers, BurnSteps,
        TxAnswers, FinalizeSteps, MintStart, LedgerMint, LedgerRefusesMint, MintListed,
        MintMinted, MintRefused, BurnStart, RetryStart, LedgerBurn, LedgerRefusesBurn,
        PayoutFails, SendTx, BurnBalance, BurnBurned, BurnSent, BurnUnsent, FinalizeStart,
        TxStatus, TxStatusFails, FinalizeMined, FinalizeUnmined, FinalizeDropped,
        CollectStart, CollectListed, Reorg, chain, vars

\* Steps that mint nothing leave the loops as they are.
LEMMA MintsStay ==
  ASSUME TypeOK, MintInv, UNCHANGED <<mints, minted_utxos>>,
         Entries("mint")' = Entries("mint"),
         \A i \in Entries("mint") : log'[i] = log[i],
         \A u \in DOMAIN utxos : u \in DOMAIN utxos' /\ utxos'[u] = utxos[u]
  PROVE  MintInv'
<1>1. LoopKnows'
  BY DEF MintInv, LoopKnows, TypeOK, MintTypes
<1>2. MintsKnown'
  BY DEF MintInv, MintsKnown
<1>3. NoDoubleMint'
  BY DEF MintInv, NoDoubleMint
<1> QED BY <1>1, <1>2, <1>3 DEF MintInv

\* A step of one loop that does not mint and keeps what is known.
LEMMA LoopSteps ==
  ASSUME TypeOK, MintInv, NEW c \in MintCalls, mints[c].pc # "minted",
         UNCHANGED <<minted_utxos, log, utxos>>,
         NEW m, mints' = [mints EXCEPT ![c] = m],
         m.pc # "minted",
         m.pc # "idle" => \A u \in m.todo : utxos[u].owner = CallerOf[c],
         m.pc \in Minting =>
           /\ m.cur \in DOMAIN utxos /\ utxos[m.cur].owner = CallerOf[c]
           /\ m.snap = minted_utxos[CallerOf[c]]
           /\ m.cur \notin m.snap \cup m.todo
           /\ m.todo \cap m.snap = {}
  PROVE  MintInv'
<1>0. mints'[c] = m /\ \A d \in MintCalls : d # c => mints'[d] = mints[d]
  BY DEF TypeOK, MintTypes
<1>1. LoopKnows'
  BY <1>0 DEF MintInv, LoopKnows
<1>2. MintsKnown'
  BY <1>0 DEF MintInv, MintsKnown, Entries
<1>3. NoDoubleMint'
  BY DEF MintInv, NoDoubleMint, Entries
<1> QED BY <1>1, <1>2, <1>3 DEF MintInv

LEMMA MintStartOnce ==
  ASSUME TypeOK, MintInv, NEW c \in MintCalls, MintStart(c) PROVE MintInv'
<1> DEFINE m == [IdleMint EXCEPT !.pc = "listed", !.todo = ListUtxos(CallerOf[c])]
<1>1. /\ mints[c].pc # "minted" /\ mints' = [mints EXCEPT ![c] = m]
      /\ UNCHANGED <<minted_utxos, log, utxos>>
  BY DEF MintStart, stores, chain, ledger
<1>2. /\ m.pc = "listed"
      /\ \A u \in m.todo : utxos[u].owner = CallerOf[c]
  BY ListTypes DEF IdleMint
<1> HIDE DEF m
<1> QED BY <1>1, <1>2, LoopSteps DEF Minting

LEMMA MintListedOnce ==
  ASSUME TypeOK, MintInv, NEW c \in MintCalls, MintListed(c) PROVE MintInv'
<1> DEFINE snap == minted_utxos[CallerOf[c]]
           todo == mints[c].todo \ snap
<1>1. /\ mints[c].pc = "listed" /\ UNCHANGED <<minted_utxos, log, utxos>>
      /\ todo \in SUBSET DOMAIN utxos
      /\ \A u \in todo : utxos[u].owner = CallerOf[c]
  BY DEF MintListed, TypeOK, MintTypes, MintInv, LoopKnows, stores, chain, ledger
<1>2. \/ mints' = [mints EXCEPT ![c] = IdleMint]
      \/ \E u \in todo : mints' = [mints EXCEPT ![c] =
           [pc |-> "mint", todo |-> todo \ {u}, cur |-> u, snap |-> snap]]
  BY DEF MintListed, MintNext, MintCandidates
<1>3. CASE mints' = [mints EXCEPT ![c] = IdleMint]
  <2>1. IdleMint.pc = "idle"
    BY DEF IdleMint
  <2> QED BY <1>1, <1>3, <2>1, LoopSteps DEF Minting
<1>4. ASSUME NEW u \in todo,
             mints' = [mints EXCEPT ![c] =
               [pc |-> "mint", todo |-> todo \ {u}, cur |-> u, snap |-> snap]]
      PROVE  MintInv'
  <2> DEFINE m == [pc |-> "mint", todo |-> todo \ {u}, cur |-> u, snap |-> snap]
  <2>1. /\ m.pc = "mint"
        /\ \A v \in m.todo : utxos[v].owner = CallerOf[c]
        /\ m.cur \in DOMAIN utxos /\ utxos[m.cur].owner = CallerOf[c]
        /\ m.snap = minted_utxos[CallerOf[c]]
        /\ m.cur \notin m.snap \cup m.todo
        /\ m.todo \cap m.snap = {}
    BY <1>1
  <2>2. mints' = [mints EXCEPT ![c] = m]
    BY <1>4
  <2> HIDE DEF m
  <2> QED BY <1>1, <2>1, <2>2, LoopSteps
<1> QED BY <1>2, <1>3, <1>4

LEMMA MintRefusals ==
  ASSUME TypeOK, MintInv, NEW c \in MintCalls, LedgerRefusesMint(c) \/ MintRefused(c)
  PROVE  MintInv'
<1>1. /\ mints[c].pc # "minted" /\ mints[c].pc # "idle"
      /\ UNCHANGED <<minted_utxos, log, utxos>>
  BY DEF LedgerRefusesMint, MintRefused, stores, chain, ledger
<1>2. CASE MintRefused(c)
  <2>1. mints' = [mints EXCEPT ![c] = IdleMint] /\ IdleMint.pc = "idle"
    BY <1>2 DEF MintRefused, MintDone, IdleMint
  <2> QED BY <1>1, <2>1, LoopSteps DEF Minting
<1>3. CASE LedgerRefusesMint(c)
  <2> DEFINE m == [mints[c] EXCEPT !.pc = "refused"]
  <2>1. mints' = [mints EXCEPT ![c] = m] /\ mints[c].pc = "mint"
    BY <1>3 DEF LedgerRefusesMint, TypeOK, MintTypes
  <2>2. /\ m.pc = "refused" /\ m.todo = mints[c].todo
        /\ m.cur = mints[c].cur /\ m.snap = mints[c].snap
    BY DEF TypeOK, MintTypes
  <2> HIDE DEF m
  <2>3. /\ \A u \in m.todo : utxos[u].owner = CallerOf[c]
        /\ m.cur \in DOMAIN utxos /\ utxos[m.cur].owner = CallerOf[c]
        /\ m.snap = minted_utxos[CallerOf[c]]
        /\ m.cur \notin m.snap \cup m.todo
        /\ m.todo \cap m.snap = {}
    BY <2>1, <2>2 DEF MintInv, LoopKnows, Minting
  <2> QED BY <1>1, <2>1, <2>2, <2>3, LoopSteps
<1> QED BY <1>2, <1>3

\* The UTXO the ledger is about to mint is in no earlier entry: it would be
\* in the snapshot, or in the hands of another call of the same principal.
LEMMA NotMinted ==
  ASSUME OneMintEach, TypeOK, MintInv, NEW c \in MintCalls, mints[c].pc = "mint"
  PROVE  \A i \in Entries("mint") : log[i].utxo # mints[c].cur
<1> DEFINE u == mints[c].cur
           p == CallerOf[c]
<1>1. u \in DOMAIN utxos /\ utxos[u].owner = p /\ u \notin minted_utxos[p]
  BY DEF MintInv, LoopKnows, Minting
<1> SUFFICES ASSUME NEW i \in Entries("mint"), log[i].utxo = u PROVE FALSE
  OBVIOUS
<1>2. log[i].user = p
  BY <1>1 DEF MintInv, MintsKnown
<1>3. PICK d \in MintCalls : mints[d].pc = "minted" /\ mints[d].cur = u
  BY <1>1, <1>2 DEF MintInv, MintsKnown
<1>4. CallerOf[d] = p
  BY <1>1, <1>3 DEF MintInv, LoopKnows, Minting
<1> QED BY <1>3, <1>4 DEF OneMintEach

LEMMA LedgerMintOnce ==
  ASSUME OneMintEach, TypeOK, MintInv, NEW c \in MintCalls, LedgerMint(c)
  PROVE  MintInv'
<1> DEFINE u == mints[c].cur
           p == CallerOf[c]
           e == [op |-> "mint", user |-> p, amount |-> utxos[u].value, utxo |-> u]
           n == Len(log) + 1
<1>1. /\ mints[c].pc = "mint" /\ UNCHANGED <<minted_utxos, utxos>>
      /\ log' = Append(log, e) /\ e.op = "mint" /\ e.utxo = u /\ e.user = p
  BY DEF LedgerMint, stores, chain
<1>2. /\ mints'[c] = [mints[c] EXCEPT !.pc = "minted"]
      /\ \A d \in MintCalls : d # c => mints'[d] = mints[d]
  BY DEF LedgerMint, TypeOK, MintTypes
<1>3. /\ u \in DOMAIN utxos /\ utxos[u].owner = p /\ u \notin minted_utxos[p]
      /\ \A v \in mints[c].todo : utxos[v].owner = p
  BY <1>1 DEF MintInv, LoopKnows, Minting
<1>4. /\ mints'[c].pc = "minted" /\ mints'[c].cur = u
      /\ mints'[c].todo = mints[c].todo /\ mints'[c].snap = mints[c].snap
  BY <1>2 DEF TypeOK, MintTypes
<1> HIDE DEF e
<1>5. /\ Entries("mint")' = Entries("mint") \cup {n} /\ n \notin Entries("mint")
      /\ \A i \in Entries("mint") : log'[i] = log[i]
      /\ log'[n] = e
  <2>1. Entries("mint")' = Entries("mint") \cup (IF e.op = "mint" THEN {n} ELSE {})
    BY <1>1, EntriesAppend DEF TypeOK
  <2> QED BY <1>1, <2>1, EntriesAppend DEF TypeOK
<1>6. \A i \in Entries("mint") : log[i].utxo # u
  BY <1>1, NotMinted
<1> HIDE DEF u, p, n
<1>7. NoDoubleMint'
  BY <1>1, <1>5, <1>6 DEF MintInv, NoDoubleMint
<1>8. MintsKnown'
  <2> SUFFICES ASSUME NEW i \in Entries("mint")'
               PROVE  /\ log'[i].utxo \in DOMAIN utxos
                      /\ utxos[log'[i].utxo].owner = log'[i].user
                      /\ \/ log'[i].utxo \in minted_utxos[log'[i].user]
                         \/ \E d \in MintCalls : mints'[d].pc = "minted"
                                                 /\ mints'[d].cur = log'[i].utxo
    BY <1>1 DEF MintsKnown
  <2>1. \A d \in MintCalls : mints[d].pc = "minted" =>
          mints'[d].pc = "minted" /\ mints'[d].cur = mints[d].cur
    BY <1>1, <1>2
  <2>2. CASE i = n
    BY <1>1, <1>3, <1>4, <1>5, <2>2
  <2>3. CASE i \in Entries("mint")
    BY <1>5, <2>1, <2>3 DEF MintInv, MintsKnown
  <2> QED BY <1>5, <2>2, <2>3
<1>9. LoopKnows'
  <2>1. /\ mints[c].snap = minted_utxos[p]
        /\ u \notin mints[c].snap \cup mints[c].todo
        /\ mints[c].todo \cap mints[c].snap = {}
    BY <1>1 DEF MintInv, LoopKnows, Minting, u, p
  <2>2. p = CallerOf[c]
    BY DEF p
  <2>3. \A d \in MintCalls : d # c => mints'[d] = mints[d]
    BY <1>2
  <2> QED BY <1>1, <1>3, <1>4, <2>1, <2>2, <2>3 DEF MintInv, LoopKnows
<1> QED BY <1>7, <1>8, <1>9 DEF MintInv

LEMMA MintMintedOnce ==
  ASSUME OneMintEach, TypeOK, MintInv, NEW c \in MintCalls, MintMinted(c)
  PROVE  MintInv'
<1> DEFINE u == mints[c].cur
           p == CallerOf[c]
           todo == mints[c].todo
           snap == mints[c].snap \cup {u}
<1>1. mints[c].pc = "minted" /\ UNCHANGED <<log, utxos>>
  BY DEF MintMinted, chain, ledger
<1>2. /\ u \in DOMAIN utxos /\ utxos[u].owner = p
      /\ mints[c].snap = minted_utxos[p] /\ u \notin todo /\ todo \cap snap = {}
      /\ \A v \in todo : v \in DOMAIN utxos /\ utxos[v].owner = p
  BY <1>1 DEF MintInv, LoopKnows, Minting, TypeOK, MintTypes
<1>3. minted_utxos' = [minted_utxos EXCEPT ![p] = snap] /\ p \in Users
  BY PrincipalsAssumption DEF MintMinted, Snapshot
<1>4. \/ mints' = [mints EXCEPT ![c] = IdleMint]
      \/ \E v \in todo : mints' = [mints EXCEPT ![c] =
           [pc |-> "mint", todo |-> todo \ {v}, cur |-> v, snap |-> snap]]
  BY DEF MintMinted, MintDone, MintNext, Snapshot
<1> HIDE DEF u, p, todo, snap
<1>5. /\ minted_utxos'[p] = snap /\ minted_utxos[p] \subseteq snap /\ u \in snap
      /\ \A q \in Users : q # p => minted_utxos'[q] = minted_utxos[q]
  BY <1>2, <1>3 DEF TypeOK, StoreTypes, snap
<1>6. \A d \in MintCalls : d # c => CallerOf[d] # p /\ CallerOf[d] \in Users
  BY PrincipalsAssumption DEF OneMintEach, p
<1>7. /\ \A d \in MintCalls : d # c => mints'[d] = mints[d]
      /\ mints'[c].pc \in {"idle", "mint"}
      /\ mints'[c].pc = "mint" =>
           /\ mints'[c].cur \in todo /\ mints'[c].todo = todo \ {mints'[c].cur}
           /\ mints'[c].snap = snap
  <2>1. CASE mints' = [mints EXCEPT ![c] = IdleMint]
    BY <2>1 DEF TypeOK, MintTypes, IdleMint
  <2>2. ASSUME NEW v \in todo, mints' = [mints EXCEPT ![c] =
                 [pc |-> "mint", todo |-> todo \ {v}, cur |-> v, snap |-> snap]]
        PROVE  <1>7
    BY <2>2 DEF TypeOK, MintTypes
  <2> QED BY <1>4, <2>1, <2>2
<1>8. LoopKnows'
  <2>1. ASSUME NEW d \in MintCalls, d # c
        PROVE  /\ mints'[d].pc # "idle" =>
                    \A v \in mints'[d].todo : utxos'[v].owner = CallerOf[d]
               /\ mints'[d].pc \in Minting =>
                    /\ mints'[d].cur \in DOMAIN utxos'
                    /\ utxos'[mints'[d].cur].owner = CallerOf[d]
                    /\ mints'[d].snap = minted_utxos'[CallerOf[d]]
                    /\ mints'[d].cur \notin mints'[d].snap \cup mints'[d].todo
                    /\ mints'[d].todo \cap mints'[d].snap = {}
    BY <1>1, <1>5, <1>6, <1>7, <2>1 DEF MintInv, LoopKnows
  <2>2. mints'[c].pc = "mint" =>
          /\ \A v \in mints'[c].todo : utxos'[v].owner = CallerOf[c]
          /\ mints'[c].cur \in DOMAIN utxos'
          /\ utxos'[mints'[c].cur].owner = CallerOf[c]
          /\ mints'[c].snap = minted_utxos'[CallerOf[c]]
          /\ mints'[c].cur \notin mints'[c].snap \cup mints'[c].todo
          /\ mints'[c].todo \cap mints'[c].snap = {}
    BY <1>1, <1>2, <1>5, <1>7 DEF p
  <2> QED BY <1>7, <2>1, <2>2 DEF LoopKnows, Minting
<1>9. MintsKnown'
  <2> SUFFICES ASSUME NEW i \in Entries("mint")
               PROVE  /\ log[i].utxo \in DOMAIN utxos
                      /\ utxos[log[i].utxo].owner = log[i].user
                      /\ \/ log[i].utxo \in minted_utxos'[log[i].user]
                         \/ \E d \in MintCalls : mints'[d].pc = "minted"
                                                 /\ mints'[d].cur = log[i].utxo
    BY <1>1 DEF MintsKnown, Entries
  <2>0. log[i].user \in Users
    <3>1. log[i] \in Entry
      BY DEF TypeOK, WorldTypes, Entries
    <3> QED BY <3>1 DEF Entry
  <2>1. CASE log[i].utxo = u
    BY <1>2, <1>5, <2>1 DEF MintInv, MintsKnown
  <2>2. CASE log[i].utxo # u
    BY <1>5, <1>7, <2>0, <2>2 DEF MintInv, MintsKnown, u
  <2> QED BY <2>1, <2>2
<1>10. NoDoubleMint'
  BY <1>1 DEF MintInv, NoDoubleMint, Entries
<1> QED BY <1>8, <1>9, <1>10 DEF MintInv

LEMMA NextMint ==
  ASSUME OneMintEach, TypeOK, MintInv, [Next]_vars PROVE MintInv'
<1>1. ASSUME NEW c \in MintCalls, MintStart(c) \/ MintAnswers(c) \/ MintSteps(c)
      PROVE  MintInv'
  BY <1>1, MintStartOnce, MintListedOnce, MintRefusals, LedgerMintOnce, MintMintedOnce
     DEF MintAnswers, MintSteps
<1>2. ASSUME NEW c \in BurnCalls, LedgerBurn(c) PROVE MintInv'
  <2> DEFINE e == [op |-> "burn", user |-> CallerOf[c],
                   amount |-> burns[c].amount, utxo |-> 0]
  <2>1. log' = Append(log, e) /\ e.op # "mint" /\ UNCHANGED <<mints, minted_utxos>>
    BY <1>2 DEF LedgerBurn, stores
  <2> HIDE DEF e
  <2>2. Entries("mint")' = Entries("mint") \cup (IF e.op = "mint" THEN {Len(log) + 1} ELSE {})
    BY <2>1, EntriesAppend DEF TypeOK
  <2>3. \A i \in Entries("mint") : log'[i] = log[i]
    BY <2>1, EntriesAppend DEF TypeOK
  <2> QED BY <2>1, <2>2, <2>3, OwnersStay, MintsStay
<1>3. CASE UNCHANGED <<mints, minted_utxos, log>>
  <2>1. Entries("mint")' = Entries("mint")
    BY <1>3 DEF Entries
  <2> QED BY <1>3, <2>1, OwnersStay, MintsStay
<1> QED BY <1>1, <1>2, <1>3 DEF Next, BurnAnswers, BurnSteps,
        TxAnswers, FinalizeSteps, BurnStart, RetryStart, LedgerRefusesBurn,
        PayoutFails, SendTx, BurnBalance, BurnBurned, BurnSent, BurnUnsent, FinalizeStart,
        TxStatus, TxStatusFails, FinalizeMined, FinalizeUnmined, FinalizeDropped,
        CollectStart, CollectListed, Deposit, NewBlock, Reorg, stores, calls, ledger, vars

\* No UTXO is minted twice as long as no principal has two mint_ckdoge open.
THEOREM MintedOnce == ASSUME OneMintEach PROVE Spec => []NoDoubleMint
<1>1. Init => MintInv
  BY DEF Init, InitCanister, InitWorld, IdleMint, MintInv, LoopKnows, MintsKnown,
     NoDoubleMint, Entries, Minting
<1>2. TypeOK /\ MintInv /\ [Next]_vars => MintInv'
  BY NextMint
<1>3. MintInv => NoDoubleMint
  BY DEF MintInv
<1> QED BY <1>1, <1>2, <1>3, TypeCorrect, PTL DEF Spec

-----------------------------------------------------------------------------
(* AccountsMatchLedger: the inductive invariant *)

\* The calls whose answer is on its way, and what the ledger did for them.
MintedBy    == {c \in MintCalls : mints[c].pc = "minted"}
BurnedBy    == {c \in BurnCalls : burns[c].pc = "burned"}
MintValue   == [c \in MintedBy |-> utxos[mints[c].cur].value]
BurnAmount  == [c \in BurnedBy |-> burns[c].amount]
EntryAmount == [i \in DOMAIN log |-> log[i].amount]

MintAccount == /\ IsFiniteSet(MintedBy)
               /\ Sum(EntryAmount, Entries("mint")) = tokens_minted + Sum(MintValue, MintedBy)
BurnAccount == /\ IsFiniteSet(BurnedBy)
               /\ Sum(EntryAmount, Entries("burn")) = tokens_burned + Sum(BurnAmount, BurnedBy)
Accounts == MintAccount /\ BurnAccount

-----------------------------------------------------------------------------
(* Accounts is AccountsMatchLedger *)

LEMMA EntriesSum ==
  ASSUME NEW op PROVE LogSum(Entries(op)) = Sum(EntryAmount, Entries(op))
<1>1. Entries(op) \subseteq DOMAIN log
  BY DEF Entries
<1>2. LogSum(Entries(op)) = Sum([i \in Entries(op) |-> log[i].amount], Entries(op))
  BY <1>1, LogIsSum
<1>3. \A i \in Entries(op) : [j \in Entries(op) |-> log[j].amount][i] = EntryAmount[i]
  BY <1>1 DEF EntryAmount
<1>4. Sum([i \in Entries(op) |-> log[i].amount], Entries(op)) = Sum(EntryAmount, Entries(op))
  BY <1>3, SumSame
<1> QED BY <1>2, <1>4

LEMMA MintedSum ==
  MapThenSumSet(LAMBDA c : utxos[mints[c].cur].value, MintedBy) = Sum(MintValue, MintedBy)
<1> DEFINE S == MintedBy
           P(g) == g = [s \in SUBSET S |->
                     IF s = {} THEN 0
                     ELSE utxos[mints[CHOOSE x \in s : TRUE].cur].value
                            + g[s \ {CHOOSE x \in s : TRUE}]]
           Q(g) == g = [s \in SUBSET S |->
                     IF s = {} THEN 0
                     ELSE MintValue[CHOOSE x \in s : TRUE]
                            + g[s \ {CHOOSE x \in s : TRUE}]]
<1>1. MapThenSumSet(LAMBDA c : utxos[mints[c].cur].value, S) = (CHOOSE g : P(g))[S]
  BY DEF MapThenSumSet, MapThenFoldSet
<1>2. Sum(MintValue, S) = (CHOOSE g : Q(g))[S]
  BY DEF Sum, MapThenSumSet, MapThenFoldSet
<1>3. \A s \in SUBSET S : s # {} =>
        MintValue[CHOOSE x \in s : TRUE] = utxos[mints[CHOOSE x \in s : TRUE].cur].value
  BY DEF MintValue
<1>4. \A g : P(g) <=> Q(g)
  BY <1>3
<1>5. (CHOOSE g : P(g)) = (CHOOSE g : Q(g))
  <2> HIDE DEF P, Q
  <2> QED BY <1>4
<1> QED BY <1>1, <1>2, <1>5

LEMMA BurnedSum ==
  MapThenSumSet(LAMBDA c : burns[c].amount, BurnedBy) = Sum(BurnAmount, BurnedBy)
<1> DEFINE S == BurnedBy
           P(g) == g = [s \in SUBSET S |->
                     IF s = {} THEN 0
                     ELSE burns[CHOOSE x \in s : TRUE].amount
                            + g[s \ {CHOOSE x \in s : TRUE}]]
           Q(g) == g = [s \in SUBSET S |->
                     IF s = {} THEN 0
                     ELSE BurnAmount[CHOOSE x \in s : TRUE]
                            + g[s \ {CHOOSE x \in s : TRUE}]]
<1>1. MapThenSumSet(LAMBDA c : burns[c].amount, S) = (CHOOSE g : P(g))[S]
  BY DEF MapThenSumSet, MapThenFoldSet
<1>2. Sum(BurnAmount, S) = (CHOOSE g : Q(g))[S]
  BY DEF Sum, MapThenSumSet, MapThenFoldSet
<1>3. \A s \in SUBSET S : s # {} =>
        BurnAmount[CHOOSE x \in s : TRUE] = burns[CHOOSE x \in s : TRUE].amount
  BY DEF BurnAmount
<1>4. \A g : P(g) <=> Q(g)
  BY <1>3
<1>5. (CHOOSE g : P(g)) = (CHOOSE g : Q(g))
  <2> HIDE DEF P, Q
  <2> QED BY <1>4
<1> QED BY <1>1, <1>2, <1>5

LEMMA AccountsMean == ASSUME Accounts PROVE AccountsMatchLedger
  BY EntriesSum, MintedSum, BurnedSum
     DEF Accounts, MintAccount, BurnAccount, AccountsMatchLedger, MintedBy, BurnedBy

-----------------------------------------------------------------------------
(* How the sums change *)

LEMMA EntryTypes ==
  ASSUME WorldTypes, NEW op
  PROVE  /\ IsFiniteSet(Entries(op)) /\ Entries(op) \subseteq DOMAIN log
         /\ \A i \in DOMAIN log : EntryAmount[i] = log[i].amount /\ EntryAmount[i] \in Nat
<1>1. /\ DOMAIN log = 1..Len(log) /\ Len(log) \in Nat
      /\ \A i \in DOMAIN log : log[i] \in Entry
  BY DEF WorldTypes
<1>2. Entries(op) \subseteq DOMAIN log /\ IsFiniteSet(1..Len(log))
  BY <1>1, FS_Interval DEF Entries
<1> QED BY <1>1, <1>2, FS_Subset DEF EntryAmount, Entry

LEMMA EntrySum ==
  ASSUME TypeOK, TypeOK', NEW e, log' = Append(log, e), NEW op
  PROVE  Sum(EntryAmount', Entries(op)') =
           Sum(EntryAmount, Entries(op)) + (IF e.op = op THEN e.amount ELSE 0)
<1> DEFINE n == Len(log) + 1
           E == Entries(op)
<1>1. /\ Entries(op)' = E \cup (IF e.op = op THEN {n} ELSE {})
      /\ n \notin E /\ log'[n] = e /\ Len(log') = n
      /\ \A i \in E : log'[i] = log[i]
  BY EntriesAppend DEF TypeOK
<1>2. /\ \A i \in E : EntryAmount'[i] = EntryAmount[i] /\ EntryAmount[i] \in Nat
      /\ EntryAmount'[n] = e.amount /\ e.amount \in Nat /\ IsFiniteSet(E)
  <2>0. /\ IsFiniteSet(E) /\ E \subseteq DOMAIN log
        /\ \A i \in DOMAIN log : EntryAmount[i] = log[i].amount /\ EntryAmount[i] \in Nat
    BY EntryTypes DEF TypeOK
  <2>1. DOMAIN log' = 1..n /\ n \in 1..n /\ DOMAIN log \subseteq 1..n
    <3>1. /\ DOMAIN log = 1..Len(log) /\ Len(log) \in Nat
          /\ DOMAIN log' = 1..Len(log')
      BY DEF TypeOK, WorldTypes
    <3> QED BY <1>1, <3>1
  <2>2. \A i \in DOMAIN log' : EntryAmount'[i] = log'[i].amount
    BY DEF EntryAmount
  <2>3. log'[n] \in Entry'
    <3>1. log' \in Seq(Entry')
      BY DEF TypeOK, WorldTypes
    <3> QED BY <2>1, <3>1
  <2> QED BY <1>1, <2>0, <2>1, <2>2, <2>3 DEF Entry
<1>3. Sum(EntryAmount', E) = Sum(EntryAmount, E) /\ Sum(EntryAmount, E) \in Nat
  <2>1. Sum(EntryAmount', E) = Sum(EntryAmount, E)
    BY <1>2, SumSame
  <2> QED BY <1>2, <2>1, SumInNat
<1>4. Sum(EntryAmount', E \cup {n}) = e.amount + Sum(EntryAmount', E)
  <2> DEFINE f == EntryAmount'
  <2>1. \A i \in E \cup {n} : f[i] \in Nat
    BY <1>2
  <2>2. n \notin E /\ IsFiniteSet(E) /\ f[n] = e.amount
    BY <1>1, <1>2
  <2> HIDE DEF f, E, n
  <2>3. Sum(f, E \cup {n}) = f[n] + Sum(f, E)
    BY <2>1, <2>2, SumAdd
  <2> QED BY <2>2, <2>3 DEF f
<1> HIDE DEF n
<1>5. CASE e.op = op
  BY <1>1, <1>2, <1>3, <1>4, <1>5
<1>6. CASE e.op # op
  BY <1>1, <1>3, <1>6
<1> QED BY <1>5, <1>6

\* The open mints and the open burns as the state has them.
LEMMA OpenTypes ==
  ASSUME TypeOK
  PROVE  /\ \A c \in MintedBy : /\ MintValue[c] = utxos[mints[c].cur].value
                                /\ mints[c].cur \in DOMAIN utxos /\ MintValue[c] \in Nat
         /\ \A c \in BurnedBy : BurnAmount[c] = burns[c].amount /\ BurnAmount[c] \in Nat
<1>1. \A c \in MintedBy : c \in MintCalls /\ mints[c].cur \in DOMAIN utxos
  BY DEF TypeOK, MintTypes, OpenCalls, MintedBy
<1>2. \A c \in BurnedBy : c \in BurnCalls /\ burns[c].amount \in Nat
  BY DEF TypeOK, BurnTypes, BurnedBy
<1>3. \A u \in DOMAIN utxos : utxos[u].value \in Nat
  BY UtxoTypes DEF TypeOK
<1> QED BY <1>1, <1>2, <1>3 DEF MintValue, BurnAmount

\* A step that neither the ledger nor an answer of its takes.
LEMMA MintQuiet ==
  ASSUME TypeOK, TypeOK', [Next]_vars, MintAccount, MintedBy' = MintedBy, UNCHANGED tokens_minted,
         \A c \in MintedBy : mints'[c].cur = mints[c].cur,
         Sum(EntryAmount', Entries("mint")') = Sum(EntryAmount, Entries("mint"))
  PROVE  MintAccount'
<1>1. \A c \in MintedBy : MintValue'[c] = MintValue[c]
  <2>1. \A c \in MintedBy : MintValue'[c] = utxos'[mints'[c].cur].value
    BY DEF MintValue
  <2> QED BY <2>1, OpenTypes, OwnersStay
<1>2. Sum(MintValue', MintedBy) = Sum(MintValue, MintedBy)
  BY <1>1, SumSame
<1> QED BY <1>2 DEF MintAccount

LEMMA BurnQuiet ==
  ASSUME BurnAccount, BurnedBy' = BurnedBy, UNCHANGED tokens_burned,
         \A c \in BurnedBy : burns'[c].amount = burns[c].amount,
         Sum(EntryAmount', Entries("burn")') = Sum(EntryAmount, Entries("burn"))
  PROVE  BurnAccount'
<1>1. \A c \in BurnedBy : BurnAmount'[c] = BurnAmount[c]
  BY DEF BurnAmount
<1>2. Sum(BurnAmount', BurnedBy) = Sum(BurnAmount, BurnedBy)
  BY <1>1, SumSame
<1> QED BY <1>2 DEF BurnAccount

LEMMA SumLog ==
  ASSUME log' = log, NEW op
  PROVE  Sum(EntryAmount', Entries(op)') = Sum(EntryAmount, Entries(op))
  BY DEF EntryAmount, Entries

-----------------------------------------------------------------------------
(* The four steps that change an account *)

LEMMA LedgerMintAccount ==
  ASSUME TypeOK, TypeOK', MintAccount, NEW c \in MintCalls, LedgerMint(c)
  PROVE  MintAccount'
<1> DEFINE v == utxos[mints[c].cur].value
           e == [op |-> "mint", user |-> CallerOf[c], amount |-> v, utxo |-> mints[c].cur]
<1>1. /\ mints[c].pc = "mint" /\ mints' = [mints EXCEPT ![c].pc = "minted"]
      /\ log' = Append(log, e) /\ e.op = "mint" /\ e.amount = v
      /\ UNCHANGED <<utxos, tokens_minted>>
  BY DEF LedgerMint, chain, tokens
<1> HIDE DEF e
<1>2. Sum(EntryAmount', Entries("mint")') = Sum(EntryAmount, Entries("mint")) + v
  BY <1>1, EntrySum
<1>3. /\ mints'[c].pc = "minted" /\ mints'[c].cur = mints[c].cur
      /\ \A d \in MintCalls : d # c => mints'[d] = mints[d]
  BY <1>1 DEF TypeOK, MintTypes
<1>4. MintedBy' = MintedBy \cup {c} /\ c \notin MintedBy
  BY <1>1, <1>3 DEF MintedBy
<1>5. /\ MintValue'[c] = v /\ v \in Nat
      /\ \A d \in MintedBy : MintValue'[d] = MintValue[d] /\ MintValue[d] \in Nat
  <2>1. \A d \in MintedBy' : MintValue'[d] = utxos'[mints'[d].cur].value /\ MintValue'[d] \in Nat
    <3>1. \A d \in MintedBy' : MintValue'[d] = utxos'[mints'[d].cur].value
      BY DEF MintValue
    <3>2. \A u \in DOMAIN utxos : utxos[u].value \in Nat
      BY UtxoTypes DEF TypeOK
    <3>3. mints[c].cur \in DOMAIN utxos
      BY <1>1 DEF TypeOK, MintTypes, OpenCalls
    <3> QED BY <1>1, <1>3, <1>4, <3>1, <3>2, <3>3, OpenTypes DEF MintedBy
  <2> QED BY <1>1, <1>3, <1>4, <2>1, OpenTypes DEF MintedBy
<1>6. Sum(MintValue', MintedBy \cup {c}) = v + Sum(MintValue, MintedBy)
  <2> DEFINE f == MintValue'
             M == MintedBy
  <2>1. /\ \A d \in M \cup {c} : f[d] \in Nat
        /\ c \notin M /\ IsFiniteSet(M) /\ f[c] = v
        /\ \A d \in M : f[d] = MintValue[d]
    BY <1>4, <1>5 DEF MintAccount
  <2> HIDE DEF f, M
  <2>2. Sum(f, M \cup {c}) = f[c] + Sum(f, M)
    BY <2>1, SumAdd
  <2>3. Sum(f, M) = Sum(MintValue, M)
    BY <2>1, SumSame
  <2> QED BY <2>1, <2>2, <2>3 DEF f, M
<1>7. /\ IsFiniteSet(MintedBy) /\ tokens_minted \in Nat /\ Sum(MintValue, MintedBy) \in Nat
  BY <1>5, SumInNat DEF MintAccount, TypeOK, StoreTypes
<1>8. IsFiniteSet(MintedBy')
  BY <1>4, <1>7, FS_AddElement
<1> HIDE DEF v
<1> QED BY <1>1, <1>2, <1>4, <1>5, <1>6, <1>7, <1>8 DEF MintAccount

LEMMA MintMintedAccount ==
  ASSUME TypeOK, MintAccount, NEW c \in MintCalls, MintMinted(c)
  PROVE  MintAccount'
<1> DEFINE v == utxos[mints[c].cur].value
<1>1. /\ mints[c].pc = "minted" /\ UNCHANGED <<utxos, log>>
      /\ tokens_minted' = tokens_minted + v
  BY DEF MintMinted, MintedNow, chain, ledger
<1>2. /\ mints'[c].pc # "minted"
      /\ \A d \in MintCalls : d # c => mints'[d] = mints[d]
  <2>1. CASE mints' = [mints EXCEPT ![c] = IdleMint]
    BY <2>1 DEF IdleMint, TypeOK, MintTypes
  <2>2. ASSUME NEW todo, NEW cur, NEW snap,
               mints' = [mints EXCEPT ![c] = [pc |-> "mint", todo |-> todo, cur |-> cur,
                                              snap |-> snap]]
        PROVE  <1>2
    BY <2>2 DEF TypeOK, MintTypes
  <2> QED BY <2>1, <2>2 DEF MintMinted, MintDone, MintNext
<1>3. MintedBy' = MintedBy \ {c} /\ c \in MintedBy
  BY <1>1, <1>2 DEF MintedBy
<1>4. /\ MintValue[c] = v
      /\ \A d \in MintedBy : MintValue[d] \in Nat
      /\ \A d \in MintedBy \ {c} : MintValue'[d] = MintValue[d]
  <2>1. \A d \in MintedBy' : MintValue'[d] = utxos'[mints'[d].cur].value
    BY DEF MintValue
  <2>2. \A d \in MintedBy \ {c} : mints'[d] = mints[d]
    BY <1>2 DEF MintedBy
  <2> QED BY <1>1, <1>3, <2>1, <2>2, OpenTypes
<1>5. Sum(MintValue, MintedBy) = v + Sum(MintValue', MintedBy')
  <2>1. Sum(MintValue, MintedBy) = MintValue[c] + Sum(MintValue, MintedBy \ {c})
    BY <1>3, <1>4, SumRemove DEF MintAccount
  <2>2. Sum(MintValue', MintedBy \ {c}) = Sum(MintValue, MintedBy \ {c})
    BY <1>4, SumSame
  <2> QED BY <1>3, <1>4, <2>1, <2>2
<1>6. /\ IsFiniteSet(MintedBy') /\ v \in Nat /\ tokens_minted \in Nat
      /\ Sum(MintValue', MintedBy') \in Nat
  <2>1. IsFiniteSet(MintedBy')
    BY <1>3, FS_Subset DEF MintAccount
  <2>2. \A d \in MintedBy' : MintValue'[d] \in Nat
    BY <1>3, <1>4
  <2> QED BY <1>3, <1>4, <2>1, <2>2, SumInNat DEF TypeOK, StoreTypes
<1>7. Sum(EntryAmount', Entries("mint")') = Sum(EntryAmount, Entries("mint"))
  BY <1>1, SumLog
<1> HIDE DEF v
<1> QED BY <1>1, <1>5, <1>6, <1>7 DEF MintAccount

LEMMA LedgerBurnAccount ==
  ASSUME TypeOK, TypeOK', BurnAccount, NEW c \in BurnCalls, LedgerBurn(c)
  PROVE  BurnAccount'
<1> DEFINE v == burns[c].amount
           e == [op |-> "burn", user |-> CallerOf[c], amount |-> v, utxo |-> 0]
<1>1. /\ burns[c].pc = "burn"
      /\ burns' = [burns EXCEPT ![c] = [@ EXCEPT !.pc = "burned", !.block = Len(log)]]
      /\ log' = Append(log, e) /\ e.op = "burn" /\ e.amount = v
      /\ UNCHANGED tokens_burned
  BY DEF LedgerBurn, tokens
<1> HIDE DEF e
<1>2. Sum(EntryAmount', Entries("burn")') = Sum(EntryAmount, Entries("burn")) + v
  BY <1>1, EntrySum
<1>3. /\ burns'[c].pc = "burned" /\ burns'[c].amount = v
      /\ \A d \in BurnCalls : d # c => burns'[d] = burns[d]
  BY <1>1 DEF TypeOK, BurnTypes
<1>4. BurnedBy' = BurnedBy \cup {c} /\ c \notin BurnedBy
  BY <1>1, <1>3 DEF BurnedBy
<1>5. /\ BurnAmount'[c] = v /\ v \in Nat
      /\ \A d \in BurnedBy : BurnAmount'[d] = BurnAmount[d] /\ BurnAmount[d] \in Nat
  <2>1. \A d \in BurnedBy' : BurnAmount'[d] = burns'[d].amount
    BY DEF BurnAmount
  <2>2. v \in Nat
    BY DEF TypeOK, BurnTypes
  <2> QED BY <1>3, <1>4, <2>1, <2>2, OpenTypes DEF BurnedBy
<1>6. Sum(BurnAmount', BurnedBy \cup {c}) = v + Sum(BurnAmount, BurnedBy)
  <2> DEFINE f == BurnAmount'
             M == BurnedBy
  <2>1. /\ \A d \in M \cup {c} : f[d] \in Nat
        /\ c \notin M /\ IsFiniteSet(M) /\ f[c] = v
        /\ \A d \in M : f[d] = BurnAmount[d]
    BY <1>4, <1>5 DEF BurnAccount
  <2> HIDE DEF f, M
  <2>2. Sum(f, M \cup {c}) = f[c] + Sum(f, M)
    BY <2>1, SumAdd
  <2>3. Sum(f, M) = Sum(BurnAmount, M)
    BY <2>1, SumSame
  <2> QED BY <2>1, <2>2, <2>3 DEF f, M
<1>7. /\ IsFiniteSet(BurnedBy) /\ tokens_burned \in Nat /\ Sum(BurnAmount, BurnedBy) \in Nat
  BY <1>5, SumInNat DEF BurnAccount, TypeOK, StoreTypes
<1>8. IsFiniteSet(BurnedBy')
  BY <1>4, <1>7, FS_AddElement
<1> HIDE DEF v
<1> QED BY <1>1, <1>2, <1>4, <1>5, <1>6, <1>7, <1>8 DEF BurnAccount

LEMMA BurnBurnedAccount ==
  ASSUME TypeOK, BurnAccount, NEW c \in BurnCalls, BurnBurned(c)
  PROVE  BurnAccount'
<1> DEFINE v == burns[c].amount
<1>1. /\ burns[c].pc = "burned" /\ UNCHANGED log /\ tokens_burned' = tokens_burned + v
      /\ burns' = [burns EXCEPT ![c].pc = "sign"]
  BY DEF BurnBurned, ledger
<1>2. /\ burns'[c].pc # "burned"
      /\ \A d \in BurnCalls : d # c => burns'[d] = burns[d]
  BY <1>1 DEF TypeOK, BurnTypes
<1>3. BurnedBy' = BurnedBy \ {c} /\ c \in BurnedBy
  BY <1>1, <1>2 DEF BurnedBy
<1>4. /\ BurnAmount[c] = v
      /\ \A d \in BurnedBy : BurnAmount[d] \in Nat
      /\ \A d \in BurnedBy \ {c} : BurnAmount'[d] = BurnAmount[d]
  <2>1. \A d \in BurnedBy' : BurnAmount'[d] = burns'[d].amount
    BY DEF BurnAmount
  <2>2. \A d \in BurnedBy \ {c} : burns'[d] = burns[d]
    BY <1>2 DEF BurnedBy
  <2> QED BY <1>1, <1>3, <2>1, <2>2, OpenTypes
<1>5. Sum(BurnAmount, BurnedBy) = v + Sum(BurnAmount', BurnedBy')
  <2>1. Sum(BurnAmount, BurnedBy) = BurnAmount[c] + Sum(BurnAmount, BurnedBy \ {c})
    BY <1>3, <1>4, SumRemove DEF BurnAccount
  <2>2. Sum(BurnAmount', BurnedBy \ {c}) = Sum(BurnAmount, BurnedBy \ {c})
    BY <1>4, SumSame
  <2> QED BY <1>3, <1>4, <2>1, <2>2
<1>6. /\ IsFiniteSet(BurnedBy') /\ v \in Nat /\ tokens_burned \in Nat
      /\ Sum(BurnAmount', BurnedBy') \in Nat
  <2>1. IsFiniteSet(BurnedBy')
    BY <1>3, FS_Subset DEF BurnAccount
  <2>2. \A d \in BurnedBy' : BurnAmount'[d] \in Nat
    BY <1>3, <1>4
  <2> QED BY <1>3, <1>4, <2>1, <2>2, SumInNat DEF TypeOK, StoreTypes
<1>7. Sum(EntryAmount', Entries("burn")') = Sum(EntryAmount, Entries("burn"))
  BY <1>1, SumLog
<1> HIDE DEF v
<1> QED BY <1>1, <1>5, <1>6, <1>7 DEF BurnAccount

-----------------------------------------------------------------------------
(* Every other step leaves the accounts alone *)

QuietMint(c) == \/ MintStart(c) \/ MintListed(c)
                \/ LedgerRefusesMint(c) \/ MintRefused(c)
QuietBurn(c) == \/ \E amount \in Amounts : BurnStart(c, amount)
                \/ \E b \in DOMAIN burning_utxos : RetryStart(c, b)
                \/ BurnBalance(c) \/ LedgerRefusesBurn(c) \/ PayoutFails(c)
                \/ SendTx(c) \/ BurnSent(c) \/ BurnUnsent(c)

LEMMA QuietMintSteps ==
  ASSUME TypeOK, NEW c \in MintCalls, QuietMint(c)
  PROVE  /\ MintedBy' = MintedBy /\ \A d \in MintedBy : mints'[d].cur = mints[d].cur
         /\ UNCHANGED <<log, tokens_minted, tokens_burned, burns>>
<1>0. UNCHANGED <<log, tokens_minted, tokens_burned, burns>>
  BY DEF QuietMint, MintStart, MintListed, LedgerRefusesMint, MintRefused, MintDone,
         tokens, ledger
<1>1. \E r : mints' = [mints EXCEPT ![c] = r] /\ r.pc # "minted"
  <2> DEFINE r0 == [IdleMint EXCEPT !.pc = "listed", !.todo = ListUtxos(CallerOf[c])]
  <2>1. CASE MintStart(c)
    <3>1. mints' = [mints EXCEPT ![c] = r0] /\ r0.pc = "listed"
      BY <2>1 DEF MintStart, IdleMint
    <3> QED BY <3>1
  <2>2. CASE MintListed(c)
    BY <2>2 DEF MintListed, MintNext, IdleMint
  <2>3. CASE LedgerRefusesMint(c)
    <3>1. mints' = [mints EXCEPT ![c] = [mints[c] EXCEPT !.pc = "refused"]]
      BY <2>3 DEF LedgerRefusesMint
    <3>2. [mints[c] EXCEPT !.pc = "refused"].pc = "refused"
      BY DEF TypeOK, MintTypes
    <3> QED BY <3>1, <3>2
  <2>4. CASE MintRefused(c)
    <3>1. mints' = [mints EXCEPT ![c] = IdleMint] /\ IdleMint.pc # "minted"
      BY <2>4 DEF MintRefused, MintDone, IdleMint
    <3> QED BY <3>1
  <2> QED BY <2>1, <2>2, <2>3, <2>4 DEF QuietMint
<1>2. mints[c].pc # "minted"
  BY DEF QuietMint, MintStart, MintListed, LedgerRefusesMint, MintRefused
<1>3. /\ mints'[c].pc # "minted"
      /\ \A d \in MintCalls : d # c => mints'[d] = mints[d]
  BY <1>1 DEF TypeOK, MintTypes
<1>4. MintedBy' = MintedBy
  BY <1>2, <1>3 DEF MintedBy
<1> QED BY <1>0, <1>2, <1>3, <1>4 DEF MintedBy

LEMMA QuietBurnSteps ==
  ASSUME TypeOK, NEW c \in BurnCalls, QuietBurn(c)
  PROVE  /\ BurnedBy' = BurnedBy /\ \A d \in BurnedBy : burns'[d].amount = burns[d].amount
         /\ UNCHANGED <<log, tokens_minted, tokens_burned, mints>>
<1>0. UNCHANGED <<log, tokens_minted, tokens_burned, mints>>
  BY DEF QuietBurn, BurnStart, RetryStart, BurnBalance, LedgerRefusesBurn, PayoutFails,
         SendTx, BurnSent, BurnUnsent, tokens, ledger
<1> DEFINE Others == /\ burns'[c].pc # "burned"
                     /\ \A d \in BurnCalls : d # c => burns'[d] = burns[d]
<1>1. burns[c].pc # "burned"
  BY DEF QuietBurn, BurnStart, RetryStart, BurnBalance, LedgerRefusesBurn, PayoutFails,
         SendTx, BurnSent, BurnUnsent
<1>2. Others
  <2> USE DEF TypeOK, BurnTypes
  <2>1. ASSUME NEW amount \in Amounts, BurnStart(c, amount) PROVE Others
    BY <2>1 DEF BurnStart, IdleBurn
  <2>2. ASSUME NEW b, RetryStart(c, b) PROVE Others
    BY <2>2 DEF RetryStart, IdleBurn
  <2>3. CASE BurnBalance(c)
    <3> DEFINE r == [burns[c] EXCEPT !.pc = "burn", !.utxos = SelectUtxos(burns[c].amount)]
    <3>1. CASE burns' = [burns EXCEPT ![c] = r]
      <4>1. r.pc # "burned"
        OBVIOUS
      <4> HIDE DEF r
      <4> QED BY <3>1, <4>1
    <3>2. CASE burns' = [burns EXCEPT ![c] = IdleBurn]
      BY <3>2 DEF IdleBurn
    <3>3. \/ burns' = [burns EXCEPT ![c] = r]
          \/ burns' = [burns EXCEPT ![c] = IdleBurn]
      BY <2>3 DEF BurnBalance
    <3> QED BY <3>1, <3>2, <3>3
  <2>4. CASE LedgerRefusesBurn(c)
    BY <2>4 DEF LedgerRefusesBurn, IdleBurn
  <2>5. CASE PayoutFails(c)
    BY <2>5 DEF PayoutFails
  <2>6. CASE SendTx(c)
    BY <2>6 DEF SendTx
  <2>7. CASE BurnSent(c) \/ BurnUnsent(c)
    BY <2>7 DEF BurnSent, BurnUnsent, IdleBurn
  <2> QED BY <2>1, <2>2, <2>3, <2>4, <2>5, <2>6, <2>7 DEF QuietBurn
<1>3. BurnedBy' = BurnedBy
  BY <1>1, <1>2 DEF BurnedBy
<1> QED BY <1>0, <1>1, <1>2, <1>3 DEF BurnedBy

\* The steps of the timers and of the world.
LEMMA OtherSteps ==
  ASSUME [Next]_vars,
         \A c \in MintCalls : ~(MintStart(c) \/ MintAnswers(c) \/ MintSteps(c)),
         \A c \in BurnCalls : /\ ~(BurnAnswers(c) \/ BurnSteps(c))
                              /\ ~\E amount \in Amounts : BurnStart(c, amount)
                              /\ ~\E b \in DOMAIN burning_utxos : RetryStart(c, b)
  PROVE  UNCHANGED <<log, tokens_minted, tokens_burned, mints, burns>>
<1> USE DEF tokens, calls, ledger, vars
<1>1. ASSUME NEW c \in FinalizeCalls, FinalizeStart(c) \/ TxAnswers(c) \/ FinalizeSteps(c)
      PROVE  UNCHANGED <<log, tokens_minted, tokens_burned, mints, burns>>
  BY <1>1 DEF FinalizeStart, TxAnswers, TxStatus, TxStatusFails, FinalizeSteps,
              FinalizeMined, FinalizeUnmined, FinalizeDropped
<1>2. ASSUME NEW c \in CollectCalls, CollectStart(c) \/ CollectListed(c)
      PROVE  UNCHANGED <<log, tokens_minted, tokens_burned, mints, burns>>
  BY <1>2 DEF CollectStart, CollectListed
<1>3. ASSUME (\E p \in Users, v \in Values : Deposit(p, v)) \/ NewBlock \/ Reorg
      PROVE  UNCHANGED <<log, tokens_minted, tokens_burned, mints, burns>>
  BY <1>3 DEF Deposit, NewBlock, Reorg
<1> QED BY <1>1, <1>2, <1>3 DEF Next

LEMMA NextAccounts == TypeOK /\ TypeOK' /\ [Next]_vars /\ Accounts => Accounts'
<1> SUFFICES ASSUME TypeOK, TypeOK', [Next]_vars, Accounts PROVE Accounts'
  OBVIOUS
<1>0. MintAccount /\ BurnAccount
  BY DEF Accounts
<1>1. ASSUME NEW c \in MintCalls, QuietMint(c) PROVE Accounts'
  <2>1. BurnedBy' = BurnedBy
    BY <1>1, QuietMintSteps DEF BurnedBy
  <2>2. MintAccount'
    BY <1>0, <1>1, QuietMintSteps, SumLog, MintQuiet
  <2>3. BurnAccount'
    BY <1>0, <1>1, <2>1, QuietMintSteps, SumLog, BurnQuiet
  <2> QED BY <2>2, <2>3 DEF Accounts
<1>2. ASSUME NEW c \in BurnCalls, QuietBurn(c) PROVE Accounts'
  <2>1. MintedBy' = MintedBy
    BY <1>2, QuietBurnSteps DEF MintedBy
  <2>2. MintAccount'
    BY <1>0, <1>2, <2>1, QuietBurnSteps, SumLog, MintQuiet
  <2>3. BurnAccount'
    BY <1>0, <1>2, QuietBurnSteps, SumLog, BurnQuiet
  <2> QED BY <2>2, <2>3 DEF Accounts
<1>3. ASSUME NEW c \in MintCalls, LedgerMint(c) PROVE Accounts'
  <2> DEFINE e == [op |-> "mint", user |-> CallerOf[c],
                   amount |-> utxos[mints[c].cur].value, utxo |-> mints[c].cur]
  <2>1. /\ log' = Append(log, e) /\ e.op # "burn"
        /\ UNCHANGED <<burns, tokens_burned>>
    BY <1>3 DEF LedgerMint, tokens
  <2> HIDE DEF e
  <2>2. Sum(EntryAmount', Entries("burn")') = Sum(EntryAmount, Entries("burn")) + 0
    BY <2>1, EntrySum
  <2>3. Sum(EntryAmount, Entries("burn")) \in Nat
    BY EntryTypes, SumInNat DEF TypeOK
  <2>4. BurnAccount'
    <3>1. BurnedBy' = BurnedBy /\ \A d \in BurnedBy : burns'[d].amount = burns[d].amount
      BY <2>1 DEF BurnedBy
    <3> QED BY <1>0, <2>1, <2>2, <2>3, <3>1, BurnQuiet
  <2> QED BY <1>0, <1>3, <2>4, LedgerMintAccount DEF Accounts
<1>4. ASSUME NEW c \in MintCalls, MintMinted(c) PROVE Accounts'
  <2>1. UNCHANGED <<burns, tokens_burned, log>>
    BY <1>4 DEF MintMinted, ledger
  <2>2. BurnedBy' = BurnedBy /\ \A d \in BurnedBy : burns'[d].amount = burns[d].amount
    BY <2>1 DEF BurnedBy
  <2>3. BurnAccount'
    BY <1>0, <2>1, <2>2, SumLog, BurnQuiet
  <2> QED BY <1>0, <1>4, <2>3, MintMintedAccount DEF Accounts
<1>5. ASSUME NEW c \in BurnCalls, LedgerBurn(c) PROVE Accounts'
  <2> DEFINE e == [op |-> "burn", user |-> CallerOf[c], amount |-> burns[c].amount,
                   utxo |-> 0]
  <2>1. /\ log' = Append(log, e) /\ e.op # "mint"
        /\ UNCHANGED <<mints, tokens_minted>>
    BY <1>5 DEF LedgerBurn, tokens
  <2> HIDE DEF e
  <2>2. Sum(EntryAmount', Entries("mint")') = Sum(EntryAmount, Entries("mint")) + 0
    BY <2>1, EntrySum
  <2>3. Sum(EntryAmount, Entries("mint")) \in Nat
    BY EntryTypes, SumInNat DEF TypeOK
  <2>4. MintAccount'
    <3>1. MintedBy' = MintedBy /\ \A d \in MintedBy : mints'[d].cur = mints[d].cur
      BY <2>1 DEF MintedBy
    <3> QED BY <1>0, <2>1, <2>2, <2>3, <3>1, MintQuiet
  <2> QED BY <1>0, <1>5, <2>4, LedgerBurnAccount DEF Accounts
<1>6. ASSUME NEW c \in BurnCalls, BurnBurned(c) PROVE Accounts'
  <2>1. UNCHANGED <<mints, tokens_minted, log>>
    BY <1>6 DEF BurnBurned, ledger
  <2>2. MintedBy' = MintedBy /\ \A d \in MintedBy : mints'[d].cur = mints[d].cur
    BY <2>1 DEF MintedBy
  <2>3. MintAccount'
    BY <1>0, <2>1, <2>2, SumLog, MintQuiet
  <2> QED BY <1>0, <1>6, <2>3, BurnBurnedAccount DEF Accounts
<1>7. CASE UNCHANGED <<log, tokens_minted, tokens_burned, mints, burns>>
  <2>1. /\ MintedBy' = MintedBy /\ \A d \in MintedBy : mints'[d].cur = mints[d].cur
        /\ BurnedBy' = BurnedBy /\ \A d \in BurnedBy : burns'[d].amount = burns[d].amount
    BY <1>7 DEF MintedBy, BurnedBy
  <2>2. MintAccount'
    BY <1>0, <1>7, <2>1, SumLog, MintQuiet
  <2>3. BurnAccount'
    BY <1>0, <1>7, <2>1, SumLog, BurnQuiet
  <2> QED BY <2>2, <2>3 DEF Accounts
<1> QED
  <2>1. ASSUME NEW c \in MintCalls, MintStart(c) \/ MintAnswers(c) \/ MintSteps(c)
        PROVE  Accounts'
    BY <2>1, <1>1, <1>3, <1>4 DEF QuietMint, MintAnswers, MintSteps
  <2>2. ASSUME NEW c \in BurnCalls,
               \/ BurnAnswers(c) \/ BurnSteps(c)
               \/ \E amount \in Amounts : BurnStart(c, amount)
               \/ \E b \in DOMAIN burning_utxos : RetryStart(c, b)
        PROVE  Accounts'
    BY <2>2, <1>2, <1>5, <1>6 DEF QuietBurn, BurnAnswers, BurnSteps
  <2> QED BY <2>1, <2>2, <1>7, OtherSteps

LEMMA InitAccounts == Init => Accounts
<1> SUFFICES ASSUME Init PROVE Accounts
  OBVIOUS
<1>1. /\ MintedBy = {} /\ BurnedBy = {} /\ Entries("mint") = {} /\ Entries("burn") = {}
      /\ tokens_minted = 0 /\ tokens_burned = 0
  BY DEF Init, InitCanister, InitWorld, MintedBy, BurnedBy, Entries, IdleMint, IdleBurn
<1> QED BY <1>1, SumEmpty, FS_EmptySet DEF Accounts, MintAccount, BurnAccount

\* Whatever fails and in whatever order the answers come, tokens_minted and
\* tokens_burned are the ledger's totals, but for the answers on their way.
THEOREM AccountsMatch == Spec => []AccountsMatchLedger
<1>1. TypeOK /\ TypeOK' /\ [Next]_vars /\ Accounts => Accounts'
  BY NextAccounts
<1>2. Accounts => AccountsMatchLedger
  BY AccountsMean
<1> QED BY <1>1, <1>2, InitAccounts, TypeCorrect, PTL DEF Spec

-----------------------------------------------------------------------------
(***************************************************************************)
(* The pool of UTXOs the minter pays from.  A deposit that a payout has    *)
(* taken is never free again; neither is the change, as long as no mark is *)
(* cleaned up while its payout is out of the chain and one collector runs  *)
(* at a time; and a failed burn keeps what covers it, as long as burns do  *)
(* not overlap.                                                            *)
(***************************************************************************)

-----------------------------------------------------------------------------
(* The pool of free UTXOs: what a step does to the marks, the payouts and   *)
(* the calls that hold UTXOs                                                *)

Sending == {"sign", "sent", "unsent"}

\* A UTXO that a payout spends, or that an open call may be sending.
Taken(u) ==
  \/ Spends(u)
  \/ \E c \in BurnCalls : burns[c].pc \in Sending /\ u \in burns[c].utxos
\* And one that the canister has in its pool, or that a burn has selected.
Known(u) ==
  \/ u \in DOMAIN collected_utxos \/ Taken(u)
  \/ \E c \in BurnCalls : burns[c].pc \in {"burn", "burned"} /\ u \in burns[c].utxos

\* Where a mark comes from, and how an entry is dropped.
Marked(u) ==
  \/ u \in DOMAIN collected_utxos /\ collected_utxos'[u] = collected_utxos[u]
  \/ \E c \in MintCalls : /\ MintMinted(c) /\ u = mints[c].cur
                          /\ collected_utxos'[u] = [block |-> 0, height |-> 0]
  \/ \E c \in CollectCalls : /\ CollectListed(c) /\ u \in collects[c].listed
                             /\ u \notin DOMAIN collected_utxos
                             /\ collected_utxos'[u] = [block |-> 0, height |-> 0]
  \/ \E c \in BurnCalls : /\ BurnBurned(c) /\ u \in burns[c].utxos
                          /\ collected_utxos'[u] = [block |-> burns[c].block, height |-> 0]
  \/ \E c \in BurnCalls : /\ BurnSent(c) /\ u \in burns[c].utxos
                          /\ collected_utxos'[u] = [block |-> burns[c].block, height |-> 1]
  \/ \E c \in FinalizeCalls :
       /\ FinalizeMined(c) /\ u \in finals[c].bu.utxos
       /\ collected_utxos'[u] = [block |-> finals[c].block, height |-> finals[c].status]
Dropped(u) ==
  \E c \in CollectCalls :
    /\ CollectListed(c)
    /\ ~(collected_utxos[u].height <= 1)
    /\ ~(collected_utxos[u].height >= Monus(collects[c].confirmed, KeepHeights))

LEMMA MarkStep ==
  ASSUME NEW S, NEW b, NEW h, collected_utxos' = MarkUtxos(S, b, h)
  PROVE  /\ \A u \in DOMAIN collected_utxos' :
              \/ u \in DOMAIN collected_utxos /\ collected_utxos'[u] = collected_utxos[u]
              \/ u \in S /\ collected_utxos'[u] = [block |-> b, height |-> h]
         /\ DOMAIN collected_utxos \subseteq DOMAIN collected_utxos'
         /\ \A u \in S : u \in DOMAIN collected_utxos'
                         /\ collected_utxos'[u] = [block |-> b, height |-> h]
  BY DEF MarkUtxos

LEMMA MarkMoves ==
  ASSUME [Next]_vars
  PROVE  /\ \A u \in DOMAIN collected_utxos' : Marked(u)
         /\ \A u \in DOMAIN collected_utxos : u \in DOMAIN collected_utxos' \/ Dropped(u)
<1> DEFINE Goal == /\ \A u \in DOMAIN collected_utxos' : Marked(u)
                   /\ \A u \in DOMAIN collected_utxos : u \in DOMAIN collected_utxos' \/ Dropped(u)
<1>1. CASE UNCHANGED collected_utxos
  BY <1>1 DEF Marked
<1>2. ASSUME NEW c \in MintCalls, MintMinted(c) PROVE Goal
  <2>1. collected_utxos' = MarkUtxos({mints[c].cur}, 0, 0)
    BY <1>2 DEF MintMinted
  <2> QED BY <1>2, <2>1, MarkStep DEF Marked
<1>3. ASSUME NEW c \in BurnCalls, BurnBurned(c) PROVE Goal
  <2>1. collected_utxos' = MarkUtxos(burns[c].utxos, burns[c].block, 0)
    BY <1>3 DEF BurnBurned
  <2>2. \A u \in DOMAIN collected_utxos' :
          \/ u \in DOMAIN collected_utxos /\ collected_utxos'[u] = collected_utxos[u]
          \/ /\ u \in burns[c].utxos
             /\ collected_utxos'[u] = [block |-> burns[c].block, height |-> 0]
    BY <2>1, MarkStep
  <2>3. DOMAIN collected_utxos \subseteq DOMAIN collected_utxos'
    BY <2>1, MarkStep
  <2>4. \A u \in DOMAIN collected_utxos' : Marked(u)
    BY <1>3, <2>2 DEF Marked
  <2> QED BY <2>3, <2>4
<1>4. ASSUME NEW c \in BurnCalls, BurnSent(c) PROVE Goal
  <2>1. collected_utxos' = MarkUtxos(burns[c].utxos, burns[c].block, 1)
    BY <1>4 DEF BurnSent
  <2>2. \A u \in DOMAIN collected_utxos' :
          \/ u \in DOMAIN collected_utxos /\ collected_utxos'[u] = collected_utxos[u]
          \/ /\ u \in burns[c].utxos
             /\ collected_utxos'[u] = [block |-> burns[c].block, height |-> 1]
    BY <2>1, MarkStep
  <2>3. DOMAIN collected_utxos \subseteq DOMAIN collected_utxos'
    BY <2>1, MarkStep
  <2>4. \A u \in DOMAIN collected_utxos' : Marked(u)
    BY <1>4, <2>2 DEF Marked
  <2> QED BY <2>3, <2>4
<1>5. ASSUME NEW c \in FinalizeCalls, FinalizeMined(c) PROVE Goal
  <2>1. collected_utxos' =
          MarkUtxos(finals[c].bu.utxos, finals[c].block, finals[c].status)
    BY <1>5 DEF FinalizeMined
  <2>2. \A u \in DOMAIN collected_utxos' :
          \/ u \in DOMAIN collected_utxos /\ collected_utxos'[u] = collected_utxos[u]
          \/ /\ u \in finals[c].bu.utxos
             /\ collected_utxos'[u] = [block |-> finals[c].block, height |-> finals[c].status]
    BY <2>1, MarkStep
  <2>3. DOMAIN collected_utxos \subseteq DOMAIN collected_utxos'
    BY <2>1, MarkStep
  <2>4. \A u \in DOMAIN collected_utxos' : Marked(u)
    BY <1>5, <2>2 DEF Marked
  <2> QED BY <2>3, <2>4
<1>6. ASSUME NEW c \in CollectCalls, CollectListed(c) PROVE Goal
  <2> DEFINE m == Collected(collects[c].listed)
             k == collects[c].confirmed
  <2>1. collected_utxos' = [u \in Retained(m, k) |-> m[u]]
    BY <1>6 DEF CollectListed
  <2>2. /\ DOMAIN m = DOMAIN collected_utxos \cup collects[c].listed
        /\ \A u \in DOMAIN collected_utxos : m[u] = collected_utxos[u]
        /\ \A u \in collects[c].listed \ DOMAIN collected_utxos :
             m[u] = [block |-> 0, height |-> 0]
    BY DEF Collected
  <2>3. \A u : u \in Retained(m, k) <=>
                 /\ u \in DOMAIN m
                 /\ m[u].height <= 1 \/ m[u].height >= Monus(k, KeepHeights)
    BY DEF Retained
  <2> HIDE DEF m
  <2>4. \A u \in DOMAIN collected_utxos' : Marked(u)
    BY <1>6, <2>1, <2>2, <2>3 DEF Marked
  <2>5. \A u \in DOMAIN collected_utxos : u \in DOMAIN collected_utxos' \/ Dropped(u)
    BY <1>6, <2>1, <2>2, <2>3 DEF Dropped
  <2> QED BY <2>4, <2>5
<1> QED BY <1>1, <1>2, <1>3, <1>4, <1>5, <1>6
        DEF Next, MintAnswers, MintSteps, BurnAnswers, BurnSteps, TxAnswers, FinalizeSteps,
            MintStart, LedgerMint, LedgerRefusesMint, MintListed, MintRefused, BurnStart,
            RetryStart, LedgerBurn, LedgerRefusesBurn, PayoutFails, SendTx, BurnBalance,
            BurnUnsent, FinalizeStart, TxStatus, TxStatusFails, FinalizeUnmined,
            FinalizeDropped, CollectStart, Deposit, NewBlock, Reorg, stores, vars

\* A payout keeps its inputs, and its height once that is confirmed; a new one
\* spends what a signing call holds.
LEMMA NetworkMoves ==
  ASSUME TypeOK, [Next]_vars
  PROVE  /\ \A t \in DOMAIN network :
              /\ t \in DOMAIN network' /\ network'[t].ins = network[t].ins
              /\ network[t].height \in 1..ConfirmedHeight =>
                   network'[t].height = network[t].height
         /\ \A t \in DOMAIN network' \ DOMAIN network :
              \E c \in BurnCalls : /\ SendTx(c) /\ t = Len(network) + 1
                                   /\ network'[t].ins = burns[c].utxos
         /\ ConfirmedHeight \in Nat /\ ConfirmedHeight' \in Nat
         /\ ConfirmedHeight <= ConfirmedHeight'
<1>0. /\ \A t \in DOMAIN network : network[t] \in Payouts
      /\ ConfirmedHeight \in Nat /\ tip \in Nat /\ MinConf \in Nat \ {0}
      /\ network \in Seq(Payouts)
  BY ConfirmedNat, NumbersAssumption DEF TypeOK, WorldTypes
<1>1. ASSUME NEW c \in BurnCalls, SendTx(c) PROVE
        /\ \A t \in DOMAIN network : t \in DOMAIN network' /\ network'[t] = network[t]
        /\ \A t \in DOMAIN network' \ DOMAIN network :
             t = Len(network) + 1 /\ network'[t].ins = burns[c].utxos
        /\ tip' = tip
  BY <1>0, <1>1 DEF SendTx
<1>2. CASE NewBlock
  <2>1. PICK M \in SUBSET {t \in DOMAIN network : network[t].height = 0} :
          network' = [t \in DOMAIN network |->
            IF t \in M THEN [network[t] EXCEPT !.height = tip + 1] ELSE network[t]]
    BY <1>2 DEF NewBlock
  <2>2. \A t \in DOMAIN network :
          /\ t \in DOMAIN network' /\ network'[t].ins = network[t].ins
          /\ network[t].height # 0 => network'[t].height = network[t].height
    BY <1>0, <2>1 DEF Payouts
  <2>3. DOMAIN network' = DOMAIN network
    BY <2>1
  <2>4. tip' = tip + 1 /\ ConfirmedHeight' \in Nat /\ ConfirmedHeight <= ConfirmedHeight'
    BY <1>0, <1>2 DEF NewBlock, ConfirmedHeight
  <2> QED BY <1>0, <2>2, <2>3, <2>4
<1>3. CASE Reorg
  <2>1. PICK k \in (ConfirmedHeight + 1)..tip :
          \E g \in [{t \in DOMAIN network : network[t].height >= k} -> {0} \cup k..tip] :
            network' = [t \in DOMAIN network |->
              IF t \in {s \in DOMAIN network : network[s].height >= k}
              THEN [network[t] EXCEPT !.height = g[t]] ELSE network[t]]
    BY <1>3 DEF Reorg
  <2>2. PICK g \in [{t \in DOMAIN network : network[t].height >= k} -> {0} \cup k..tip] :
          network' = [t \in DOMAIN network |->
            IF t \in {s \in DOMAIN network : network[s].height >= k}
            THEN [network[t] EXCEPT !.height = g[t]] ELSE network[t]]
    BY <2>1
  <2>3. k > ConfirmedHeight /\ k \in Int
    BY <1>0
  <2>4. \A t \in DOMAIN network :
          /\ t \in DOMAIN network' /\ network'[t].ins = network[t].ins
          /\ network[t].height \in 1..ConfirmedHeight =>
               network'[t].height = network[t].height
    BY <1>0, <2>2, <2>3 DEF Payouts
  <2>5. DOMAIN network' = DOMAIN network /\ tip' = tip
    BY <1>3, <2>2 DEF Reorg
  <2> QED BY <1>0, <2>4, <2>5 DEF ConfirmedHeight
<1>4. CASE UNCHANGED <<network, tip>>
  BY <1>0, <1>4 DEF ConfirmedHeight
<1>5. \/ \E c \in BurnCalls : SendTx(c)
      \/ NewBlock \/ Reorg \/ UNCHANGED <<network, tip>>
  BY DEF Next, MintAnswers, MintSteps, BurnAnswers, BurnSteps, TxAnswers, FinalizeSteps,
     MintStart, LedgerMint, LedgerRefusesMint, MintListed, MintMinted, MintRefused,
     BurnStart, RetryStart, LedgerBurn, LedgerRefusesBurn, PayoutFails, BurnBalance,
     BurnBurned, BurnSent, BurnUnsent, FinalizeStart, TxStatus, TxStatusFails,
     FinalizeMined, FinalizeUnmined, FinalizeDropped, CollectStart, CollectListed,
     Deposit, chain, vars
<1> QED BY <1>0, <1>1, <1>2, <1>3, <1>4, <1>5 DEF ConfirmedHeight

\* What the calls that burn hold: a step adds to it what is selected, from
\* the free UTXOs or those of a failed burn.
Holding == {"burn", "burned", "sign", "sent", "unsent"}
BurnMoved(c) ==
  \/ burns'[c].pc \notin Holding
  \/ /\ burns'[c].utxos = burns[c].utxos /\ burns'[c].amount = burns[c].amount
     /\ burns[c].pc \in Holding
     /\ burns'[c].pc \in Sending =>
          /\ burns[c].pc \in Sending \/ BurnBurned(c)
          /\ burns'[c].block = burns[c].block
     /\ burns'[c].pc \in {"burn", "burned"} => burns[c].pc \in {"burn", "burned"}
     /\ burns'[c].pc = "sent" =>
          \/ burns'[c] = burns[c]
          \/ SendTx(c) /\ burns'[c].tx = Len(network) + 1
     /\ burns'[c].pc = "sign" => burns[c].pc \in {"burned", "sign"}
  \/ /\ burns'[c].pc = "burn" /\ UNCHANGED <<collected_utxos, chain>>
     /\ burns'[c].amount = burns[c].amount
     /\ burns'[c].utxos = SelectUtxos(burns[c].amount)
     /\ burns[c].amount <= TotalValue(burns'[c].utxos)
  \/ /\ burns'[c].pc = "sign" /\ UNCHANGED collected_utxos
     /\ \E b \in DOMAIN burning_utxos :
          burns'[c].block = b /\ burns'[c].utxos = RetryUtxos(b)

LEMMA BurnMoves ==
  ASSUME TypeOK, [Next]_vars, NEW c \in BurnCalls PROVE BurnMoved(c)
<1>0. /\ burns \in [BurnCalls -> Range(burns)] /\ burns[c].amount \in Nat
      /\ burns[c] = [pc |-> burns[c].pc, amount |-> burns[c].amount,
                     balance |-> burns[c].balance, utxos |-> burns[c].utxos,
                     block |-> burns[c].block, tx |-> burns[c].tx]
  BY DEF TypeOK, BurnTypes, Range
<1>1. CASE burns'[c] = burns[c]
  BY <1>1 DEF BurnMoved, Sending, Holding
<1>2. CASE burns'[c] = IdleBurn
  BY <1>2 DEF BurnMoved, IdleBurn, Holding
<1>3. ASSUME NEW amount \in Amounts, BurnStart(c, amount) PROVE BurnMoved(c)
  <2>1. burns'[c].pc = "balance"
    BY <1>0, <1>3 DEF BurnStart, IdleBurn
  <2> QED BY <2>1 DEF BurnMoved, Holding
<1>4. ASSUME NEW b \in DOMAIN burning_utxos, RetryStart(c, b) PROVE BurnMoved(c)
  <2>1. /\ burns'[c].pc = "sign" /\ burns'[c].utxos = RetryUtxos(b)
        /\ burns'[c].block = b /\ UNCHANGED collected_utxos
    BY <1>0, <1>4 DEF RetryStart, IdleBurn, stores
  <2> QED BY <2>1 DEF BurnMoved
<1>5. CASE BurnBalance(c)
  <2> DEFINE S == SelectUtxos(burns[c].amount)
  <2>1. \/ /\ burns[c].amount <= TotalValue(S)
           /\ burns' = [burns EXCEPT ![c] = [@ EXCEPT !.pc = "burn", !.utxos = S]]
        \/ burns' = [burns EXCEPT ![c] = IdleBurn]
    BY <1>5 DEF BurnBalance
  <2>2. UNCHANGED <<collected_utxos, chain>>
    BY <1>5 DEF BurnBalance, stores
  <2>3. \/ burns'[c] = IdleBurn
        \/ /\ burns'[c].pc = "burn" /\ burns'[c].utxos = S
           /\ burns'[c].amount = burns[c].amount /\ burns[c].amount <= TotalValue(S)
    <3> HIDE DEF S
    <3> QED BY <1>0, <2>1
  <2> QED BY <1>2, <2>2, <2>3 DEF BurnMoved
<1>6. CASE LedgerBurn(c)
  <2>1. /\ burns[c].pc = "burn" /\ burns'[c].pc = "burned"
        /\ burns'[c].utxos = burns[c].utxos /\ burns'[c].amount = burns[c].amount
    BY <1>0, <1>6 DEF LedgerBurn
  <2> QED BY <2>1 DEF BurnMoved, Holding, Sending
<1>7. CASE BurnBurned(c)
  <2>1. /\ burns[c].pc = "burned" /\ burns'[c].pc = "sign"
        /\ burns'[c].utxos = burns[c].utxos /\ burns'[c].amount = burns[c].amount
        /\ burns'[c].block = burns[c].block
    BY <1>0, <1>7 DEF BurnBurned
  <2> QED BY <1>7, <2>1 DEF BurnMoved, Holding, Sending
<1>8. CASE PayoutFails(c)
  <2>1. /\ burns[c].pc = "sign" /\ burns'[c].pc = "unsent"
        /\ burns'[c].utxos = burns[c].utxos /\ burns'[c].amount = burns[c].amount
        /\ burns'[c].block = burns[c].block
    BY <1>0, <1>8 DEF PayoutFails
  <2> QED BY <2>1 DEF BurnMoved, Holding, Sending
<1>9. CASE SendTx(c)
  <2>1. /\ burns[c].pc = "sign" /\ burns'[c].utxos = burns[c].utxos
        /\ burns'[c].amount = burns[c].amount /\ burns'[c].block = burns[c].block
        /\ \/ burns'[c].pc = "unsent"
           \/ burns'[c].pc = "sent" /\ burns'[c].tx = Len(network) + 1
    BY <1>0, <1>9 DEF SendTx
  <2> QED BY <1>9, <2>1 DEF BurnMoved, Holding, Sending
<1>10. CASE LedgerRefusesBurn(c) \/ BurnSent(c) \/ BurnUnsent(c)
  BY <1>0, <1>2, <1>10 DEF LedgerRefusesBurn, BurnSent, BurnUnsent
<1>11. ASSUME NEW d \in BurnCalls, d # c,
              \/ \E amount \in Amounts : BurnStart(d, amount)
              \/ \E b \in DOMAIN burning_utxos : RetryStart(d, b)
              \/ BurnAnswers(d) \/ BurnSteps(d)
       PROVE  BurnMoved(c)
  <2>1. burns'[c] = burns[c]
    BY <1>0, <1>11 DEF BurnStart, RetryStart, BurnAnswers, BurnSteps, LedgerBurn,
       LedgerRefusesBurn, PayoutFails, SendTx, BurnBalance, BurnBurned, BurnSent, BurnUnsent
  <2> QED BY <1>1, <2>1
<1>12. CASE UNCHANGED burns
  BY <1>1, <1>12
<1>13. \/ UNCHANGED burns
       \/ \E d \in BurnCalls :
            \/ \E amount \in Amounts : BurnStart(d, amount)
            \/ \E b \in DOMAIN burning_utxos : RetryStart(d, b)
            \/ BurnAnswers(d) \/ BurnSteps(d)
  BY DEF Next, MintAnswers, MintSteps, TxAnswers, FinalizeSteps, MintStart, LedgerMint,
     LedgerRefusesMint, MintListed, MintMinted, MintRefused, FinalizeStart, TxStatus,
     TxStatusFails, FinalizeMined, FinalizeUnmined, FinalizeDropped, CollectStart,
     CollectListed, Deposit, NewBlock, Reorg, calls, vars
<1> QED BY <1>3, <1>4, <1>5, <1>6, <1>7, <1>8, <1>9, <1>10, <1>11, <1>12, <1>13
        DEF BurnAnswers, BurnSteps

\* A UTXO is newly taken only by a burn that has marked it.
LEMMA TakenMoves ==
  ASSUME TypeOK, PayoutInv, [Next]_vars, NEW u, Taken(u)'
  PROVE  /\ Known(u)
         /\ \/ Taken(u)
            \/ u \in DOMAIN collected_utxos' /\ collected_utxos'[u].block # 0
<1>0. 0 \notin Used /\ \A c \in BurnCalls : burns[c].pc = "burned" => burns[c].block # 0
  BY DEF PayoutInv, Fresh
<1>1. CASE Spends(u)'
  <2>1. PICK t \in DOMAIN network' : u \in network'[t].ins
    BY <1>1 DEF Spends
  <2>2. CASE t \in DOMAIN network
    BY <2>1, <2>2, NetworkMoves DEF Spends, Taken, Known
  <2>3. CASE t \notin DOMAIN network
    <3>1. PICK c \in BurnCalls : SendTx(c) /\ network'[t].ins = burns[c].utxos
      BY <2>1, <2>3, NetworkMoves
    <3> QED BY <2>1, <3>1 DEF Taken, Known, SendTx, Sending
  <2> QED BY <2>2, <2>3
<1>2. ASSUME NEW c \in BurnCalls, burns'[c].pc \in Sending,
             u \in burns'[c].utxos
      PROVE  /\ Known(u)
             /\ \/ Taken(u)
                \/ u \in DOMAIN collected_utxos' /\ collected_utxos'[u].block # 0
  <2>1. BurnMoved(c)
    BY BurnMoves
  <2>2. CASE burns[c].pc \in Sending /\ burns'[c].utxos = burns[c].utxos
    BY <1>2, <2>2 DEF Taken, Known
  <2>3. CASE BurnBurned(c) /\ burns'[c].utxos = burns[c].utxos
    <3>1. burns[c].pc = "burned" /\ collected_utxos' = MarkUtxos(burns[c].utxos, burns[c].block, 0)
      BY <2>3 DEF BurnBurned
    <3>2. u \in DOMAIN collected_utxos' /\ collected_utxos'[u] = [block |-> burns[c].block, height |-> 0]
      BY <1>2, <2>3, <3>1, MarkStep
    <3> QED BY <1>0, <1>2, <2>3, <3>1, <3>2 DEF Known
  <2>4. ASSUME UNCHANGED collected_utxos, NEW b \in DOMAIN burning_utxos,
               burns'[c].utxos = RetryUtxos(b)
        PROVE  u \in DOMAIN collected_utxos' /\ collected_utxos'[u].block # 0
               /\ u \in DOMAIN collected_utxos
    BY <1>0, <1>2, <2>4, UsedParts DEF RetryUtxos
  <2> QED BY <1>2, <2>1, <2>2, <2>3, <2>4 DEF BurnMoved, Holding, Sending, Known
<1> QED BY <1>1, <1>2 DEF Taken

-----------------------------------------------------------------------------
(* FreeIsUnspent: the inductive invariants *)

\* What the canister remembers of a payout, it spends.
RecordsSpend ==
  /\ \A b \in DOMAIN burned_utxos :
       burned_utxos[b].utxos \subseteq network[burned_utxos[b].tx].ins
  /\ \A c \in FinalizeCalls : finals[c].pc # "idle" =>
       finals[c].bu.utxos \subseteq network[finals[c].bu.tx].ins
  /\ \A c \in BurnCalls : burns[c].pc = "sent" =>
       burns[c].utxos \subseteq network[burns[c].tx].ins

\* An open list has change only, and a height that is confirmed.
ListsChange ==
  \A c \in CollectCalls :
    /\ collects[c].confirmed <= ConfirmedHeight
    /\ \A u \in collects[c].listed : utxos[u].owner = Minter

\* A user's deposit gets into the pool when it has been minted for.
DepositsMinted ==
  \A u \in DOMAIN utxos :
    utxos[u].owner \in Users /\ Known(u) => u \in minted_utxos[utxos[u].owner]

DepositInv == RecordsSpend /\ ListsChange /\ DepositsMinted

FinalMoved(c) ==
  \/ finals'[c] = finals[c]
  \/ /\ finals[c].pc = "query" /\ finals'[c].pc = "status" /\ UNCHANGED network
     /\ finals'[c].bu = finals[c].bu /\ finals'[c].block = finals[c].block
     /\ finals'[c].status = network[finals[c].bu.tx].height
  \/ /\ finals'[c].pc = "query"
     /\ \E b \in DOMAIN burned_utxos : finals'[c].bu = burned_utxos[b] /\ finals'[c].block = b
LEMMA FinalMoves ==
  ASSUME TypeOK, [Next]_vars, NEW c \in FinalizeCalls, finals'[c].pc # "idle"
  PROVE  FinalMoved(c)
<1>0. /\ finals \in [FinalizeCalls -> Range(finals)]
      /\ finals[c] = [pc |-> finals[c].pc, block |-> finals[c].block, bu |-> finals[c].bu,
                      status |-> finals[c].status]
  BY DEF TypeOK, TimerTypes, Range
<1>1. CASE FinalizeStart(c)
  <2> DEFINE b == Head(unconfirmed_burning_utxos)
  <2>1. \/ /\ b \in DOMAIN burned_utxos
           /\ finals' = [finals EXCEPT ![c] =
                [pc |-> "query", block |-> b, bu |-> burned_utxos[b], status |-> 0]]
        \/ finals' = finals
    BY <1>1 DEF FinalizeStart
  <2> HIDE DEF b
  <2> QED BY <1>0, <2>1 DEF FinalMoved
<1>2. CASE TxStatus(c)
  <2>1. UNCHANGED network /\ finals[c].pc = "query"
    BY <1>2 DEF TxStatus, chain
  <2> QED BY <1>0, <1>2, <2>1 DEF TxStatus, FinalMoved
<1>3. CASE TxStatusFails(c) \/ FinalizeSteps(c)
  BY <1>0, <1>3 DEF TxStatusFails, FinalizeSteps, FinalizeMined, FinalizeUnmined,
     FinalizeDropped, IdleFinalize
<1>4. ASSUME NEW d \in FinalizeCalls, d # c,
             FinalizeStart(d) \/ TxAnswers(d) \/ FinalizeSteps(d)
      PROVE  FinalMoved(c)
  <2>1. finals'[c] = finals[c]
    BY <1>0, <1>4 DEF FinalizeStart, TxAnswers, TxStatus, TxStatusFails, FinalizeSteps,
       FinalizeMined, FinalizeUnmined, FinalizeDropped
  <2> QED BY <2>1 DEF FinalMoved
<1>5. CASE UNCHANGED finals
  BY <1>5 DEF FinalMoved
<1> QED BY <1>1, <1>2, <1>3, <1>4, <1>5 DEF Next, MintAnswers, MintSteps, BurnAnswers,
        BurnSteps, TxAnswers, MintStart, LedgerMint, LedgerRefusesMint, MintListed,
        MintMinted, MintRefused, BurnStart, RetryStart, LedgerBurn, LedgerRefusesBurn,
        PayoutFails, SendTx, BurnBalance, BurnBurned, BurnSent, BurnUnsent, CollectStart,
        CollectListed, Deposit, NewBlock, Reorg, calls, vars

LEMMA RecordMoves ==
  ASSUME [Next]_vars, NEW b \in DOMAIN burned_utxos'
  PROVE  \/ b \in DOMAIN burned_utxos /\ burned_utxos'[b] = burned_utxos[b]
         \/ \E c \in FinalizeCalls :
              /\ finals[c].pc = "status" /\ b = finals[c].block
              /\ burned_utxos'[b] = [finals[c].bu EXCEPT !.height = finals[c].status]
         \/ \E c \in BurnCalls :
              /\ BurnSent(c) /\ b = burns[c].block
              /\ burned_utxos'[b] = [utxos |-> burns[c].utxos, tx |-> burns[c].tx, height |-> 0]
<1>1. CASE UNCHANGED burned_utxos
  BY <1>1
<1>2. CASE \E c \in BurnCalls : BurnSent(c)
  <2>1. PICK c \in BurnCalls : BurnSent(c)
    BY <1>2
  <2>2. burned_utxos' = WithPayout(c)
    BY <2>1 DEF BurnSent
  <2> QED BY <2>1, <2>2 DEF WithPayout
<1>3. CASE \E c \in FinalizeCalls : FinalizeMined(c)
  BY <1>3 DEF FinalizeMined, AtHeight
<1> QED BY <1>1, <1>2, <1>3 DEF Next, MintAnswers, MintSteps, BurnAnswers,
        BurnSteps, TxAnswers, MintStart, LedgerMint, LedgerRefusesMint, MintListed,
        MintMinted, MintRefused, BurnStart, RetryStart, LedgerBurn, LedgerRefusesBurn,
        PayoutFails, SendTx, BurnBalance, BurnBurned, BurnUnsent, FinalizeStart, TxStatus,
        TxStatusFails, FinalizeSteps, FinalizeUnmined, FinalizeDropped, CollectStart,
        CollectListed, Deposit, NewBlock, Reorg, stores, vars

LEMMA NextRecords ==
  ASSUME TypeOK, RecordsSpend, [Next]_vars PROVE RecordsSpend'
<1>0. \A t \in DOMAIN network : t \in DOMAIN network' /\ network'[t].ins = network[t].ins
  BY NetworkMoves
<1>1. /\ \A b \in DOMAIN burned_utxos : burned_utxos[b].tx \in DOMAIN network
      /\ \A c \in FinalizeCalls : finals[c].pc # "idle" =>
           /\ finals[c].bu.tx \in DOMAIN network
           /\ finals[c].bu = [utxos |-> finals[c].bu.utxos, tx |-> finals[c].bu.tx,
                              height |-> finals[c].bu.height]
      /\ \A c \in BurnCalls : burns[c].pc = "sent" => burns[c].tx \in DOMAIN network
  BY DEF TypeOK, StoreTypes, TimerTypes, BurnTypes, OpenCalls
<1>2. ASSUME NEW b \in DOMAIN burned_utxos'
      PROVE  burned_utxos'[b].utxos \subseteq network'[burned_utxos'[b].tx].ins
  <2>1. CASE b \in DOMAIN burned_utxos /\ burned_utxos'[b] = burned_utxos[b]
    BY <1>0, <1>1, <2>1 DEF RecordsSpend
  <2>2. ASSUME NEW c \in FinalizeCalls, finals[c].pc = "status",
               burned_utxos'[b] = [finals[c].bu EXCEPT !.height = finals[c].status]
        PROVE  burned_utxos'[b].utxos \subseteq network'[burned_utxos'[b].tx].ins
    <3>1. /\ burned_utxos'[b].utxos = finals[c].bu.utxos
          /\ burned_utxos'[b].tx = finals[c].bu.tx
      BY <1>1, <2>2
    <3> QED BY <1>0, <1>1, <2>2, <3>1 DEF RecordsSpend
  <2>3. ASSUME NEW c \in BurnCalls, BurnSent(c),
               burned_utxos'[b] = [utxos |-> burns[c].utxos, tx |-> burns[c].tx, height |-> 0]
        PROVE  burned_utxos'[b].utxos \subseteq network'[burned_utxos'[b].tx].ins
    BY <1>0, <1>1, <2>3 DEF RecordsSpend, BurnSent
  <2> QED BY <2>1, <2>2, <2>3, RecordMoves
<1>3. ASSUME NEW c \in FinalizeCalls, finals'[c].pc # "idle"
      PROVE  finals'[c].bu.utxos \subseteq network'[finals'[c].bu.tx].ins
  <2>1. \/ finals'[c] = finals[c]
        \/ finals[c].pc = "query" /\ finals'[c].bu = finals[c].bu
        \/ \E b \in DOMAIN burned_utxos : finals'[c].bu = burned_utxos[b]
    BY <1>3, FinalMoves DEF FinalMoved
  <2> QED BY <1>0, <1>1, <1>3, <2>1 DEF RecordsSpend
<1>4. ASSUME NEW c \in BurnCalls, burns'[c].pc = "sent"
      PROVE  burns'[c].utxos \subseteq network'[burns'[c].tx].ins
  <2>1. BurnMoved(c)
    BY BurnMoves
  <2>2. CASE burns'[c] = burns[c]
    BY <1>0, <1>1, <1>4, <2>2 DEF RecordsSpend
  <2>3. CASE /\ SendTx(c) /\ burns'[c].tx = Len(network) + 1
             /\ burns'[c].utxos = burns[c].utxos
    <3>1. network'[Len(network) + 1].ins = burns[c].utxos
      BY <2>3 DEF SendTx, TypeOK, WorldTypes
    <3> QED BY <2>3, <3>1
  <2> QED BY <1>4, <2>1, <2>2, <2>3 DEF BurnMoved, Holding
<1> QED BY <1>2, <1>3, <1>4 DEF RecordsSpend

\* The list of a call that is open now was made when it started.
LEMMA CollectMoves ==
  ASSUME TypeOK, [Next]_vars, NEW c \in CollectCalls
  PROVE  \/ collects'[c] = collects[c]
         \/ collects'[c].listed = {} /\ collects'[c].confirmed = 0
         \/ /\ collects'[c].listed = ListUtxos(Minter)
            /\ collects'[c].confirmed = ConfirmedHeight
            /\ UNCHANGED <<chain, collected_utxos, burns>>
<1>0. collects \in [CollectCalls -> Range(collects)]
  BY DEF TypeOK, TimerTypes, Range
<1>1. CASE UNCHANGED collects
  BY <1>1
<1>2. ASSUME NEW d \in CollectCalls, CollectStart(d)
      PROVE  \/ collects'[c] = collects[c]
             \/ /\ collects'[c].listed = ListUtxos(Minter)
                /\ collects'[c].confirmed = ConfirmedHeight
                /\ UNCHANGED <<chain, collected_utxos, burns>>
  BY <1>0, <1>2 DEF CollectStart, stores
<1>3. ASSUME NEW d \in CollectCalls, CollectListed(d)
      PROVE  \/ collects'[c] = collects[c]
             \/ collects'[c].listed = {} /\ collects'[c].confirmed = 0
  BY <1>0, <1>3 DEF CollectListed, IdleCollect
<1> QED BY <1>1, <1>2, <1>3 DEF Next, MintAnswers, MintSteps, BurnAnswers,
        BurnSteps, TxAnswers, MintStart, LedgerMint, LedgerRefusesMint, MintListed,
        MintMinted, MintRefused, BurnStart, RetryStart, LedgerBurn, LedgerRefusesBurn,
        PayoutFails, SendTx, BurnBalance, BurnBurned, BurnSent, BurnUnsent, FinalizeStart,
        TxStatus, TxStatusFails, FinalizeSteps, FinalizeMined, FinalizeUnmined,
        FinalizeDropped, Deposit, NewBlock, Reorg, calls, vars

LEMMA NextLists ==
  ASSUME TypeOK, ListsChange, [Next]_vars PROVE ListsChange'
<1>0. /\ ConfirmedHeight \in Nat /\ ConfirmedHeight' \in Nat
      /\ ConfirmedHeight <= ConfirmedHeight'
  BY NetworkMoves
<1>1. \A u \in DOMAIN utxos : u \in DOMAIN utxos' /\ utxos'[u] = utxos[u]
  BY OwnersStay
<1>2. \A c \in CollectCalls : /\ collects[c].listed \subseteq DOMAIN utxos
                              /\ collects[c].confirmed \in Nat
  BY DEF TypeOK, TimerTypes
<1>3. \A u \in ListUtxos(Minter) : u \in DOMAIN utxos /\ utxos[u].owner = Minter
  BY ListTypes
<1> SUFFICES ASSUME NEW c \in CollectCalls
             PROVE  /\ collects'[c].confirmed <= ConfirmedHeight'
                    /\ \A u \in collects'[c].listed : utxos'[u].owner = Minter
  BY DEF ListsChange
<1>4. CASE collects'[c] = collects[c]
  BY <1>0, <1>1, <1>2, <1>4 DEF ListsChange
<1>5. CASE collects'[c].listed = {} /\ collects'[c].confirmed = 0
  BY <1>0, <1>5
<1>6. CASE /\ collects'[c].listed = ListUtxos(Minter)
           /\ collects'[c].confirmed = ConfirmedHeight
  BY <1>0, <1>1, <1>3, <1>6
<1> QED BY <1>4, <1>5, <1>6, CollectMoves

\* What is minted for a principal stays so, and has the UTXO just minted.
LEMMA MintedGrows ==
  ASSUME TypeOK, MintInv, [Next]_vars
  PROVE  /\ \A p \in Users : minted_utxos[p] \subseteq minted_utxos'[p]
         /\ \A c \in MintCalls : MintMinted(c) =>
              /\ mints[c].cur \in DOMAIN utxos
              /\ utxos[mints[c].cur].owner = CallerOf[c] /\ CallerOf[c] \in Users
              /\ mints[c].cur \notin minted_utxos[CallerOf[c]]
              /\ mints[c].cur \in minted_utxos'[CallerOf[c]]
<1>1. ASSUME NEW c \in MintCalls, MintMinted(c)
      PROVE  /\ mints[c].cur \in DOMAIN utxos
             /\ utxos[mints[c].cur].owner = CallerOf[c] /\ CallerOf[c] \in Users
             /\ mints[c].snap = minted_utxos[CallerOf[c]]
             /\ mints[c].cur \notin minted_utxos[CallerOf[c]]
             /\ minted_utxos' = [minted_utxos EXCEPT ![CallerOf[c]] =
                                   mints[c].snap \cup {mints[c].cur}]
  BY <1>1, PrincipalsAssumption DEF MintMinted, MintInv, LoopKnows, Minting, Snapshot
<1>2. minted_utxos \in [Users -> SUBSET DOMAIN utxos]
  BY DEF TypeOK, StoreTypes
<1>3. UNCHANGED minted_utxos \/ \E c \in MintCalls : MintMinted(c)
  BY DEF Next, MintAnswers, MintSteps, BurnAnswers, BurnSteps, TxAnswers, FinalizeSteps,
     MintStart, LedgerMint, LedgerRefusesMint, MintListed, MintRefused, BurnStart,
     RetryStart, LedgerBurn, LedgerRefusesBurn, PayoutFails, SendTx, BurnBalance,
     BurnBurned, BurnSent, BurnUnsent, FinalizeStart, TxStatus, TxStatusFails,
     FinalizeMined, FinalizeUnmined, FinalizeDropped, CollectStart, CollectListed,
     Deposit, NewBlock, Reorg, stores, vars
<1> QED BY <1>1, <1>2, <1>3

\* What is known after a step was known, or is change that was listed or a
\* deposit that has been minted for.
LEMMA KnownMoves ==
  ASSUME TypeOK, PayoutInv, RecordsSpend, [Next]_vars, NEW u, Known(u)'
  PROVE  \/ Known(u)
         \/ \E c \in MintCalls : MintMinted(c) /\ u = mints[c].cur
         \/ \E c \in CollectCalls : u \in collects[c].listed
<1>1. CASE Taken(u)'
  BY <1>1, TakenMoves
<1>2. ASSUME NEW c \in BurnCalls, burns'[c].pc \in {"burn", "burned"}, u \in burns'[c].utxos
      PROVE  Known(u)
  <2>1. BurnMoved(c)
    BY BurnMoves
  <2>2. SelectUtxos(burns[c].amount) \subseteq DOMAIN collected_utxos
    BY SelectTypes DEF TypeOK, BurnTypes, FreeUtxos
  <2> QED BY <1>2, <2>1, <2>2 DEF BurnMoved, Known, Taken, Holding, Sending
<1>3. CASE u \in DOMAIN collected_utxos'
  <2>1. Marked(u)
    BY <1>3, MarkMoves
  <2>2. ASSUME NEW c \in BurnCalls, BurnBurned(c) \/ BurnSent(c), u \in burns[c].utxos
        PROVE  Known(u)
    BY <2>2 DEF BurnBurned, BurnSent, Known, Taken, Sending
  <2>3. ASSUME NEW c \in FinalizeCalls, FinalizeMined(c), u \in finals[c].bu.utxos
        PROVE  Known(u)
    <3>1. finals[c].pc # "idle" /\ finals[c].bu.tx \in DOMAIN network
      BY <2>3 DEF FinalizeMined, TypeOK, TimerTypes, OpenCalls
    <3> QED BY <2>3, <3>1 DEF RecordsSpend, Known, Taken, Spends
  <2> QED BY <2>1, <2>2, <2>3 DEF Marked, Known
<1> QED BY <1>1, <1>2, <1>3 DEF Known

LEMMA KnownOutputs == ASSUME TypeOK, NEW u, Known(u) PROVE u \in DOMAIN utxos
<1>1. \A t \in DOMAIN network : network[t].ins \subseteq DOMAIN utxos
  <2>1. \A t \in DOMAIN network : network[t] \in Payouts
    BY DEF TypeOK, WorldTypes
  <2> QED BY <2>1 DEF Payouts
<1> QED BY <1>1 DEF Known, Taken, Spends, TypeOK, StoreTypes, BurnTypes

LEMMA NextDeposits ==
  ASSUME TypeOK, MintInv, PayoutInv, DepositInv, [Next]_vars PROVE DepositsMinted'
<1> SUFFICES ASSUME NEW u \in DOMAIN utxos', utxos'[u].owner \in Users, Known(u)'
             PROVE  u \in minted_utxos'[utxos'[u].owner]
  BY DEF DepositsMinted
<1>1. \A v \in DOMAIN utxos : v \in DOMAIN utxos' /\ utxos'[v] = utxos[v]
  BY OwnersStay
<1>2. CASE Known(u)
  <2>1. u \in DOMAIN utxos
    BY <1>2, KnownOutputs
  <2> QED BY <1>1, <1>2, <2>1, MintedGrows DEF DepositInv, DepositsMinted
<1>3. ASSUME NEW c \in MintCalls, MintMinted(c), u = mints[c].cur
      PROVE  u \in minted_utxos'[utxos'[u].owner]
  BY <1>1, <1>3, MintedGrows
<1>4. ASSUME NEW c \in CollectCalls, u \in collects[c].listed PROVE FALSE
  <2>1. u \in DOMAIN utxos /\ utxos[u].owner = Minter
    BY <1>4 DEF TypeOK, TimerTypes, DepositInv, ListsChange
  <2> QED BY <1>1, <2>1, PrincipalsAssumption
<1> QED BY <1>2, <1>3, <1>4, KnownMoves DEF DepositInv

\* A step frees a taken UTXO only if the collector adds it again.
LEMMA NotFreed ==
  ASSUME TypeOK, MintInv, PayoutInv, DepositInv, [Next]_vars, NEW u,
         Taken(u) => u \notin FreeUtxos,
         Taken(u) /\ u \notin DOMAIN collected_utxos =>
           \A c \in CollectCalls : u \notin collects[c].listed,
         Taken(u)'
  PROVE  u \notin FreeUtxos'
<1> SUFFICES ASSUME u \in DOMAIN collected_utxos', collected_utxos'[u].block = 0
             PROVE  FALSE
  BY DEF FreeUtxos
<1>0. 0 \notin Used /\ \A c \in BurnCalls : burns[c].pc = "burned" => burns[c].block # 0
  BY DEF PayoutInv, Fresh
<1>1. Taken(u)
  BY TakenMoves
<1>2. u \in DOMAIN utxos /\ Known(u)
  BY <1>1, KnownOutputs DEF Known
<1>3. Marked(u)
  BY MarkMoves
<1>4. ~(u \in DOMAIN collected_utxos /\ collected_utxos'[u] = collected_utxos[u])
  BY <1>1 DEF FreeUtxos
<1>5. ASSUME NEW c \in MintCalls, MintMinted(c), u = mints[c].cur PROVE FALSE
  BY <1>2, <1>5, MintedGrows DEF DepositInv, DepositsMinted
<1>6. ASSUME NEW c \in BurnCalls, BurnBurned(c) \/ BurnSent(c) PROVE burns[c].block # 0
  BY <1>0, <1>6, UsedParts DEF BurnBurned, BurnSent
<1>7. ASSUME NEW c \in FinalizeCalls, FinalizeMined(c) PROVE finals[c].block # 0
  BY <1>0, <1>7, UsedParts DEF FinalizeMined, TypeOK, OpenCalls
<1> QED BY <1>1, <1>3, <1>4, <1>5, <1>6, <1>7 DEF Marked

\* One collector at a time: the interval of its timer is longer than its call.
OneCollect == \A c, d \in CollectCalls : c = d

\* KeepHeights blocks after a payout was seen in a block, it is in a confirmed
\* one, even if a reorganisation has moved it.
MarksSettled ==
  \A u \in DOMAIN collected_utxos :
    collected_utxos[u].height \in 2..(Monus(ConfirmedHeight, KeepHeights) - 1)
      => SpentConfirmed(u)

\* Change that is taken is forgotten only when no list will have it again.
ChangeForgotten ==
  \A u \in DOMAIN utxos :
    utxos[u].owner = Minter /\ Taken(u) /\ u \notin DOMAIN collected_utxos =>
      /\ SpentConfirmed(u)
      /\ \A c \in CollectCalls : u \notin collects[c].listed

LEMMA SpentStays ==
  ASSUME TypeOK, [Next]_vars, NEW u, SpentConfirmed(u) PROVE SpentConfirmed(u)'
<1>1. PICK t \in DOMAIN network : /\ u \in network[t].ins
                                  /\ network[t].height \in 1..ConfirmedHeight
  BY DEF SpentConfirmed
<1>2. /\ t \in DOMAIN network' /\ network'[t].ins = network[t].ins
      /\ network'[t].height = network[t].height
      /\ 1..ConfirmedHeight \subseteq 1..ConfirmedHeight'
  BY <1>1, NetworkMoves
<1> QED BY <1>1, <1>2 DEF SpentConfirmed

\* What the collector drops is spent for good.
LEMMA DroppedSpent ==
  ASSUME TypeOK, ListsChange, MarksSettled, NEW u \in DOMAIN collected_utxos, Dropped(u)
  PROVE  SpentConfirmed(u)
<1>1. PICK c \in CollectCalls :
        /\ ~(collected_utxos[u].height <= 1)
        /\ ~(collected_utxos[u].height >= Monus(collects[c].confirmed, KeepHeights))
  BY DEF Dropped
<1>2. /\ collected_utxos[u].height \in Nat /\ collects[c].confirmed \in Nat
      /\ ConfirmedHeight \in Nat /\ KeepHeights \in Nat
      /\ collects[c].confirmed <= ConfirmedHeight
  BY ConfirmedNat, NumbersAssumption DEF TypeOK, StoreTypes, TimerTypes, ListsChange
<1>3. collected_utxos[u].height \in 2..(Monus(ConfirmedHeight, KeepHeights) - 1)
  BY <1>1, <1>2 DEF Monus
<1> QED BY <1>3 DEF MarksSettled

LEMMA NextForgotten ==
  ASSUME OneCollect, TypeOK, PayoutInv, ListsChange, MarksSettled, ChangeForgotten, [Next]_vars
  PROVE  ChangeForgotten'
<1> SUFFICES ASSUME NEW u \in DOMAIN utxos', utxos'[u].owner = Minter, Taken(u)',
                    u \notin DOMAIN collected_utxos'
             PROVE  /\ SpentConfirmed(u)'
                    /\ \A c \in CollectCalls : u \notin collects'[c].listed
  BY DEF ChangeForgotten
<1>1. Taken(u)
  BY TakenMoves
<1>2. u \in DOMAIN utxos /\ utxos[u].owner = Minter
  BY <1>1, OwnersStay, KnownOutputs DEF Known
<1>3. CASE u \in DOMAIN collected_utxos
  <2>1. Dropped(u)
    BY <1>3, MarkMoves
  <2>2. SpentConfirmed(u)'
    BY <1>3, <2>1, DroppedSpent, SpentStays
  <2>3. PICK c \in CollectCalls : CollectListed(c)
    BY <2>1 DEF Dropped
  <2>4. collects'[c].listed = {}
    BY <2>3 DEF CollectListed, IdleCollect, TypeOK, TimerTypes
  <2> QED BY <2>2, <2>4 DEF OneCollect
<1>4. CASE u \notin DOMAIN collected_utxos
  <2>1. SpentConfirmed(u) /\ \A c \in CollectCalls : u \notin collects[c].listed
    BY <1>1, <1>2, <1>4 DEF ChangeForgotten
  <2>2. u \notin ListUtxos(Minter)
    BY <2>1 DEF ListUtxos
  <2>3. ASSUME NEW c \in CollectCalls PROVE u \notin collects'[c].listed
    BY <2>1, <2>2, CollectMoves
  <2> QED BY <2>1, <2>3, SpentStays
<1> QED BY <1>3, <1>4

\* No UTXO that is taken is free.
Untaken == \A u : Taken(u) => u \notin FreeUtxos
PoolInv == DepositInv /\ ChangeForgotten /\ Untaken

LEMMA NextPool ==
  ASSUME OneCollect, TypeOK, MintInv, PayoutInv, MarksSettled, PoolInv, [Next]_vars
  PROVE  PoolInv'
<1>1. DepositInv'
  BY NextRecords, NextLists, NextDeposits DEF PoolInv, DepositInv
<1>2. ChangeForgotten'
  BY NextForgotten DEF PoolInv, DepositInv
<1>3. ASSUME NEW u, Taken(u)' PROVE u \notin FreeUtxos'
  <2>1. ASSUME Taken(u), u \notin DOMAIN collected_utxos, NEW c \in CollectCalls
        PROVE  u \notin collects[c].listed
    <3>1. u \in DOMAIN utxos
      BY <2>1, KnownOutputs DEF Known
    <3>2. u \in collects[c].listed => utxos[u].owner = Minter
      BY DEF PoolInv, DepositInv, ListsChange
    <3> QED BY <2>1, <3>1, <3>2 DEF PoolInv, ChangeForgotten
  <2> QED BY <1>3, <2>1, NotFreed DEF PoolInv, Untaken
<1> QED BY <1>1, <1>2, <1>3 DEF PoolInv, Untaken

LEMMA InitPool == Init => PoolInv /\ MintInv
<1> SUFFICES ASSUME Init PROVE PoolInv /\ MintInv
  OBVIOUS
<1> USE DEF Init, InitCanister, InitWorld, IdleMint, IdleBurn, IdleFinalize, IdleCollect
<1>1. MintInv
  BY DEF MintInv, LoopKnows, MintsKnown, NoDoubleMint, Entries, Minting
<1>2. RecordsSpend
  BY DEF RecordsSpend
<1>3. ListsChange
  <2>1. ConfirmedHeight \in Nat
    BY NumbersAssumption DEF ConfirmedHeight
  <2> QED BY <2>1 DEF ListsChange
<1>4. DepositsMinted /\ ChangeForgotten /\ Untaken
  BY DEF DepositsMinted, ChangeForgotten, Untaken, Taken, Spends, FreeUtxos
<1> QED BY <1>1, <1>2, <1>3, <1>4 DEF PoolInv, DepositInv

\* A deposit that a payout spends, or that an open call may be sending, is
\* never free again, whatever reorganisations and collectors there are.
DepositsUnspent == \A u \in FreeUtxos : utxos[u].owner \in Users => ~Taken(u)

LEMMA NextUnspent ==
  ASSUME TypeOK, MintInv, PayoutInv, DepositInv, DepositsUnspent, [Next]_vars
  PROVE  DepositInv' /\ DepositsUnspent'
<1>1. DepositInv'
  BY NextRecords, NextLists, NextDeposits DEF DepositInv
<1>2. ASSUME NEW u \in FreeUtxos', utxos'[u].owner \in Users, Taken(u)' PROVE FALSE
  <2>1. Taken(u) => u \in DOMAIN utxos /\ utxos'[u] = utxos[u]
    BY OwnersStay, KnownOutputs DEF Known
  <2>2. Taken(u) => u \notin FreeUtxos
    BY <1>2, <2>1 DEF DepositsUnspent
  <2>3. Taken(u) => \A c \in CollectCalls : u \notin collects[c].listed
    BY <1>2, <2>1, PrincipalsAssumption DEF DepositInv, ListsChange
  <2> QED BY <1>2, <2>2, <2>3, NotFreed
<1> QED BY <1>1, <1>2 DEF DepositsUnspent

\* A user's deposit never returns to the pool once a payout has taken it.
THEOREM DepositsSpentOnce == ASSUME OneMintEach PROVE Spec => []DepositsUnspent
<1>1. Init => MintInv /\ PayoutInv /\ DepositInv /\ DepositsUnspent
  BY InitPool, InitPayout DEF PoolInv, Untaken, DepositsUnspent
<1>2. /\ TypeOK /\ MintInv /\ PayoutInv /\ DepositInv /\ DepositsUnspent /\ [Next]_vars
      => MintInv' /\ PayoutInv' /\ DepositInv' /\ DepositsUnspent'
  BY NextMint, NextPayout, NextUnspent
<1> QED BY <1>1, <1>2, TypeCorrect, PTL DEF Spec

LEMMA PoolMeans == ASSUME PoolInv PROVE FreeIsUnspent
  BY DEF PoolInv, Untaken, Taken, Sending, FreeIsUnspent

\* The pool is spendable as long as no mark is cleaned up while its payout is
\* out of the chain.
THEOREM PoolSpendable ==
  ASSUME OneMintEach, OneCollect PROVE Spec /\ []MarksSettled => []FreeIsUnspent
<1>1. Init => MintInv /\ PayoutInv /\ PoolInv
  BY InitPool, InitPayout
<1>2. TypeOK /\ MintInv /\ PayoutInv /\ PoolInv /\ MarksSettled /\ [Next]_vars
      => MintInv' /\ PayoutInv' /\ PoolInv'
  BY NextMint, NextPayout, NextPool
<1>3. PoolInv => FreeIsUnspent
  BY PoolMeans
<1> QED BY <1>1, <1>2, <1>3, TypeCorrect, PTL DEF Spec

\* Without reorganisations a mark is the height of a payout.
MarksTrue ==
  /\ reorgs = 0
  /\ \A c \in FinalizeCalls : finals[c].pc = "status" =>
       finals[c].status \in {0, network[finals[c].bu.tx].height}
  /\ \A u \in DOMAIN collected_utxos : collected_utxos[u].height > 1 =>
       \E t \in DOMAIN network : /\ u \in network[t].ins
                                 /\ network[t].height = collected_utxos[u].height

LEMMA HeightsStay ==
  ASSUME MaxReorgs = 0, TypeOK, MarksTrue, [Next]_vars
  PROVE  /\ reorgs' = 0
         /\ \A t \in DOMAIN network :
              /\ t \in DOMAIN network' /\ network'[t].ins = network[t].ins
              /\ network[t].height # 0 => network'[t].height = network[t].height
<1>0. /\ \A t \in DOMAIN network : network[t] \in Payouts
      /\ network \in Seq(Payouts)
  BY DEF TypeOK, WorldTypes
<1>1. ASSUME NEW c \in BurnCalls, SendTx(c)
      PROVE  reorgs' = reorgs /\ \A t \in DOMAIN network : t \in DOMAIN network' /\ network'[t] = network[t]
  BY <1>0, <1>1 DEF SendTx
<1>2. CASE NewBlock
  <2>1. PICK M \in SUBSET {t \in DOMAIN network : network[t].height = 0} :
          network' = [t \in DOMAIN network |->
            IF t \in M THEN [network[t] EXCEPT !.height = tip + 1] ELSE network[t]]
    BY <1>2 DEF NewBlock
  <2>2. \A t \in DOMAIN network :
          /\ t \in DOMAIN network' /\ network'[t].ins = network[t].ins
          /\ network[t].height # 0 => network'[t].height = network[t].height
    BY <1>0, <2>1 DEF Payouts
  <2> QED BY <1>2, <2>2 DEF NewBlock, MarksTrue
<1>3. ~Reorg
  BY DEF Reorg, MarksTrue
<1>4. \/ \E c \in BurnCalls : SendTx(c)
      \/ NewBlock \/ Reorg \/ UNCHANGED <<network, reorgs>>
  BY DEF Next, MintAnswers, MintSteps, BurnAnswers, BurnSteps, TxAnswers, FinalizeSteps,
     MintStart, LedgerMint, LedgerRefusesMint, MintListed, MintMinted, MintRefused,
     BurnStart, RetryStart, LedgerBurn, LedgerRefusesBurn, PayoutFails, BurnBalance,
     BurnBurned, BurnSent, BurnUnsent, FinalizeStart, TxStatus, TxStatusFails,
     FinalizeMined, FinalizeUnmined, FinalizeDropped, CollectStart, CollectListed,
     Deposit, chain, vars
<1> QED BY <1>1, <1>2, <1>3, <1>4 DEF MarksTrue

LEMMA NextMarks ==
  ASSUME MaxReorgs = 0, TypeOK, RecordsSpend, MarksTrue, [Next]_vars
  PROVE  MarksTrue'
<1>0. /\ \A c \in FinalizeCalls : finals[c].pc # "idle" => finals[c].bu.tx \in DOMAIN network
      /\ \A t \in DOMAIN network : network[t].height \in Nat
  <2>1. \A t \in DOMAIN network : network[t] \in Payouts
    BY DEF TypeOK, WorldTypes
  <2> QED BY <2>1 DEF TypeOK, TimerTypes, OpenCalls, Payouts
<1>1. ASSUME NEW c \in FinalizeCalls, finals'[c].pc = "status"
      PROVE  finals'[c].status \in {0, network'[finals'[c].bu.tx].height}
  <2>1. CASE finals'[c] = finals[c]
    BY <1>0, <1>1, <2>1, HeightsStay DEF MarksTrue
  <2>2. CASE /\ finals[c].pc = "query" /\ UNCHANGED network
             /\ finals'[c].bu = finals[c].bu /\ finals'[c].block = finals[c].block
             /\ finals'[c].status = network[finals[c].bu.tx].height
    BY <2>2
  <2> QED BY <1>1, <2>1, <2>2, FinalMoves DEF FinalMoved
<1>2. ASSUME NEW u \in DOMAIN collected_utxos', collected_utxos'[u].height > 1
      PROVE  \E t \in DOMAIN network' : /\ u \in network'[t].ins
                                        /\ network'[t].height = collected_utxos'[u].height
  <2>1. CASE u \in DOMAIN collected_utxos /\ collected_utxos'[u] = collected_utxos[u]
    <3>1. PICK t \in DOMAIN network : /\ u \in network[t].ins
                                      /\ network[t].height = collected_utxos[u].height
      BY <1>2, <2>1 DEF MarksTrue
    <3>2. network[t].height # 0
      BY <1>2, <2>1, <3>1
    <3> QED BY <2>1, <3>1, <3>2, HeightsStay
  <2>2. ASSUME NEW c \in FinalizeCalls, FinalizeMined(c), u \in finals[c].bu.utxos,
               collected_utxos'[u].height = finals[c].status
        PROVE  \E t \in DOMAIN network' : /\ u \in network'[t].ins
                                          /\ network'[t].height = collected_utxos'[u].height
    <3> DEFINE t == finals[c].bu.tx
    <3>1. finals[c].pc = "status" /\ finals[c].status # 0
      BY <2>2 DEF FinalizeMined
    <3>2. t \in DOMAIN network /\ network[t].height = finals[c].status /\ u \in network[t].ins
      BY <1>0, <2>2, <3>1 DEF MarksTrue, RecordsSpend
    <3> HIDE DEF t
    <3> QED BY <2>2, <3>1, <3>2, HeightsStay
  <2> QED BY <1>2, <2>1, <2>2, MarkMoves DEF Marked
<1> QED BY <1>1, <1>2, HeightsStay DEF MarksTrue

LEMMA TrueSettled == ASSUME TypeOK, MarksTrue PROVE MarksSettled
<1> SUFFICES ASSUME NEW u \in DOMAIN collected_utxos,
                    collected_utxos[u].height \in 2..(Monus(ConfirmedHeight, KeepHeights) - 1)
             PROVE  SpentConfirmed(u)
  BY DEF MarksSettled
<1>1. collected_utxos[u].height \in 1..ConfirmedHeight /\ collected_utxos[u].height > 1
  <2>1. ConfirmedHeight \in Nat /\ KeepHeights \in Nat
    BY ConfirmedNat, NumbersAssumption DEF TypeOK
  <2> QED BY <2>1 DEF Monus
<1> QED BY <1>1 DEF MarksTrue, SpentConfirmed

\* In a chain without reorganisations the minter never selects a UTXO that a
\* payout spends or that an open call may be sending.
THEOREM FreeUnspent ==
  ASSUME OneMintEach, OneCollect, MaxReorgs = 0 PROVE Spec => []FreeIsUnspent
<1>1. Init => PoolInv /\ MarksTrue
  BY InitPool DEF Init, InitWorld, InitCanister, IdleFinalize, MarksTrue
<1>2. TypeOK /\ RecordsSpend /\ MarksTrue /\ [Next]_vars => RecordsSpend' /\ MarksTrue'
  BY NextRecords, NextMarks
<1>3. TypeOK /\ MarksTrue => MarksSettled
  BY TrueSettled
<1>4. PoolInv => RecordsSpend
  BY DEF PoolInv, DepositInv
<1> QED BY <1>1, <1>2, <1>3, <1>4, TypeCorrect, PoolSpendable, PTL DEF Spec

-----------------------------------------------------------------------------
(* FailedBurnRetryable: the inductive invariant *)

\* Burns do not overlap: the canister has one burn_ckdoge or retry open.
OneBurn == \A c, d \in BurnCalls : c = d

\* A burn that is not marked yet has selected enough, and no other burn has
\* taken of it; one that is being paid has what is marked for it.
CallsCover ==
  \A c \in BurnCalls :
    /\ burns[c].pc \in {"burn", "burned"} =>
         /\ burns[c].amount <= TotalValue(burns[c].utxos)
         /\ \A u \in burns[c].utxos : /\ ~Spends(u)
                                      /\ u \in Unsent => collected_utxos[u].block = 0
    /\ burns[c].pc \in {"sign", "sent"} =>
         \A u \in burns[c].utxos \cap Unsent :
           collected_utxos[u].block \in {0, burns[c].block}

\* An input of a payout that is marked as not sent waits for that payout.
SpentWaits ==
  \A t \in DOMAIN network : \A u \in network[t].ins \cap Unsent :
    collected_utxos[u].block \in {0, network[t].block}

\* A record is of the burn its payout serves, which waits no more.
RecordsServe ==
  /\ \A b \in DOMAIN burned_utxos :
       network[burned_utxos[b].tx].block = b /\ b \notin DOMAIN burning_utxos
  /\ \A c \in FinalizeCalls : finals[c].pc # "idle" =>
       network[finals[c].bu.tx].block = finals[c].block
  /\ \A c \in BurnCalls : burns[c].pc = "sent" =>
       network[burns[c].tx].block = burns[c].block

\* Every waiting burn, failed or not, has marked UTXOs that cover it.
WaitingCovered ==
  \A b \in DOMAIN burning_utxos : burning_utxos[b].amount <= TotalValue(RetryUtxos(b))

RetryInv == CallsCover /\ SpentWaits /\ RecordsServe /\ WaitingCovered

LEMMA TotalStays ==
  ASSUME TypeOK, [Next]_vars, NEW S, S \subseteq DOMAIN utxos
  PROVE  TotalValue(S)' = TotalValue(S)
<1> DEFINE P(g) == g = [s \in SUBSET S |->
                     IF s = {} THEN 0
                     ELSE utxos[CHOOSE x \in s : TRUE].value
                            + g[s \ {CHOOSE x \in s : TRUE}]]
           Q(g) == g = [s \in SUBSET S |->
                     IF s = {} THEN 0
                     ELSE utxos'[CHOOSE x \in s : TRUE].value
                            + g[s \ {CHOOSE x \in s : TRUE}]]
<1>1. TotalValue(S) = (CHOOSE g : P(g))[S]
  BY DEF TotalValue, MapThenSumSet, MapThenFoldSet
<1>2. TotalValue(S)' = (CHOOSE g : Q(g))[S]
  BY DEF TotalValue, MapThenSumSet, MapThenFoldSet
<1>3. \A s \in SUBSET S : s # {} =>
        utxos'[CHOOSE x \in s : TRUE].value = utxos[CHOOSE x \in s : TRUE].value
  BY OwnersStay
<1>4. \A g : P(g) <=> Q(g)
  BY <1>3
<1>5. (CHOOSE g : P(g)) = (CHOOSE g : Q(g))
  BY <1>4
<1> QED BY <1>1, <1>2, <1>5

LEMMA TotalGrows ==
  ASSUME WorldTypes, NEW T \in SUBSET DOMAIN utxos, NEW S \in SUBSET T
  PROVE  TotalValue(S) <= TotalValue(T)
<1> DEFINE f == [u \in T |-> utxos[u].value]
<1>1. IsFiniteSet(T) /\ \A u \in T : f[u] \in Nat
  <2>1. DOMAIN utxos = 1..Len(utxos) /\ Len(utxos) \in Nat
    BY DEF WorldTypes
  <2>2. IsFiniteSet(1..Len(utxos))
    BY <2>1, FS_Interval
  <2> QED BY <2>1, <2>2, FS_Subset, UtxoTypes
<1>2. Sum(f, S) <= Sum(f, T)
  <2> HIDE DEF f
  <2> QED BY <1>1, SumSubset
<1>3. Sum(f, S) = Sum([u \in S |-> utxos[u].value], S)
  <2> DEFINE g == [u \in S |-> utxos[u].value]
  <2>1. IsFiniteSet(S) /\ \A u \in S : f[u] = g[u] /\ g[u] \in Nat
    BY <1>1, FS_Subset
  <2> HIDE DEF f, g
  <2>2. Sum(f, S) = Sum(g, S)
    BY <2>1, SumSame
  <2> QED BY <2>2 DEF g
<1> QED BY <1>2, <1>3, TotalIsSum

TotalsGrow ==
  \A X \in SUBSET DOMAIN utxos :
    TotalValue(X) \in Nat /\ \A Y \in SUBSET X : TotalValue(Y) <= TotalValue(X)
LEMMA TotalOrder == WorldTypes => TotalsGrow
  BY TotalGrows, TotalNat DEF TotalsGrow

LEMMA BlocksStay ==
  ASSUME TypeOK, [Next]_vars
  PROVE  /\ \A t \in DOMAIN network : t \in DOMAIN network' /\ network'[t].block = network[t].block
         /\ \A c \in BurnCalls : SendTx(c) => network'[Len(network) + 1].block = burns[c].block
<1>0. /\ \A t \in DOMAIN network : network[t] \in Payouts
      /\ network \in Seq(Payouts)
  BY DEF TypeOK, WorldTypes
<1>1. ASSUME NEW c \in BurnCalls, SendTx(c) PROVE
        /\ \A t \in DOMAIN network : t \in DOMAIN network' /\ network'[t] = network[t]
        /\ network'[Len(network) + 1].block = burns[c].block
  BY <1>0, <1>1 DEF SendTx
<1>2. ASSUME NewBlock \/ Reorg PROVE
        \A t \in DOMAIN network : t \in DOMAIN network' /\ network'[t].block = network[t].block
  BY <1>0, <1>2 DEF NewBlock, Reorg, Payouts
<1>3. \/ \E c \in BurnCalls : SendTx(c)
      \/ NewBlock \/ Reorg \/ UNCHANGED network
  BY DEF Next, MintAnswers, MintSteps, BurnAnswers, BurnSteps, TxAnswers, FinalizeSteps,
     MintStart, LedgerMint, LedgerRefusesMint, MintListed, MintMinted, MintRefused,
     BurnStart, RetryStart, LedgerBurn, LedgerRefusesBurn, PayoutFails, BurnBalance,
     BurnBurned, BurnSent, BurnUnsent, FinalizeStart, TxStatus, TxStatusFails,
     FinalizeMined, FinalizeUnmined, FinalizeDropped, CollectStart, CollectListed,
     Deposit, chain, vars
<1> QED BY <1>1, <1>2, <1>3

LEMMA WaitingMoves ==
  ASSUME [Next]_vars
  PROVE  /\ \A b \in DOMAIN burning_utxos' :
              \/ /\ b \in DOMAIN burning_utxos
                 /\ burning_utxos'[b].amount = burning_utxos[b].amount
              \/ \E c \in BurnCalls : /\ BurnBurned(c) /\ b = burns[c].block
                                      /\ burning_utxos'[b].amount = burns[c].amount
         /\ \A c \in BurnCalls : BurnSent(c) => burns[c].block \notin DOMAIN burning_utxos'
<1>1. ASSUME NEW c \in BurnCalls, BurnBurned(c), NEW b \in DOMAIN burning_utxos'
      PROVE  \/ /\ b \in DOMAIN burning_utxos
                /\ burning_utxos'[b].amount = burning_utxos[b].amount
             \/ b = burns[c].block /\ burning_utxos'[b].amount = burns[c].amount
  BY <1>1 DEF BurnBurned
<1>2. ASSUME NEW c \in BurnCalls, BurnSent(c)
      PROVE  /\ burns[c].block \notin DOMAIN burning_utxos'
             /\ \A b \in DOMAIN burning_utxos' :
                  b \in DOMAIN burning_utxos /\ burning_utxos'[b] = burning_utxos[b]
  BY <1>2 DEF BurnSent
<1>3. ASSUME NEW c \in BurnCalls, BurnUnsent(c), NEW b \in DOMAIN burning_utxos'
      PROVE  b \in DOMAIN burning_utxos /\ burning_utxos'[b].amount = burning_utxos[b].amount
  BY <1>3 DEF BurnUnsent, WithError
<1>4. \/ \E c \in BurnCalls : BurnBurned(c) \/ BurnSent(c) \/ BurnUnsent(c)
      \/ UNCHANGED burning_utxos
  BY DEF Next, MintAnswers, MintSteps, BurnAnswers, BurnSteps, TxAnswers, FinalizeSteps,
     MintStart, LedgerMint, LedgerRefusesMint, MintListed, MintMinted, MintRefused,
     BurnStart, RetryStart, LedgerBurn, LedgerRefusesBurn, PayoutFails, SendTx, BurnBalance,
     FinalizeStart, TxStatus, TxStatusFails, FinalizeMined, FinalizeUnmined,
     FinalizeDropped, CollectStart, CollectListed, Deposit, NewBlock, Reorg, stores, vars
<1> QED BY <1>1, <1>2, <1>3, <1>4

\* A mark that is not of a payout: kept, set free, or set by the burn that
\* is being recorded.
LEMMA UnsentMoves ==
  ASSUME TypeOK, [Next]_vars, NEW u \in Unsent'
  PROVE  \/ u \in Unsent /\ collected_utxos'[u] = collected_utxos[u]
         \/ collected_utxos'[u].block = 0
         \/ \E c \in BurnCalls : /\ BurnBurned(c) /\ u \in burns[c].utxos
                                 /\ collected_utxos'[u].block = burns[c].block
<1>1. Marked(u) /\ collected_utxos'[u].height = 0
  BY MarkMoves DEF Unsent
<1>2. ASSUME NEW c \in FinalizeCalls, FinalizeMined(c),
             collected_utxos'[u] = [block |-> finals[c].block, height |-> finals[c].status]
      PROVE  FALSE
  <2>1. finals[c].status # 0
    BY <1>2 DEF FinalizeMined
  <2> QED BY <1>1, <1>2, <2>1
<1> QED BY <1>1, <1>2 DEF Marked, Unsent

LEMMA NextCallsCover ==
  ASSUME OneBurn, TypeOK, FreeIsUnspent, CallsCover, [Next]_vars PROVE CallsCover'
<1> SUFFICES ASSUME NEW c \in BurnCalls
             PROVE  /\ burns'[c].pc \in {"burn", "burned"} =>
                         /\ burns'[c].amount <= TotalValue(burns[c].utxos)'
                         /\ \A u \in burns'[c].utxos :
                              /\ ~Spends(u)'
                              /\ u \in Unsent' => collected_utxos'[u].block = 0
                    /\ burns'[c].pc \in {"sign", "sent"} =>
                         \A u \in burns'[c].utxos \cap Unsent' :
                           collected_utxos'[u].block \in {0, burns'[c].block}
  BY DEF CallsCover
<1>0. /\ BurnMoved(c) /\ burns[c].utxos \subseteq DOMAIN utxos /\ burns[c].amount \in Nat
      /\ \A u \in Unsent' : \/ u \in Unsent /\ collected_utxos'[u] = collected_utxos[u]
                            \/ collected_utxos'[u].block = 0
                            \/ BurnBurned(c) /\ collected_utxos'[u].block = burns[c].block
  BY BurnMoves, UnsentMoves DEF OneBurn, TypeOK, BurnTypes
<1>1. ASSUME burns'[c].pc \in {"burn", "burned"}, burns[c].pc \in {"burn", "burned"},
             burns'[c].utxos = burns[c].utxos, burns'[c].amount = burns[c].amount
      PROVE  /\ burns'[c].amount <= TotalValue(burns[c].utxos)'
             /\ \A u \in burns'[c].utxos :
                  ~Spends(u)' /\ (u \in Unsent' => collected_utxos'[u].block = 0)
  <2>1. PICK S \in SUBSET DOMAIN utxos : S = burns[c].utxos
    BY <1>0
  <2>2. TotalValue(burns[c].utxos)' = TotalValue(S)'
    BY <1>1, <2>1
  <2>5. TotalValue(S)' = TotalValue(S)
    BY TotalStays
  <2>3. ~BurnBurned(c) /\ ~SendTx(c)
    BY <1>1 DEF BurnBurned, SendTx, TypeOK, BurnTypes
  <2>4. ASSUME NEW u \in burns[c].utxos PROVE ~Spends(u)'
    <3>1. ~Spends(u)
      BY <1>1, <2>4 DEF CallsCover
    <3>2. \A t \in DOMAIN network' : t \in DOMAIN network /\ network'[t].ins = network[t].ins
      BY <2>3, NetworkMoves DEF OneBurn
    <3> QED BY <3>1, <3>2 DEF Spends
  <2> QED BY <1>0, <1>1, <2>1, <2>2, <2>3, <2>4, <2>5 DEF CallsCover
<1>2. ASSUME burns'[c].pc = "burn", UNCHANGED <<collected_utxos, chain>>,
             burns'[c].amount = burns[c].amount,
             burns'[c].utxos = SelectUtxos(burns[c].amount),
             burns[c].amount <= TotalValue(burns'[c].utxos)
      PROVE  /\ burns'[c].amount <= TotalValue(burns[c].utxos)'
             /\ \A u \in burns'[c].utxos :
                  ~Spends(u)' /\ (u \in Unsent' => collected_utxos'[u].block = 0)
  <2>1. burns'[c].utxos \subseteq FreeUtxos
    BY <1>0, <1>2, SelectTypes
  <2>2. FreeUtxos \subseteq DOMAIN utxos
    BY DEF FreeUtxos, TypeOK, StoreTypes
  <2>3. burns'[c].amount <= TotalValue(burns[c].utxos)'
    <3>1. PICK S \in SUBSET DOMAIN utxos : S = burns'[c].utxos
      BY <2>1, <2>2
    <3>2. TotalValue(burns[c].utxos)' = TotalValue(S)' /\ TotalValue(S)' = TotalValue(S)
      BY <3>1, TotalStays
    <3> QED BY <1>2, <3>1, <3>2
  <2>4. \A u \in burns'[c].utxos : collected_utxos'[u].block = 0
    BY <1>2, <2>1 DEF FreeUtxos
  <2>5. \A u \in burns'[c].utxos : ~Spends(u)'
    BY <1>2, <2>1 DEF FreeIsUnspent, Spends, chain
  <2> QED BY <2>3, <2>4, <2>5
<1>3. ASSUME burns'[c].pc \in {"sign", "sent"}, burns'[c].utxos = burns[c].utxos,
             burns'[c].block = burns[c].block,
             burns[c].pc \in {"sign", "sent"} \/ BurnBurned(c)
      PROVE  \A u \in burns'[c].utxos \cap Unsent' :
               collected_utxos'[u].block \in {0, burns'[c].block}
  <2>1. burns[c].pc \in {"sign", "sent", "burned"}
    BY <1>3 DEF BurnBurned
  <2> QED BY <1>0, <1>3, <2>1 DEF CallsCover
<1>4. ASSUME UNCHANGED collected_utxos, NEW b \in DOMAIN burning_utxos,
             burns'[c].block = b, burns'[c].utxos = RetryUtxos(b)
      PROVE  \A u \in burns'[c].utxos \cap Unsent' :
               collected_utxos'[u].block \in {0, burns'[c].block}
  BY <1>4 DEF RetryUtxos
<1>5. burns'[c].pc \in {"sign", "sent"} /\ burns'[c].utxos = burns[c].utxos
        /\ burns'[c].block = burns[c].block
        /\ (burns'[c].pc = "sent" => burns'[c] = burns[c] \/ SendTx(c))
        /\ (burns'[c].pc = "sign" => burns[c].pc \in {"burned", "sign"})
        /\ (burns[c].pc \in Sending \/ BurnBurned(c))
      => burns[c].pc \in {"sign", "sent"} \/ BurnBurned(c)
  BY DEF SendTx, Sending
<1> QED BY <1>0, <1>1, <1>2, <1>3, <1>4, <1>5 DEF BurnMoved, Holding, Sending

LEMMA NextSpentWaits ==
  ASSUME TypeOK, CallsCover, SpentWaits, [Next]_vars PROVE SpentWaits'
<1> SUFFICES ASSUME NEW t \in DOMAIN network', NEW u \in network'[t].ins, u \in Unsent'
             PROVE  collected_utxos'[u].block \in {0, network'[t].block}
  BY DEF SpentWaits
<1>1. CASE t \notin DOMAIN network
  <2>1. PICK c \in BurnCalls : /\ SendTx(c) /\ t = Len(network) + 1
                               /\ network'[t].ins = burns[c].utxos
    BY <1>1, NetworkMoves
  <2>2. network'[t].block = burns[c].block
    BY <2>1, BlocksStay
  <2>3. burns[c].pc = "sign" /\ collected_utxos' = collected_utxos
    BY <2>1 DEF SendTx, stores
  <2> QED BY <2>1, <2>2, <2>3 DEF CallsCover, Unsent
<1>2. CASE t \in DOMAIN network
  <2>1. u \in network[t].ins /\ network'[t].block = network[t].block
    BY <1>2, NetworkMoves, BlocksStay
  <2>2. ~\E c \in BurnCalls : BurnBurned(c) /\ u \in burns[c].utxos
    BY <1>2, <2>1 DEF BurnBurned, CallsCover, Spends
  <2> QED BY <1>2, <2>1, <2>2, UnsentMoves DEF SpentWaits
<1> QED BY <1>1, <1>2

LEMMA NextRecordsServe ==
  ASSUME TypeOK, PayoutInv, RecordsServe, [Next]_vars PROVE RecordsServe'
<1>0. /\ \A b \in DOMAIN burned_utxos : burned_utxos[b].tx \in DOMAIN network
      /\ \A c \in FinalizeCalls : finals[c].pc # "idle" =>
           /\ finals[c].bu.tx \in DOMAIN network /\ finals[c].block \in DOMAIN burned_utxos
           /\ finals[c].bu = [utxos |-> finals[c].bu.utxos, tx |-> finals[c].bu.tx,
                              height |-> finals[c].bu.height]
      /\ \A c \in BurnCalls : burns[c].pc = "sent" => burns[c].tx \in DOMAIN network
  BY DEF TypeOK, StoreTypes, TimerTypes, BurnTypes, OpenCalls
<1>1. ASSUME NEW b \in DOMAIN burned_utxos'
      PROVE  network'[burned_utxos'[b].tx].block = b /\ b \notin DOMAIN burning_utxos'
  <2>1. ASSUME b \in DOMAIN burned_utxos PROVE b \notin DOMAIN burning_utxos'
    <3>1. b \in Used /\ b \notin DOMAIN burning_utxos
      BY <2>1, UsedParts DEF RecordsServe
    <3>2. \A c \in BurnCalls : BurnBurned(c) => burns[c].block \notin Used
      BY DEF BurnBurned, PayoutInv, Fresh
    <3> QED BY <3>1, <3>2, WaitingMoves
  <2>2. CASE b \in DOMAIN burned_utxos /\ burned_utxos'[b] = burned_utxos[b]
    BY <1>0, <2>1, <2>2, BlocksStay DEF RecordsServe
  <2>3. ASSUME NEW c \in FinalizeCalls, finals[c].pc = "status", b = finals[c].block,
               burned_utxos'[b] = [finals[c].bu EXCEPT !.height = finals[c].status]
        PROVE  network'[burned_utxos'[b].tx].block = b /\ b \notin DOMAIN burning_utxos'
    <3>1. burned_utxos'[b].tx = finals[c].bu.tx /\ b \in DOMAIN burned_utxos
      BY <1>0, <2>3
    <3>2. finals[c].bu.tx \in DOMAIN network /\ network[finals[c].bu.tx].block = b
      BY <1>0, <2>3 DEF RecordsServe
    <3>3. network'[finals[c].bu.tx].block = b
      BY <3>2, BlocksStay
    <3> QED BY <2>1, <3>1, <3>3
  <2>4. ASSUME NEW c \in BurnCalls, BurnSent(c), b = burns[c].block,
               burned_utxos'[b] = [utxos |-> burns[c].utxos, tx |-> burns[c].tx, height |-> 0]
        PROVE  network'[burned_utxos'[b].tx].block = b /\ b \notin DOMAIN burning_utxos'
    <3>1. burns[c].pc = "sent" /\ burned_utxos'[b].tx = burns[c].tx
      BY <2>4 DEF BurnSent
    <3>2. network[burns[c].tx].block = b /\ burns[c].tx \in DOMAIN network
      BY <1>0, <2>4, <3>1 DEF RecordsServe
    <3>3. network'[burns[c].tx].block = b
      BY <3>2, BlocksStay
    <3> QED BY <2>4, <3>1, <3>3, WaitingMoves
  <2> QED BY <2>2, <2>3, <2>4, RecordMoves
<1>2. ASSUME NEW c \in FinalizeCalls, finals'[c].pc # "idle"
      PROVE  network'[finals'[c].bu.tx].block = finals'[c].block
  <2>1. \/ finals'[c] = finals[c]
        \/ /\ finals[c].pc = "query" /\ finals'[c].bu = finals[c].bu
           /\ finals'[c].block = finals[c].block
        \/ \E b \in DOMAIN burned_utxos :
             finals'[c].bu = burned_utxos[b] /\ finals'[c].block = b
    BY <1>2, FinalMoves DEF FinalMoved
  <2>2. /\ finals'[c].bu.tx \in DOMAIN network
        /\ network[finals'[c].bu.tx].block = finals'[c].block
    BY <1>0, <1>2, <2>1 DEF RecordsServe
  <2> QED BY <2>2, BlocksStay
<1>3. ASSUME NEW c \in BurnCalls, burns'[c].pc = "sent"
      PROVE  network'[burns'[c].tx].block = burns'[c].block
  <2>1. \/ burns'[c] = burns[c]
        \/ /\ SendTx(c) /\ burns'[c].tx = Len(network) + 1
           /\ burns'[c].block = burns[c].block
    BY <1>3, BurnMoves DEF BurnMoved, Sending, Holding
  <2> QED BY <1>0, <1>3, <2>1, BlocksStay DEF RecordsServe
<1> QED BY <1>1, <1>2, <1>3 DEF RecordsServe

\* What waits for a burn goes on waiting while the burn does.
LEMMA WaitingStays ==
  ASSUME TypeOK, MintInv, PayoutInv, DepositInv, CallsCover, SpentWaits, RecordsServe,
         [Next]_vars, NEW b \in DOMAIN burning_utxos, b \in DOMAIN burning_utxos'
  PROVE  RetryUtxos(b) \subseteq RetryUtxos(b)'
<1> SUFFICES ASSUME NEW u \in DOMAIN collected_utxos, collected_utxos[u].block = b,
                    collected_utxos[u].height = 0
             PROVE  /\ u \in DOMAIN collected_utxos'
                    /\ collected_utxos'[u] = collected_utxos[u]
  BY DEF RetryUtxos
<1>0. b # 0 /\ b \in Used /\ u \in Unsent
  BY UsedParts DEF PayoutInv, Fresh, Unsent
<1>1. u \in DOMAIN collected_utxos'
  BY MarkMoves DEF Dropped
<1>2. ASSUME NEW c \in MintCalls, MintMinted(c), u = mints[c].cur PROVE FALSE
  BY <1>2, MintedGrows DEF DepositInv, DepositsMinted, Known
<1>3. ASSUME NEW c \in BurnCalls, BurnBurned(c), u \in burns[c].utxos PROVE FALSE
  BY <1>0, <1>3 DEF BurnBurned, CallsCover
<1>4. ASSUME NEW c \in BurnCalls, BurnSent(c), u \in burns[c].utxos PROVE FALSE
  <2>1. b = burns[c].block
    BY <1>0, <1>4 DEF BurnSent, CallsCover
  <2> QED BY <1>4, <2>1, WaitingMoves
<1>5. ASSUME NEW c \in FinalizeCalls, FinalizeMined(c), u \in finals[c].bu.utxos PROVE FALSE
  <2>1. finals[c].pc # "idle"
    BY <1>5 DEF FinalizeMined
  <2>2. /\ finals[c].bu.tx \in DOMAIN network /\ finals[c].block \in DOMAIN burned_utxos
        /\ u \in network[finals[c].bu.tx].ins
        /\ network[finals[c].bu.tx].block = finals[c].block
    BY <1>5, <2>1 DEF TypeOK, TimerTypes, OpenCalls, DepositInv, RecordsSpend, RecordsServe
  <2>3. b = finals[c].block
    BY <1>0, <2>2 DEF SpentWaits
  <2> QED BY <2>2, <2>3 DEF RecordsServe
<1> QED BY <1>1, <1>2, <1>3, <1>4, <1>5, MarkMoves DEF Marked

LEMMA NextCovered ==
  ASSUME TypeOK, TypeOK', MintInv, PayoutInv, DepositInv, RetryInv, [Next]_vars
  PROVE  WaitingCovered'
<1> SUFFICES ASSUME NEW b \in DOMAIN burning_utxos'
             PROVE  burning_utxos'[b].amount <= TotalValue(RetryUtxos(b))'
  BY DEF WaitingCovered
<1>0. /\ RetryUtxos(b) \subseteq DOMAIN utxos /\ RetryUtxos(b)' \subseteq DOMAIN utxos'
      /\ WorldTypes /\ WorldTypes' /\ burning_utxos'[b].amount \in Nat
      /\ DOMAIN utxos \subseteq DOMAIN utxos'
  BY OwnersStay DEF RetryUtxos, TypeOK, StoreTypes
<1>1. ASSUME NEW S \in SUBSET DOMAIN utxos, burning_utxos'[b].amount <= TotalValue(S),
             S \subseteq RetryUtxos(b)'
      PROVE  burning_utxos'[b].amount <= TotalValue(RetryUtxos(b))'
  <2>1. TotalValue(S)' = TotalValue(S) /\ TotalValue(S) \in Nat
    BY <1>0, TotalStays, TotalNat
  <2>2. PICK T \in SUBSET DOMAIN utxos' : T = RetryUtxos(b)'
    BY <1>0
  <2>3. TotalValue(S)' <= TotalValue(T)' /\ TotalValue(T)' \in Nat
    <3>1. TotalsGrow'
      BY <1>0, TotalOrder, PTL
    <3> QED BY <1>0, <1>1, <2>2, <3>1 DEF TotalsGrow
  <2>4. TotalValue(RetryUtxos(b))' = TotalValue(T)'
    BY <2>2
  <2> QED BY <1>0, <1>1, <2>1, <2>3, <2>4
<1>2. ASSUME b \in DOMAIN burning_utxos, burning_utxos'[b].amount = burning_utxos[b].amount
      PROVE  burning_utxos'[b].amount <= TotalValue(RetryUtxos(b))'
  <2>1. PICK S \in SUBSET DOMAIN utxos : S = RetryUtxos(b)
    BY <1>0
  <2>2. S \subseteq RetryUtxos(b)'
    BY <1>2, <2>1, WaitingStays DEF RetryInv
  <2>3. burning_utxos'[b].amount <= TotalValue(S)
    BY <1>2, <2>1 DEF RetryInv, WaitingCovered
  <2> QED BY <1>1, <2>2, <2>3
<1>3. ASSUME NEW c \in BurnCalls, BurnBurned(c), b = burns[c].block,
             burning_utxos'[b].amount = burns[c].amount
      PROVE  burning_utxos'[b].amount <= TotalValue(RetryUtxos(b))'
  <2>1. PICK S \in SUBSET DOMAIN utxos : S = burns[c].utxos
    BY DEF TypeOK, BurnTypes
  <2>2. burning_utxos'[b].amount <= TotalValue(S)
    BY <1>3, <2>1 DEF RetryInv, CallsCover, BurnBurned
  <2>3. collected_utxos' = MarkUtxos(S, b, 0)
    BY <1>3, <2>1 DEF BurnBurned
  <2>4. \A u \in S : u \in DOMAIN collected_utxos'
                     /\ collected_utxos'[u] = [block |-> b, height |-> 0]
    BY <2>3, MarkStep
  <2>5. S \subseteq RetryUtxos(b)'
    BY <2>4 DEF RetryUtxos
  <2> QED BY <1>1, <2>2, <2>5
<1> QED BY <1>2, <1>3, WaitingMoves

\* Every burn that is recorded and not paid keeps what covers it, as long as
\* the pool is spendable and no two burns are open at a time.
THEOREM BurnsRetryable ==
  ASSUME OneMintEach, OneBurn PROVE Spec /\ []FreeIsUnspent => []FailedBurnRetryable
<1>1. Init => MintInv /\ PayoutInv /\ DepositInv /\ RetryInv
  <2>1. Init => RetryInv
    BY DEF Init, InitCanister, InitWorld, IdleBurn, IdleFinalize, RetryInv, CallsCover,
       SpentWaits, RecordsServe, WaitingCovered
  <2> QED BY <2>1, InitPool, InitPayout DEF PoolInv
<1>2. /\ TypeOK /\ TypeOK' /\ MintInv /\ PayoutInv /\ DepositInv /\ RetryInv /\ FreeIsUnspent
      /\ [Next]_vars
      => MintInv' /\ PayoutInv' /\ DepositInv' /\ RetryInv'
  <2> SUFFICES ASSUME TypeOK, TypeOK', MintInv, PayoutInv, DepositInv, RetryInv,
                      FreeIsUnspent, [Next]_vars
               PROVE  MintInv' /\ PayoutInv' /\ DepositInv' /\ RetryInv'
    OBVIOUS
  <2>1. DepositInv'
    BY NextRecords, NextLists, NextDeposits DEF DepositInv
  <2>2. RetryInv'
    BY NextCallsCover, NextSpentWaits, NextRecordsServe, NextCovered DEF RetryInv
  <2> QED BY <2>1, <2>2, NextMint, NextPayout
<1>3. TypeOK /\ RetryInv => FailedBurnRetryable
  <2> SUFFICES ASSUME TypeOK, RetryInv, NEW b \in DOMAIN burning_utxos
               PROVE  TotalValue(RetryUtxos(b)) >= burning_utxos[b].amount
    BY DEF FailedBurnRetryable, RetryUtxos
  <2>1. burning_utxos[b].amount \in Nat /\ RetryUtxos(b) \in SUBSET DOMAIN utxos
    BY DEF TypeOK, StoreTypes, RetryUtxos
  <2> QED BY <2>1, TotalNat DEF RetryInv, WaitingCovered, TypeOK
<1> QED BY <1>1, <1>2, <1>3, TypeCorrect, PTL DEF Spec

\* Without reorganisations and with one collector the pool is spendable.
THEOREM FailedRetryable ==
  ASSUME OneMintEach, OneBurn, OneCollect, MaxReorgs = 0
  PROVE  Spec => []FailedBurnRetryable
  BY FreeUnspent, BurnsRetryable, PTL

-----------------------------------------------------------------------------
(* TrackedUntilMined: the inductive invariant *)

\* A height that is remembered for a payout is one it has been mined at.
SeenIsMined ==
  /\ \A b \in DOMAIN burned_utxos :
       burned_utxos[b].height # 0 => network[burned_utxos[b].tx].height # 0
  /\ \A c \in FinalizeCalls : finals[c].pc # "idle" /\ finals[c].bu.height # 0 =>
       network[finals[c].bu.tx].height # 0
FollowInv == RecordsSpend /\ RecordsServe /\ MarksTrue /\ SeenIsMined

LEMMA NextSeen ==
  ASSUME MaxReorgs = 0, TypeOK, MarksTrue, SeenIsMined, [Next]_vars
  PROVE  SeenIsMined'
<1>0. /\ \A b \in DOMAIN burned_utxos : burned_utxos[b].tx \in DOMAIN network
      /\ \A c \in FinalizeCalls : finals[c].pc # "idle" =>
           /\ finals[c].bu.tx \in DOMAIN network
           /\ finals[c].bu = [utxos |-> finals[c].bu.utxos, tx |-> finals[c].bu.tx,
                              height |-> finals[c].bu.height]
  BY DEF TypeOK, StoreTypes, TimerTypes, OpenCalls
<1>1. \A t \in DOMAIN network : network[t].height # 0 => network'[t].height # 0
  BY HeightsStay
<1>2. ASSUME NEW b \in DOMAIN burned_utxos', burned_utxos'[b].height # 0
      PROVE  network'[burned_utxos'[b].tx].height # 0
  <2>1. CASE b \in DOMAIN burned_utxos /\ burned_utxos'[b] = burned_utxos[b]
    BY <1>0, <1>1, <1>2, <2>1 DEF SeenIsMined
  <2>2. ASSUME NEW c \in FinalizeCalls, finals[c].pc = "status",
               burned_utxos'[b] = [finals[c].bu EXCEPT !.height = finals[c].status]
        PROVE  network'[burned_utxos'[b].tx].height # 0
    <3>1. /\ burned_utxos'[b].tx = finals[c].bu.tx
          /\ burned_utxos'[b].height = finals[c].status
      BY <1>0, <2>2
    <3>2. finals[c].status = network[finals[c].bu.tx].height
      BY <1>2, <2>2, <3>1 DEF MarksTrue
    <3> QED BY <1>0, <1>1, <1>2, <2>2, <3>1, <3>2
  <2>3. ASSUME NEW c \in BurnCalls,
               burned_utxos'[b] = [utxos |-> burns[c].utxos, tx |-> burns[c].tx, height |-> 0]
        PROVE  FALSE
    BY <1>2, <2>3
  <2> QED BY <2>1, <2>2, <2>3, RecordMoves
<1>3. ASSUME NEW c \in FinalizeCalls, finals'[c].pc # "idle", finals'[c].bu.height # 0
      PROVE  network'[finals'[c].bu.tx].height # 0
  <2>1. \/ finals'[c] = finals[c]
        \/ finals[c].pc = "query" /\ finals'[c].bu = finals[c].bu
        \/ \E b \in DOMAIN burned_utxos : finals'[c].bu = burned_utxos[b]
    BY <1>3, FinalMoves DEF FinalMoved
  <2> QED BY <1>0, <1>1, <1>3, <2>1 DEF SeenIsMined
<1> QED BY <1>2, <1>3 DEF SeenIsMined

\* The queue holds what it held, unless the front leaves it.
LEMMA QueueMoves ==
  ASSUME TypeOK, [Next]_vars
  PROVE  \/ \E c \in FinalizeCalls : FinalizeStart(c)
         \/ \A b : (\E i \in DOMAIN unconfirmed_burning_utxos :
                       unconfirmed_burning_utxos[i] = b)
              => \E i \in DOMAIN unconfirmed_burning_utxos' :
                    unconfirmed_burning_utxos'[i] = b
<1> DEFINE q == unconfirmed_burning_utxos
<1>0. q \in Seq(DOMAIN burned_utxos)
  BY DEF TypeOK, StoreTypes
<1> HIDE DEF q
<1>1. ASSUME NEW x, q' = Append(q, x)
      PROVE  \A b : (\E i \in DOMAIN q : q[i] = b) => \E i \in DOMAIN q' : q'[i] = b
  <2> SUFFICES ASSUME NEW i \in DOMAIN q PROVE i \in DOMAIN q' /\ q'[i] = q[i]
    OBVIOUS
  <2>1. q \in Seq(DOMAIN burned_utxos \cup {x})
    BY <1>0
  <2> QED BY <1>1, <2>1
<1>2. \/ UNCHANGED unconfirmed_burning_utxos
      \/ \E c \in BurnCalls : BurnSent(c)
      \/ \E c \in FinalizeCalls : FinalizeStart(c) \/ FinalizeMined(c) \/ FinalizeUnmined(c)
  <2>1. ASSUME NEW c \in MintCalls, MintStart(c) \/ MintAnswers(c) \/ MintSteps(c)
        PROVE  UNCHANGED unconfirmed_burning_utxos
    BY <2>1 DEF MintAnswers, MintSteps, MintStart, LedgerMint, LedgerRefusesMint, MintListed,
       MintMinted, MintRefused, stores
  <2>2. ASSUME NEW c \in BurnCalls,
               \/ \E amount \in Amounts : BurnStart(c, amount)
               \/ \E b \in DOMAIN burning_utxos : RetryStart(c, b)
               \/ BurnAnswers(c) \/ BurnSteps(c)
        PROVE  UNCHANGED unconfirmed_burning_utxos \/ BurnSent(c)
    <3>1. CASE BurnAnswers(c)
      BY <3>1 DEF BurnAnswers, LedgerBurn, LedgerRefusesBurn, PayoutFails, SendTx, stores
    <3>2. CASE BurnSteps(c)
      BY <3>2 DEF BurnSteps, BurnBalance, BurnBurned, BurnUnsent, stores
    <3>3. CASE \E amount \in Amounts : BurnStart(c, amount)
      BY <3>3 DEF BurnStart, stores
    <3>4. CASE \E b \in DOMAIN burning_utxos : RetryStart(c, b)
      BY <3>4 DEF RetryStart, stores
    <3> QED BY <2>2, <3>1, <3>2, <3>3, <3>4
  <2>3. ASSUME NEW c \in FinalizeCalls, FinalizeStart(c) \/ TxAnswers(c) \/ FinalizeSteps(c)
        PROVE  \/ UNCHANGED unconfirmed_burning_utxos
               \/ FinalizeStart(c) \/ FinalizeMined(c) \/ FinalizeUnmined(c)
    BY <2>3 DEF TxAnswers, FinalizeSteps, TxStatus, TxStatusFails, FinalizeDropped, stores
  <2>4. ASSUME NEW c \in CollectCalls, CollectStart(c) \/ CollectListed(c)
        PROVE  UNCHANGED unconfirmed_burning_utxos
    BY <2>4 DEF CollectStart, CollectListed, stores
  <2>5. CASE NewBlock \/ Reorg \/ (\E p \in Users, v \in Values : Deposit(p, v))
               \/ UNCHANGED vars
    BY <2>5 DEF NewBlock, Reorg, Deposit, stores, vars
  <2> QED BY <2>1, <2>2, <2>3, <2>4, <2>5 DEF Next
<1>3. CASE UNCHANGED unconfirmed_burning_utxos
  BY <1>3
<1>4. ASSUME NEW c \in BurnCalls, BurnSent(c) PROVE \E x : q' = Append(q, x)
  BY <1>4 DEF BurnSent, q
<1>5. ASSUME NEW c \in FinalizeCalls, FinalizeMined(c) \/ FinalizeUnmined(c)
      PROVE  \E x : q' = Append(q, x)
  BY <1>5 DEF FinalizeMined, FinalizeUnmined, q
<1>6. CASE \E x : q' = Append(q, x)
  BY <1>1, <1>6 DEF q
<1> QED BY <1>2, <1>3, <1>4, <1>5, <1>6

\* A lookup ends with its block in the queue again, or as one that is mined.
LEMMA LookupEnds ==
  ASSUME "chain" \notin Faults, TypeOK, MarksTrue, SeenIsMined, [Next]_vars,
         NEW c \in FinalizeCalls, finals[c].pc # "idle",
         ~(finals'[c].pc # "idle" /\ finals'[c].block = finals[c].block)
  PROVE  \/ \E i \in DOMAIN unconfirmed_burning_utxos' :
              unconfirmed_burning_utxos'[i] = finals[c].block
         \/ network[finals[c].bu.tx].height # 0
<1>0. /\ finals \in [FinalizeCalls -> Range(finals)]
      /\ finals[c] = [pc |-> finals[c].pc, block |-> finals[c].block, bu |-> finals[c].bu,
                      status |-> finals[c].status]
  BY DEF TypeOK, TimerTypes, Range
<1>1. finals'[c] # finals[c]
  OBVIOUS
<1>2. FinalizeSteps(c)
  <2>1. ASSUME TxStatus(c) PROVE FALSE
    BY <1>0, <2>1 DEF TxStatus
  <2>2. ~TxStatusFails(c) /\ ~FinalizeStart(c)
    BY DEF TxStatusFails, FinalizeStart
  <2>3. ASSUME NEW d \in FinalizeCalls, d # c,
               FinalizeStart(d) \/ TxAnswers(d) \/ FinalizeSteps(d)
        PROVE  finals'[c] = finals[c]
    BY <1>0, <2>3 DEF FinalizeStart, TxAnswers, TxStatus, TxStatusFails, FinalizeSteps,
       FinalizeMined, FinalizeUnmined, FinalizeDropped
  <2>4. \/ UNCHANGED finals
        \/ \E d \in FinalizeCalls : FinalizeStart(d) \/ TxAnswers(d) \/ FinalizeSteps(d)
    <3>1. ASSUME NEW d \in MintCalls, MintStart(d) \/ MintAnswers(d) \/ MintSteps(d)
          PROVE  UNCHANGED finals
      BY <3>1 DEF MintAnswers, MintSteps, MintStart, LedgerMint, LedgerRefusesMint,
         MintListed, MintMinted, MintRefused
    <3>2. ASSUME NEW d \in BurnCalls,
                 \/ \E amount \in Amounts : BurnStart(d, amount)
                 \/ \E b \in DOMAIN burning_utxos : RetryStart(d, b)
                 \/ BurnAnswers(d) \/ BurnSteps(d)
          PROVE  UNCHANGED finals
      <4>1. CASE BurnAnswers(d)
        BY <4>1 DEF BurnAnswers, LedgerBurn, LedgerRefusesBurn, PayoutFails, SendTx
      <4>2. CASE BurnSteps(d)
        BY <4>2 DEF BurnSteps, BurnBalance, BurnBurned, BurnSent, BurnUnsent
      <4>3. CASE \E amount \in Amounts : BurnStart(d, amount)
        BY <4>3 DEF BurnStart
      <4>4. CASE \E b \in DOMAIN burning_utxos : RetryStart(d, b)
        BY <4>4 DEF RetryStart
      <4> QED BY <3>2, <4>1, <4>2, <4>3, <4>4
    <3>3. ASSUME NEW d \in CollectCalls, CollectStart(d) \/ CollectListed(d)
          PROVE  UNCHANGED finals
      BY <3>3 DEF CollectStart, CollectListed
    <3>4. CASE NewBlock \/ Reorg \/ (\E p \in Users, v \in Values : Deposit(p, v))
                 \/ UNCHANGED vars
      BY <3>4 DEF NewBlock, Reorg, Deposit, calls, vars
    <3> QED BY <3>1, <3>2, <3>3, <3>4 DEF Next
  <2>5. ~TxStatus(c)
    BY <2>1
  <2> QED BY <1>1, <2>2, <2>3, <2>4, <2>5 DEF TxAnswers
<1>3. CASE FinalizeMined(c) \/ FinalizeUnmined(c)
  <2>1. unconfirmed_burning_utxos' = Append(unconfirmed_burning_utxos, finals[c].block)
    BY <1>3 DEF FinalizeMined, FinalizeUnmined
  <2>2. unconfirmed_burning_utxos \in Seq(DOMAIN burned_utxos \cup {finals[c].block})
    BY DEF TypeOK, StoreTypes
  <2>3. /\ Len(unconfirmed_burning_utxos) + 1 \in DOMAIN unconfirmed_burning_utxos'
        /\ unconfirmed_burning_utxos'[Len(unconfirmed_burning_utxos) + 1] = finals[c].block
    BY <2>1, <2>2
  <2> QED BY <2>3
<1>4. CASE FinalizeDropped(c)
  BY <1>4 DEF FinalizeDropped, NeverSeen, MarksTrue, SeenIsMined
<1> QED BY <1>2, <1>3, <1>4 DEF FinalizeSteps

\* The front of the queue goes to the lookup that takes it.
LEMMA FrontFollowed ==
  ASSUME TypeOK, NEW c \in FinalizeCalls, FinalizeStart(c),
         NEW b, \E i \in DOMAIN unconfirmed_burning_utxos : unconfirmed_burning_utxos[i] = b
  PROVE  Tracked(b)'
<1> DEFINE q == unconfirmed_burning_utxos
<1>0. /\ q \in Seq(DOMAIN burned_utxos) /\ q # << >> /\ q' = Tail(q)
      /\ finals \in [FinalizeCalls -> Range(finals)]
  BY DEF TypeOK, StoreTypes, TimerTypes, Range, FinalizeStart
<1>1. PICK i \in DOMAIN q : q[i] = b
  OBVIOUS
<1>2. CASE i = 1
  <2>1. b = Head(q) /\ b \in DOMAIN burned_utxos
    <3> HIDE DEF q
    <3> QED BY <1>0, <1>1, <1>2
  <2>2. finals' = [finals EXCEPT ![c] =
           [pc |-> "query", block |-> b, bu |-> burned_utxos[b], status |-> 0]]
    BY <2>1 DEF FinalizeStart
  <2>3. finals'[c].pc # "idle" /\ finals'[c].block = b
    BY <1>0, <2>2
  <2> QED BY <2>3 DEF Tracked
<1>3. CASE i # 1
  <2>1. i - 1 \in DOMAIN q' /\ q'[i - 1] = b
    <3> HIDE DEF q
    <3> QED BY <1>0, <1>1, <1>3
  <2> QED BY <2>1 DEF Tracked
<1> QED BY <1>2, <1>3

LEMMA NextTracked ==
  ASSUME "chain" \notin Faults, TypeOK, PayoutOnce, FollowInv, [Next]_vars,
         NEW b \in DOMAIN burned_utxos, Tracked(b), ~Tracked(b)'
  PROVE  network[burned_utxos[b].tx].height # 0
<1>1. CASE \E i \in DOMAIN unconfirmed_burning_utxos : unconfirmed_burning_utxos[i] = b
  <2>1. ~ \E i \in DOMAIN unconfirmed_burning_utxos' : unconfirmed_burning_utxos'[i] = b
    BY DEF Tracked
  <2> QED BY <1>1, <2>1, QueueMoves, FrontFollowed
<1>2. ASSUME NEW c \in FinalizeCalls, finals[c].pc # "idle", finals[c].block = b
      PROVE  network[burned_utxos[b].tx].height # 0
  <2>1. ~(finals'[c].pc # "idle" /\ finals'[c].block = finals[c].block)
    BY <1>2 DEF Tracked
  <2>2. ~ \E i \in DOMAIN unconfirmed_burning_utxos' : unconfirmed_burning_utxos'[i] = b
    BY DEF Tracked
  <2>3. network[finals[c].bu.tx].height # 0
    BY <1>2, <2>1, <2>2, LookupEnds DEF FollowInv
  <2>4. finals[c].bu.tx \in DOMAIN network /\ burned_utxos[b].tx \in DOMAIN network
    BY <1>2 DEF TypeOK, StoreTypes, TimerTypes, OpenCalls
  <2>5. network[finals[c].bu.tx].block = b /\ network[burned_utxos[b].tx].block = b
    BY <1>2 DEF FollowInv, RecordsServe
  <2> QED BY <2>3, <2>4, <2>5 DEF PayoutOnce
<1> QED BY <1>1, <1>2 DEF Tracked

\* store.rs:664: without reorganisations, and as long as get_tx_status
\* answers, finalize_burning loses sight of a payout only when the payout is
\* in a block, however many timers and retries overlap.
THEOREM PayoutsFollowed ==
  ASSUME MaxReorgs = 0, "chain" \notin Faults PROVE Spec => TrackedUntilMined
<1> DEFINE Kept == \A b \in DOMAIN burned_utxos :
             Tracked(b) /\ ~Tracked(b)' => network[burned_utxos[b].tx].height # 0
<1>1. Init => PayoutInv /\ FollowInv
  <2>1. Init => RecordsServe /\ SeenIsMined /\ MarksTrue /\ RecordsSpend
    BY DEF Init, InitCanister, InitWorld, IdleFinalize, IdleBurn, RecordsServe, SeenIsMined,
       MarksTrue, RecordsSpend
  <2> QED BY <2>1, InitPayout DEF FollowInv
<1>2. TypeOK /\ PayoutInv /\ FollowInv /\ [Next]_vars => PayoutInv' /\ FollowInv'
  BY NextPayout, NextRecords, NextRecordsServe, NextMarks, NextSeen DEF FollowInv
<1>3. TypeOK /\ PayoutInv /\ FollowInv /\ [Next]_vars => [Kept]_vars
  BY NextTracked DEF PayoutInv
<1> QED BY <1>1, <1>2, <1>3, TypeCorrect, PTL DEF Spec, TrackedUntilMined

-----------------------------------------------------------------------------
(***************************************************************************)
(* CkDogeMinter implements Bridge, for every value of the constants that   *)
(* gives a principal one mint_ckdoge at a time; so the supply is backed.   *)
(***************************************************************************)

-----------------------------------------------------------------------------
(* What the canister knows of a burn is what the ledger has executed *)

Owes(b, amount) == b + 1 \in Entries("burn") /\ log[b + 1].amount = amount
OwedKnown ==
  /\ \A b \in DOMAIN burning_utxos : Owes(b, burning_utxos[b].amount)
  /\ \A c \in BurnCalls : burns[c].pc \in {"burned", "sign"} =>
       Owes(burns[c].block, burns[c].amount)

\* A ledger that only appends owes what it owed.
StillOwes(b, amount) == b + 1 \in Entries("burn")' /\ log'[b + 1].amount = amount
LEMMA OwesStays ==
  ASSUME TypeOK, [Next]_vars, NEW b, NEW amount, Owes(b, amount)
  PROVE  StillOwes(b, amount)
<1>1. \A i \in Entries("burn") : i \in Entries("burn")' /\ log'[i] = log[i]
  <2>1. CASE log' = log
    BY <2>1 DEF Entries
  <2>2. ASSUME NEW e, log' = Append(log, e) PROVE <1>1
    BY <2>2, EntriesAppend DEF TypeOK
  <2>3. log' = log \/ \E e : log' = Append(log, e)
    BY DEF Next, MintAnswers, MintSteps, BurnAnswers, BurnSteps, TxAnswers, FinalizeSteps,
       MintStart, LedgerMint, LedgerRefusesMint, MintListed, MintMinted, MintRefused,
       BurnStart, RetryStart, LedgerBurn, LedgerRefusesBurn, PayoutFails, SendTx,
       BurnBalance, BurnBurned, BurnSent, BurnUnsent, FinalizeStart, TxStatus,
       TxStatusFails, FinalizeMined, FinalizeUnmined, FinalizeDropped, CollectStart,
       CollectListed, Deposit, NewBlock, Reorg, ledger, vars
  <2> QED BY <2>1, <2>2, <2>3
<1> QED BY <1>1 DEF Owes, StillOwes

\* A step that takes on no new burn.
LEMMA OwedFrame ==
  ASSUME TypeOK, OwedKnown, [Next]_vars,
         \A b \in DOMAIN burning_utxos' :
           b \in DOMAIN burning_utxos /\ burning_utxos'[b].amount = burning_utxos[b].amount,
         \A c \in BurnCalls : burns'[c].pc \in {"burned", "sign"} =>
           Owes(burns'[c].block, burns'[c].amount)
  PROVE  OwedKnown'
<1>1. \A b \in DOMAIN burning_utxos' : Owes(b, burning_utxos'[b].amount)
  BY DEF OwedKnown
<1>2. \A b, amount : Owes(b, amount) => StillOwes(b, amount)
  BY OwesStays
<1> QED BY <1>1, <1>2 DEF OwedKnown, Owes, StillOwes

\* A step that only ends call c, or leaves its burn for later.
LEMMA OwedIdle ==
  ASSUME TypeOK, OwedKnown, [Next]_vars, NEW c \in BurnCalls,
         \A d \in BurnCalls : d # c => burns'[d] = burns[d],
         burns'[c].pc \notin {"burned", "sign"},
         \A b \in DOMAIN burning_utxos' :
           b \in DOMAIN burning_utxos /\ burning_utxos'[b].amount = burning_utxos[b].amount
  PROVE  OwedKnown'
<1>1. \A d \in BurnCalls : burns'[d].pc \in {"burned", "sign"} =>
        Owes(burns'[d].block, burns'[d].amount)
  BY DEF OwedKnown
<1> QED BY <1>1, OwedFrame

LEMMA BurnOwed ==
  ASSUME TypeOK, OwedKnown, [Next]_vars, NEW c \in BurnCalls,
         BurnAnswers(c) \/ BurnSteps(c)
           \/ (\E amount \in Amounts : BurnStart(c, amount))
           \/ (\E b \in DOMAIN burning_utxos : RetryStart(c, b))
  PROVE  OwedKnown'
<1>0. /\ burns \in [BurnCalls -> Range(burns)]
      /\ \A d \in BurnCalls : burns[d] \in
           [pc : {"idle", "balance", "burn", "burned", "sign", "sent", "unsent"},
            amount : Nat, balance : Nat, utxos : SUBSET DOMAIN utxos,
            block : Nat, tx : {0} \cup DOMAIN network]
  BY DEF TypeOK, BurnTypes, Range
<1>1. CASE burning_utxos' = burning_utxos /\ (\A d \in BurnCalls : d # c => burns'[d] = burns[d])
             /\ burns'[c].pc \notin {"burned", "sign"}
  BY <1>1, OwedIdle
<1>2. ASSUME NEW amount \in Amounts, BurnStart(c, amount) PROVE OwedKnown'
  <2>1. burns' = [burns EXCEPT ![c] =
          [IdleBurn EXCEPT !.pc = "balance", !.amount = amount,
                           !.balance = balances[CallerOf[c]]]]
        /\ burning_utxos' = burning_utxos
    BY <1>2 DEF BurnStart, stores
  <2> QED BY <1>0, <1>1, <2>1 DEF IdleBurn
<1>3. CASE BurnBalance(c) \/ LedgerRefusesBurn(c)
  <2>1. burning_utxos' = burning_utxos
    BY <1>3 DEF BurnBalance, LedgerRefusesBurn, stores
  <2>2. CASE burns' = [burns EXCEPT ![c] = IdleBurn]
    BY <1>0, <1>1, <2>1, <2>2 DEF IdleBurn
  <2>3. ASSUME NEW U, burns' = [burns EXCEPT ![c] = [@ EXCEPT !.pc = "burn", !.utxos = U]]
        PROVE  OwedKnown'
    <3>1. burns'[c].pc = "burn" /\ \A d \in BurnCalls : d # c => burns'[d] = burns[d]
      BY <1>0, <2>3
    <3> QED BY <1>1, <2>1, <3>1
  <2> QED BY <1>3, <2>2, <2>3 DEF BurnBalance, LedgerRefusesBurn
<1>4. CASE PayoutFails(c) \/ SendTx(c)
  <2>1. burning_utxos' = burning_utxos
    BY <1>4 DEF PayoutFails, SendTx, stores
  <2>2. /\ \A d \in BurnCalls : d # c => burns'[d] = burns[d]
        /\ burns'[c].pc \in {"sent", "unsent"}
    <3>1. CASE burns' = [burns EXCEPT ![c].pc = "unsent"]
      BY <1>0, <3>1
    <3>2. CASE burns' = [burns EXCEPT ![c] = [@ EXCEPT !.pc = "sent", !.tx = Len(network) + 1]]
      BY <1>0, <3>2
    <3> QED BY <1>4, <3>1, <3>2 DEF PayoutFails, SendTx
  <2> QED BY <1>1, <2>1, <2>2
<1>5. CASE BurnSent(c) \/ BurnUnsent(c)
  <2>1. /\ \A d \in BurnCalls : d # c => burns'[d] = burns[d]
        /\ burns'[c].pc \notin {"burned", "sign"}
    BY <1>0, <1>5 DEF BurnSent, BurnUnsent, IdleBurn
  <2>2. \A b \in DOMAIN burning_utxos' :
          b \in DOMAIN burning_utxos /\ burning_utxos'[b].amount = burning_utxos[b].amount
    BY <1>5 DEF BurnSent, BurnUnsent, WithError, TypeOK, StoreTypes
  <2> QED BY <2>1, <2>2, OwedIdle
<1>6. ASSUME NEW b \in DOMAIN burning_utxos, RetryStart(c, b) PROVE OwedKnown'
  <2>1. /\ burning_utxos' = burning_utxos
        /\ \A d \in BurnCalls : d # c => burns'[d] = burns[d]
        /\ burns'[c].block = b /\ burns'[c].amount = burning_utxos[b].amount
    BY <1>0, <1>6 DEF RetryStart, IdleBurn, stores
  <2>2. Owes(b, burning_utxos[b].amount)
    BY DEF OwedKnown
  <2>3. \A d \in BurnCalls : burns'[d].pc \in {"burned", "sign"} =>
          Owes(burns'[d].block, burns'[d].amount)
    BY <2>1, <2>2 DEF OwedKnown
  <2> QED BY <2>1, <2>3, OwedFrame
<1>7. CASE BurnBurned(c)
  <2> DEFINE b == burns[c].block
  <2>1. /\ Owes(b, burns[c].amount) /\ b \in Nat
        /\ \A d \in BurnCalls : /\ burns'[d].block = burns[d].block
                                /\ burns'[d].amount = burns[d].amount
                                /\ burns'[d].pc \in {"burned", "sign"} =>
                                     burns[d].pc \in {"burned", "sign"}
    BY <1>0, <1>7 DEF BurnBurned, OwedKnown
  <2>2. /\ DOMAIN burning_utxos' = DOMAIN burning_utxos \cup {b}
        /\ burning_utxos'[b].amount = burns[c].amount
        /\ \A x \in DOMAIN burning_utxos' : x # b => burning_utxos'[x] = burning_utxos[x]
    BY <1>7 DEF BurnBurned
  <2>3. \A x \in DOMAIN burning_utxos' : Owes(x, burning_utxos'[x].amount)
    BY <2>1, <2>2 DEF OwedKnown
  <2>4. \A d \in BurnCalls : burns'[d].pc \in {"burned", "sign"} =>
          Owes(burns'[d].block, burns'[d].amount)
    BY <2>1 DEF OwedKnown
  <2>5. UNCHANGED log
    BY <1>7 DEF BurnBurned, ledger
  <2> HIDE DEF b
  <2> QED BY <2>3, <2>4, <2>5 DEF OwedKnown, Owes, Entries
<1>8. CASE LedgerBurn(c)
  <2> DEFINE e == [op |-> "burn", user |-> CallerOf[c],
                   amount |-> burns[c].amount, utxo |-> 0]
  <2>1. /\ log' = Append(log, e) /\ e.op = "burn" /\ e.amount = burns[c].amount
        /\ burning_utxos' = burning_utxos
        /\ burns' = [burns EXCEPT ![c] = [@ EXCEPT !.pc = "burned", !.block = Len(log)]]
    BY <1>8 DEF LedgerBurn, stores
  <2> HIDE DEF e
  <2>2. /\ Entries("burn")' = Entries("burn") \cup
             (IF e.op = "burn" THEN {Len(log) + 1} ELSE {})
        /\ log'[Len(log) + 1] = e /\ Len(log) \in Nat
    BY <2>1, EntriesAppend DEF TypeOK
  <2>3. /\ burns'[c].block = Len(log) /\ burns'[c].amount = burns[c].amount
        /\ \A d \in BurnCalls : d # c => burns'[d] = burns[d]
    BY <1>0, <2>1
  <2>4. StillOwes(burns'[c].block, burns'[c].amount)
    BY <2>1, <2>2, <2>3 DEF StillOwes
  <2>5. /\ \A x \in DOMAIN burning_utxos : StillOwes(x, burning_utxos[x].amount)
        /\ \A d \in BurnCalls : d # c /\ burns[d].pc \in {"burned", "sign"} =>
             StillOwes(burns[d].block, burns[d].amount)
    <3>1. \A x, amount : Owes(x, amount) => StillOwes(x, amount)
      BY OwesStays
    <3> QED BY <3>1 DEF OwedKnown
  <2>6. \A d \in BurnCalls : burns'[d].pc \in {"burned", "sign"} =>
          StillOwes(burns'[d].block, burns'[d].amount)
    BY <2>3, <2>4, <2>5
  <2>7. \A x \in DOMAIN burning_utxos' : StillOwes(x, burning_utxos'[x].amount)
    BY <2>1, <2>5
  <2> QED BY <2>6, <2>7 DEF OwedKnown, Owes, StillOwes
<1> QED BY <1>2, <1>3, <1>4, <1>5, <1>6, <1>7, <1>8 DEF BurnAnswers, BurnSteps

LEMMA NextOwed == ASSUME TypeOK, OwedKnown, [Next]_vars PROVE OwedKnown'
<1>1. CASE UNCHANGED <<burns, burning_utxos>>
  BY <1>1, OwedFrame DEF OwedKnown
<1>2. ASSUME NEW c \in BurnCalls,
             BurnAnswers(c) \/ BurnSteps(c)
               \/ (\E amount \in Amounts : BurnStart(c, amount))
               \/ (\E b \in DOMAIN burning_utxos : RetryStart(c, b))
      PROVE  OwedKnown'
  BY <1>2, BurnOwed
<1> QED BY <1>1, <1>2 DEF Next, MintAnswers, MintSteps, TxAnswers, FinalizeSteps, MintStart,
        LedgerMint, LedgerRefusesMint, MintListed, MintMinted, MintRefused, FinalizeStart,
        TxStatus, TxStatusFails, FinalizeMined, FinalizeUnmined, FinalizeDropped,
        CollectStart, CollectListed, Deposit, NewBlock, Reorg, stores, calls, vars

LEMMA InitOwed == Init => OwedKnown
  BY DEF Init, InitCanister, IdleBurn, OwedKnown

-----------------------------------------------------------------------------
(* The mapping: sums, and steps that leave what Bridge sees *)

S == INSTANCE BridgeSafety WITH coins <- utxos, payouts <- BridgePayouts

\* CkDogeMinter and Bridge add up the same values.
LEMMA SameValue ==
  ASSUME NEW U, U \subseteq DOMAIN utxos PROVE B!Value(U) = TotalValue(U)
<1>1. B!Value(U) = Sum(B!CoinValue, U)
  BY DEF B!Value, B!SumOver, B!MapThenSumSet, B!MapThenFoldSet, Sum, MapThenSumSet,
     MapThenFoldSet
<1>2. \A u \in U : B!CoinValue[u] = [u_1 \in U |-> utxos[u_1].value][u]
  BY DEF B!CoinValue
<1>3. Sum(B!CoinValue, U) = Sum([u \in U |-> utxos[u].value], U)
  BY <1>2, SumSame
<1> QED BY <1>1, <1>3, TotalIsSum

LEMMA Mapping ==
  ASSUME TypeOK
  PROVE  /\ network \in Seq(Payouts) /\ Len(network) \in Nat
         /\ DOMAIN network = 1..Len(network)
         /\ DOMAIN BridgePayouts = DOMAIN network
         /\ Len(BridgePayouts) = Len(network)
         /\ \A t \in DOMAIN network :
              BridgePayouts[t] = [ins |-> network[t].ins, burn |-> network[t].block + 1,
                                  change |-> network[t].change, back |-> Settled(t)]
<1>1. network \in Seq(Payouts) /\ Len(network) \in Nat /\ DOMAIN network = 1..Len(network)
  BY DEF TypeOK, WorldTypes
<1> QED BY <1>1 DEF BridgePayouts

LEMMA SameUnspent == B!Unspent = {u \in DOMAIN utxos : ~Spends(u)}
  BY DEF B!Unspent, Spends, BridgePayouts

\* A step that keeps the chain and the ledger is a stutter of Bridge.
LEMMA Stutters ==
  ASSUME UNCHANGED <<utxos, network, tip, log, balances>> PROVE UNCHANGED B!vars
  BY DEF B!vars, BridgePayouts, Settled, ConfirmedHeight

LEMMA DepositMaps ==
  ASSUME NEW p, NEW v, Deposit(p, v) PROVE B!Deposit(p, v)
  BY DEF Deposit, B!Deposit, BridgePayouts, Settled, ConfirmedHeight, ledger

-----------------------------------------------------------------------------
(* Every step of the canister and its surroundings is one of Bridge *)

LEMMA MintMaps ==
  ASSUME OneMintEach, TypeOK, MintInv, NEW c \in MintCalls, LedgerMint(c)
  PROVE  mints[c].cur \in DOMAIN utxos /\ B!Mint(mints[c].cur)
<1> DEFINE u == mints[c].cur
<1>1. /\ mints[c].pc = "mint" /\ UNCHANGED <<utxos, BridgePayouts>>
      /\ log' = Append(log, [op |-> "mint", user |-> CallerOf[c],
                             amount |-> utxos[u].value, utxo |-> u])
      /\ balances' = [balances EXCEPT ![CallerOf[c]] = @ + utxos[u].value]
  BY DEF LedgerMint, BridgePayouts, Settled, ConfirmedHeight, chain
<1>2. /\ u \in DOMAIN utxos /\ utxos[u].owner = CallerOf[c]
      /\ u \notin minted_utxos[CallerOf[c]]
  BY <1>1 DEF MintInv, LoopKnows, Minting
<1>3. CallerOf[c] \in Users
  BY PrincipalsAssumption
<1>4. \A i \in Entries("mint") : log[i].utxo # u
  BY <1>1, <1>2, NotMinted
<1> QED BY <1>1, <1>2, <1>3, <1>4 DEF B!Mint, B!Blocks, Entries

LEMMA BurnMaps ==
  ASSUME TypeOK, Funded, NEW c \in BurnCalls, LedgerBurn(c)
  PROVE  /\ CallerOf[c] \in Users /\ burns[c].amount \in 1..balances[CallerOf[c]]
         /\ B!Burn(CallerOf[c], burns[c].amount)
<1>1. /\ burns[c].pc = "burn" /\ UNCHANGED <<utxos, BridgePayouts>>
      /\ burns[c].amount <= balances[CallerOf[c]]
      /\ log' = Append(log, [op |-> "burn", user |-> CallerOf[c],
                             amount |-> burns[c].amount, utxo |-> 0])
      /\ balances' = [balances EXCEPT ![CallerOf[c]] = @ - burns[c].amount]
  BY DEF LedgerBurn, BridgePayouts, Settled, ConfirmedHeight, chain
<1>2. CallerOf[c] \in Users
  BY PrincipalsAssumption
<1>3. burns[c].amount \in Nat /\ balances[CallerOf[c]] \in Nat /\ burns[c].amount > 0
  BY <1>1, <1>2 DEF TypeOK, BurnTypes, WorldTypes, Funded
<1> QED BY <1>1, <1>2, <1>3 DEF B!Burn

LEMMA SendMaps ==
  ASSUME TypeOK, Claims, OwedKnown, NEW c \in BurnCalls, SendTx(c)
  PROVE  /\ burns[c].block + 1 \in B!Blocks("burn") /\ burns[c].utxos \in SUBSET B!Unspent
         /\ B!Pay(burns[c].block + 1, burns[c].utxos)
<1> DEFINE i == burns[c].block + 1
           U == burns[c].utxos
           amount == burns[c].amount
           n == Len(network) + 1
           new == [ins |-> U, block |-> burns[c].block, height |-> 0,
                   change |-> ChangeValue(TotalValue(U), amount)]
           pay == [ins |-> U, burn |-> i, back |-> FALSE,
                   change |-> B!ChangeOf(U, log[i].amount)]
<1>1. /\ burns[c].pc = "sign" /\ NodeAccepts(U, amount)
      /\ network' = Append(network, new)
      /\ UNCHANGED <<utxos, tip, log, balances>>
  BY DEF SendTx, ledger
<1>2. /\ U \in SUBSET DOMAIN utxos /\ amount \in Nat /\ burns[c].block \in Nat
      /\ TotalValue(U) \in Nat
  BY TotalNat DEF TypeOK, BurnTypes
<1>3. i \in Entries("burn") /\ log[i].amount = amount
  BY <1>1 DEF OwedKnown, Owes
<1>4. U \subseteq B!Unspent
  BY <1>1, <1>2, SameUnspent DEF NodeAccepts
<1>5. \A t \in DOMAIN network : network[t].block # burns[c].block
  BY <1>1 DEF Claims, NodeAccepts, Spends
<1>6. \A t \in DOMAIN BridgePayouts : BridgePayouts[t].burn # i
  <2>1. \A t \in DOMAIN network : network[t] \in Payouts
    BY Mapping
  <2>2. \A t \in DOMAIN network : network[t].block \in Nat
    BY <2>1 DEF Payouts
  <2> QED BY <1>2, <1>5, <2>2, Mapping
<1>7. B!ChangeOf(U, log[i].amount) = ChangeValue(TotalValue(U), amount)
  BY <1>2, <1>3, SameValue DEF B!ChangeOf, ChangeValue, B!Above, Monus
<1>8. B!Above(log[i].amount, Fee) + B!ChangeOf(U, log[i].amount) <= B!Value(U)
  BY <1>1, <1>2, <1>3, <1>7, SameValue DEF NodeAccepts, PayoutValue, B!Above, Monus
<1>9. BridgePayouts' = Append(BridgePayouts, pay)
  <2>1. /\ DOMAIN network' = 1..n /\ network'[n] = new /\ Len(network) \in Nat
        /\ \A t \in 1..Len(network) : network'[t] = network[t]
    BY <1>1, Mapping
  <2>2. ConfirmedHeight' = ConfirmedHeight
    BY <1>1 DEF ConfirmedHeight
  <2>3. \A t \in 1..Len(network) : Settled(t)' = Settled(t)
    BY <2>1, <2>2 DEF Settled
  <2>4. \A t \in 1..n : t = n => Settled(t)' = FALSE
    BY <2>1 DEF Settled
  <2>5. BridgePayouts' = [t \in 1..n |->
          IF t = n THEN pay
          ELSE [ins |-> network[t].ins, burn |-> network[t].block + 1,
                change |-> network[t].change, back |-> Settled(t)]]
    <3>1. BridgePayouts' = [t \in 1..n |->
            [ins |-> network'[t].ins, burn |-> network'[t].block + 1,
             change |-> network'[t].change, back |-> Settled(t)']]
      BY <2>1 DEF BridgePayouts
    <3>2. \A t \in 1..n : t # n => t \in 1..Len(network)
      BY <2>1
    <3>3. \A t \in 1..n : t # n =>
            [ins |-> network'[t].ins, burn |-> network'[t].block + 1,
             change |-> network'[t].change, back |-> Settled(t)']
              = [ins |-> network[t].ins, burn |-> network[t].block + 1,
                 change |-> network[t].change, back |-> Settled(t)]
      BY <2>1, <2>3, <3>2
    <3>4. new.ins = U /\ new.block = burns[c].block /\ new.change = B!ChangeOf(U, log[i].amount)
      BY <1>7
    <3>5. \A t \in 1..n : t = n =>
            [ins |-> network'[t].ins, burn |-> network'[t].block + 1,
             change |-> network'[t].change, back |-> Settled(t)'] = pay
      <4> HIDE DEF new
      <4> QED BY <2>1, <2>4, <3>4
    <3> HIDE DEF pay, n
    <3> QED BY <3>1, <3>3, <3>5
  <2>6. /\ Len(BridgePayouts) = Len(network)
        /\ \A t \in 1..Len(network) : BridgePayouts[t] =
             [ins |-> network[t].ins, burn |-> network[t].block + 1,
              change |-> network[t].change, back |-> Settled(t)]
    BY Mapping
  <2>7. Append(BridgePayouts, pay) =
          [t \in 1..(Len(BridgePayouts) + 1) |->
             IF t \in 1..Len(BridgePayouts) THEN BridgePayouts[t] ELSE pay]
    OBVIOUS
  <2> HIDE DEF pay, new
  <2> QED BY <2>1, <2>5, <2>6, <2>7
<1> QED BY <1>1, <1>3, <1>4, <1>6, <1>8, <1>9 DEF B!Pay, B!Blocks, Entries

LEMMA WithBack ==
  ASSUME NEW i, NEW b, NEW c, NEW x, NEW y
  PROVE  [[ins |-> i, burn |-> b, change |-> c, back |-> x] EXCEPT !.back = y]
           = [ins |-> i, burn |-> b, change |-> c, back |-> y]
  OBVIOUS

\* New heights that settle the payouts R and unsettle none.
Settles(h, R) ==
  /\ network' = [t \in DOMAIN network |-> [network[t] EXCEPT !.height = h[t]]]
  /\ \A t \in DOMAIN network : h[t] \in 1..ConfirmedHeight' <=> Settled(t) \/ t \in R
LEMMA SettleMaps ==
  ASSUME TypeOK, NEW h, NEW R \in SUBSET DOMAIN network, Settles(h, R)
  PROVE  BridgePayouts' = [t \in DOMAIN BridgePayouts |->
           IF t \in R THEN [BridgePayouts[t] EXCEPT !.back = TRUE] ELSE BridgePayouts[t]]
<1>1. \A t \in DOMAIN network :
        /\ network'[t].ins = network[t].ins /\ network'[t].block = network[t].block
        /\ network'[t].change = network[t].change /\ network'[t].height = h[t]
  <2>1. \A t \in DOMAIN network : network[t] \in Payouts
    BY Mapping
  <2> QED BY <2>1 DEF Payouts, Settles
<1>2. \A t \in DOMAIN network : Settled(t)' <=> Settled(t) \/ t \in R
  BY <1>1 DEF Settled, Settles
<1>3. \A t \in DOMAIN network : Settled(t) \in BOOLEAN /\ Settled(t)' \in BOOLEAN
  BY DEF Settled
<1>4. BridgePayouts' = [t \in DOMAIN network |->
        [ins |-> network'[t].ins, burn |-> network'[t].block + 1,
         change |-> network'[t].change, back |-> Settled(t)']]
  BY <1>1 DEF BridgePayouts, Settles
<1>5. ASSUME NEW t \in DOMAIN network
      PROVE
        [ins |-> network'[t].ins, burn |-> network'[t].block + 1,
         change |-> network'[t].change, back |-> Settled(t)']
          = IF t \in R THEN [BridgePayouts[t] EXCEPT !.back = TRUE] ELSE BridgePayouts[t]
  <2>1. BridgePayouts[t] = [ins |-> network[t].ins, burn |-> network[t].block + 1,
                            change |-> network[t].change, back |-> Settled(t)]
    BY Mapping
  <2> DEFINE i == network[t].ins
             b == network[t].block + 1
             c == network[t].change
  <2>2. BridgePayouts[t] = [ins |-> i, burn |-> b, change |-> c, back |-> Settled(t)]
    BY <2>1
  <2>3. [ins |-> network'[t].ins, burn |-> network'[t].block + 1,
         change |-> network'[t].change, back |-> Settled(t)']
          = [ins |-> i, burn |-> b, change |-> c, back |-> Settled(t)']
    BY <1>1
  <2> HIDE DEF i, b, c
  <2>4. [[ins |-> i, burn |-> b, change |-> c, back |-> Settled(t)] EXCEPT !.back = TRUE]
          = [ins |-> i, burn |-> b, change |-> c, back |-> TRUE]
    <3> DEFINE y == TRUE
               r == [[ins |-> i, burn |-> b, change |-> c, back |-> Settled(t)] EXCEPT !.back = y]
               q == [ins |-> i, burn |-> b, change |-> c, back |-> y]
    <3>1. r = q
      <4> HIDE DEF y
      <4> QED BY WithBack
    <3> QED BY ONLY <3>1, Zenon
  <2>5. CASE t \in R
    <3>1. Settled(t)' = TRUE
      BY <1>2, <1>3, <2>5
    <3> QED BY <2>2, <2>3, <2>4, <2>5, <3>1
  <2>6. CASE t \notin R
    <3>1. Settled(t)' = Settled(t)
      BY <1>2, <1>3, <2>6
    <3> QED BY <2>2, <2>3, <2>6, <3>1
  <2> QED BY <2>5, <2>6
<1>6. DOMAIN BridgePayouts = DOMAIN network
  BY Mapping
<1> QED BY <1>4, <1>5, <1>6

LEMMA SameCardinality == ASSUME NEW X PROVE B!Cardinality(X) = Cardinality(X)
  BY DEF Cardinality, B!Cardinality

LEMMA NewBlockMaps ==
  ASSUME TypeOK, NewBlock PROVE \E R \in SUBSET DOMAIN BridgePayouts : B!Returns(R)
<1> DEFINE R == {t \in DOMAIN network : /\ network[t].height # 0
                                        /\ network[t].height = tip + 1 - MinConf}
<1>1. PICK M \in SUBSET {t \in DOMAIN network : network[t].height = 0} :
        network' = [t \in DOMAIN network |->
          IF t \in M THEN [network[t] EXCEPT !.height = tip + 1] ELSE network[t]]
  BY DEF NewBlock
<1>2. PICK order \in SetToSeqs(Confirming) : utxos' = utxos \o ChangeOutputs(order)
  BY DEF NewBlock
<1> DEFINE h == [t \in DOMAIN network |-> IF t \in M THEN tip + 1 ELSE network[t].height]
<1>3. /\ \A t \in DOMAIN network : network[t] \in Payouts /\ network[t].height \in Nat
      /\ tip \in Nat /\ tip' = tip + 1 /\ MinConf \in Nat \ {0}
      /\ UNCHANGED <<log, balances>>
  <2>1. \A t \in DOMAIN network : network[t] \in Payouts
    BY Mapping
  <2> QED BY <2>1, NumbersAssumption DEF TypeOK, WorldTypes, NewBlock, Payouts, ledger
<1>4. network' = [t \in DOMAIN network |-> [network[t] EXCEPT !.height = h[t]]]
  BY <1>1, <1>3 DEF Payouts
<1>5. /\ ConfirmedHeight = IF tip > MinConf THEN tip - MinConf ELSE 0
      /\ ConfirmedHeight' = IF tip + 1 > MinConf THEN tip + 1 - MinConf ELSE 0
  BY <1>3 DEF ConfirmedHeight
<1>6. /\ \A t \in DOMAIN network : h[t] \in 1..ConfirmedHeight' <=> Settled(t) \/ t \in R
      /\ \A t \in R : ~Settled(t)
  BY <1>3, <1>5 DEF Settled
<1>7. BridgePayouts' = [t \in DOMAIN BridgePayouts |->
        IF t \in R THEN [BridgePayouts[t] EXCEPT !.back = TRUE] ELSE BridgePayouts[t]]
  <2>1. Settles(h, R) /\ R \in SUBSET DOMAIN network
    BY <1>4, <1>6 DEF Settles
  <2> HIDE DEF h, R
  <2> QED BY <2>1, SettleMaps
<1>8. \A t \in R : BridgePayouts[t].back = FALSE
  <2>1. \A t \in R : Settled(t) = FALSE /\ t \in DOMAIN network
    BY <1>6 DEF Settled
  <2> HIDE DEF R
  <2> QED BY <2>1, Mapping
<1>9. Confirming = {t \in R : BridgePayouts[t].change > 0}
  BY Mapping DEF Confirming
<1>10. ChangeOutputs(order) = [i \in DOMAIN order |->
         [owner |-> Minter, value |-> BridgePayouts[order[i]].change]]
  <2>1. \A i \in DOMAIN order : order[i] \in DOMAIN network
    BY <1>2 DEF SetToSeqs, Confirming
  <2> QED BY <2>1, Mapping DEF ChangeOutputs
<1>11. order \in B!SetToSeqs({t \in R : BridgePayouts[t].change > 0})
  <2>1. SetToSeqs(Confirming) = B!SetToSeqs(Confirming)
    BY SameCardinality DEF SetToSeqs, B!SetToSeqs
  <2> QED BY <1>2, <1>9, <2>1
<1>12. R \in SUBSET DOMAIN BridgePayouts
  BY Mapping
<1> HIDE DEF R
<1> QED BY <1>2, <1>3, <1>7, <1>8, <1>10, <1>11, <1>12 DEF B!Returns

LEMMA ReorgMaps == ASSUME TypeOK, Reorg PROVE UNCHANGED B!vars
<1>1. PICK k \in (ConfirmedHeight + 1)..tip :
        \E g \in [{t \in DOMAIN network : network[t].height >= k} -> {0} \cup k..tip] :
          network' = [t \in DOMAIN network |->
            IF t \in {s \in DOMAIN network : network[s].height >= k}
            THEN [network[t] EXCEPT !.height = g[t]] ELSE network[t]]
  BY DEF Reorg
<1>2. PICK g \in [{t \in DOMAIN network : network[t].height >= k} -> {0} \cup k..tip] :
        network' = [t \in DOMAIN network |->
          IF t \in {s \in DOMAIN network : network[s].height >= k}
          THEN [network[t] EXCEPT !.height = g[t]] ELSE network[t]]
  BY <1>1
<1> DEFINE h == [t \in DOMAIN network |-> IF network[t].height >= k
                                          THEN g[t] ELSE network[t].height]
<1>3. \A t \in DOMAIN network : network[t] \in Payouts /\ network[t].height \in Nat
  <2>1. \A t \in DOMAIN network : network[t] \in Payouts
    BY Mapping
  <2> QED BY <2>1 DEF Payouts
<1>4. network' = [t \in DOMAIN network |-> [network[t] EXCEPT !.height = h[t]]]
  BY <1>2, <1>3 DEF Payouts
<1>5. UNCHANGED <<utxos, tip, log, balances>>
  BY DEF Reorg, ledger
<1>6. ConfirmedHeight' = ConfirmedHeight /\ ConfirmedHeight \in Nat
  BY <1>5, ConfirmedNat DEF ConfirmedHeight, TypeOK
<1>7. \A t \in DOMAIN network : h[t] \in 1..ConfirmedHeight' <=> Settled(t) \/ t \in {}
  <2>1. ASSUME NEW t \in DOMAIN network, network[t].height >= k
        PROVE  h[t] \notin 1..ConfirmedHeight /\ ~Settled(t)
    <3>1. h[t] = g[t] /\ g[t] \in {0} \cup k..tip
      BY <2>1
    <3> QED BY <1>3, <1>6, <2>1, <3>1 DEF Settled
  <2>2. ASSUME NEW t \in DOMAIN network, ~(network[t].height >= k)
        PROVE  h[t] = network[t].height
    BY <2>2
  <2> HIDE DEF h
  <2> QED BY <1>6, <2>1, <2>2 DEF Settled
<1>8. BridgePayouts' = [t \in DOMAIN BridgePayouts |->
        IF t \in {} THEN [BridgePayouts[t] EXCEPT !.back = TRUE] ELSE BridgePayouts[t]]
  <2>1. Settles(h, {}) /\ {} \in SUBSET DOMAIN network
    BY <1>4, <1>7 DEF Settles
  <2> HIDE DEF h
  <2> QED BY <2>1, SettleMaps
<1>9. BridgePayouts' = BridgePayouts
  BY <1>8 DEF BridgePayouts
<1> QED BY <1>5, <1>9 DEF B!vars

LEMMA NextMaps ==
  ASSUME OneMintEach, TypeOK, MintInv, PayoutInv, OwedKnown, [Next]_vars
  PROVE  [B!Next]_B!vars
<1>1. CASE UNCHANGED <<utxos, network, tip, log, balances>>
  BY <1>1, Stutters
<1>2. ASSUME NEW c \in MintCalls, LedgerMint(c) PROVE B!Next
  BY <1>2, MintMaps DEF B!Next
<1>3. ASSUME NEW c \in BurnCalls, LedgerBurn(c) PROVE B!Next
  BY <1>3, BurnMaps DEF B!Next, PayoutInv
<1>4. ASSUME NEW c \in BurnCalls, SendTx(c) PROVE B!Next
  BY <1>4, SendMaps DEF B!Next, PayoutInv
<1>5. ASSUME NEW p \in Users, NEW v \in Values, Deposit(p, v) PROVE B!Next
  BY <1>5, DepositMaps DEF B!Next
<1>6. CASE NewBlock
  BY <1>6, NewBlockMaps DEF B!Next
<1>7. CASE Reorg
  BY <1>7, ReorgMaps
<1> QED BY <1>1, <1>2, <1>3, <1>4, <1>5, <1>6, <1>7 DEF Next, MintAnswers, MintSteps,
        BurnAnswers, BurnSteps, TxAnswers, FinalizeSteps, MintStart, LedgerRefusesMint,
        MintListed, MintMinted, MintRefused, BurnStart, RetryStart, LedgerRefusesBurn,
        PayoutFails, BurnBalance, BurnBurned, BurnSent, BurnUnsent, FinalizeStart, TxStatus,
        TxStatusFails, FinalizeMined, FinalizeUnmined, FinalizeDropped, CollectStart,
        CollectListed, chain, ledger, vars

LEMMA InitMaps == Init => B!Init
  BY DEF Init, InitWorld, B!Init, BridgePayouts

LEMMA InitMint == Init => MintInv
  BY DEF Init, InitCanister, InitWorld, IdleMint, MintInv, LoopKnows, MintsKnown,
     NoDoubleMint, Entries, Minting

\* README.md:29, :46-48: whatever fails and however the calls interleave, what
\* happens on Dogecoin and on the ledger is what Bridge allows.
THEOREM MinterImplementsBridge == ASSUME OneMintEach PROVE Spec => ImplementsBridge
<1>1. Init => MintInv /\ PayoutInv /\ OwedKnown /\ B!Init
  BY InitMint, InitPayout, InitOwed, InitMaps
<1>2. TypeOK /\ MintInv /\ PayoutInv /\ OwedKnown /\ [Next]_vars
        => MintInv' /\ PayoutInv' /\ OwedKnown' /\ [B!Next]_B!vars
  BY NextMint, NextPayout, NextOwed, NextMaps
<1> QED BY <1>1, <1>2, TypeCorrect, PTL DEF Spec, ImplementsBridge, B!Spec

-----------------------------------------------------------------------------
(* The supply is backed *)

LEMMA SameSpec == B!Spec <=> S!Spec
<1>1. B!Init <=> S!Init
  BY DEF B!Init, S!Init
<1>2. [B!Next]_B!vars <=> [S!Next]_S!vars
  BY DEF B!Next, S!Next, B!vars, S!vars, B!Returns, S!Returns, B!Deposit, S!Deposit,
     B!Mint, S!Mint, B!Burn, S!Burn, B!Pay, S!Pay, B!Blocks, S!Blocks, B!Unspent,
     S!Unspent, B!ChangeOf, S!ChangeOf, B!Above, S!Above, B!Value, S!Value, B!SumOver,
     S!SumOver, B!CoinValue, S!CoinValue, B!MapThenSumSet, S!MapThenSumSet,
     B!MapThenFoldSet, S!MapThenFoldSet, B!SetToSeqs, S!SetToSeqs, B!Cardinality,
     S!Cardinality
<1> QED BY <1>1, <1>2, PTL DEF B!Spec, S!Spec


\* The change on its way adds up to what Bridge says.
ChangeSum(T) == MapThenSumSet(LAMBDA t : network[t].change, T)
LEMMA ChangeIsSum ==
  ASSUME TypeOK, NEW T, T \subseteq DOMAIN network
  PROVE  ChangeSum(T) = Sum(S!Change, T)
<1> DEFINE P(g) == g = [s \in SUBSET T |->
                     IF s = {} THEN 0
                     ELSE network[CHOOSE x \in s : TRUE].change
                            + g[s \ {CHOOSE x \in s : TRUE}]]
           Q(g) == g = [s \in SUBSET T |->
                     IF s = {} THEN 0
                     ELSE S!Change[CHOOSE x \in s : TRUE]
                            + g[s \ {CHOOSE x \in s : TRUE}]]
<1>1. ChangeSum(T) = (CHOOSE g : P(g))[T]
  BY DEF ChangeSum, MapThenSumSet, MapThenFoldSet
<1>2. Sum(S!Change, T) = (CHOOSE g : Q(g))[T]
  BY DEF Sum, MapThenSumSet, MapThenFoldSet
<1>3. \A t \in DOMAIN network : S!Change[t] = network[t].change
  <2>1. \A t \in DOMAIN network : BridgePayouts[t].change = network[t].change
    BY Mapping
  <2> QED BY <2>1, Mapping DEF S!Change
<1>4. \A s \in SUBSET T : s # {} =>
        S!Change[CHOOSE x \in s : TRUE] = network[CHOOSE x \in s : TRUE].change
  BY <1>3
<1>5. \A g : P(g) <=> Q(g)
  BY <1>4
<1>6. (CHOOSE g : P(g)) = (CHOOSE g : Q(g))
  <2> HIDE DEF P, Q
  <2> QED BY <1>5
<1> QED BY <1>1, <1>2, <1>6

LEMMA SumOverSame == ASSUME NEW f, NEW X PROVE S!SumOver(f, X) = Sum(f, X)
  BY DEF S!SumOver, S!MapThenSumSet, S!MapThenFoldSet, Sum, MapThenSumSet, MapThenFoldSet

LEMMA BackedTransfers == ASSUME TypeOK, S!Backed PROVE BackedUpToDust
<1>1. /\ LogSum(Entries("mint")) = S!Issued /\ LogSum(Entries("burn")) = S!Destroyed
  <2>1. \A op : Entries(op) = S!Blocks(op) /\ Entries(op) \subseteq DOMAIN log
    BY DEF Entries, S!Blocks
  <2>2. ASSUME NEW X, X \subseteq DOMAIN log PROVE LogSum(X) = S!SumOver(S!Amount, X)
    <3>1. LogSum(X) = Sum([i \in X |-> log[i].amount], X)
      BY <2>2, LogIsSum
    <3>2. \A i \in X : [j \in X |-> log[j].amount][i] = S!Amount[i]
      BY <2>2 DEF S!Amount
    <3>3. Sum([i \in X |-> log[i].amount], X) = Sum(S!Amount, X)
      BY <3>2, SumSame
    <3> QED BY <3>1, <3>3, SumOverSame
  <2> QED BY <2>1, <2>2 DEF S!Issued, S!Destroyed
<1>2. TotalValue({u \in DOMAIN utxos : ~Spends(u)}) = S!Value(S!Unspent)
  <2>1. S!Unspent = {u \in DOMAIN utxos : ~Spends(u)}
    BY DEF S!Unspent, Spends, BridgePayouts
  <2>2. S!Value(S!Unspent) = Sum(S!CoinValue, S!Unspent)
    BY SumOverSame DEF S!Value
  <2>3. B!Value(S!Unspent) = Sum(S!CoinValue, S!Unspent)
    BY DEF B!Value, B!SumOver, B!MapThenSumSet, B!MapThenFoldSet, B!CoinValue, S!CoinValue,
           Sum, MapThenSumSet, MapThenFoldSet
  <2> QED BY <2>1, <2>2, <2>3, SameValue
<1>3. ChangeSum(Unconfirmed) = S!SumOver(S!Change, S!Returning)
  <2>1. S!Returning = Unconfirmed /\ Unconfirmed \subseteq DOMAIN network
    <3>1. /\ DOMAIN BridgePayouts = DOMAIN network
          /\ \A t \in DOMAIN network : BridgePayouts[t].back = Settled(t)
      BY Mapping
    <3>2. S!Returning = {t \in DOMAIN network : ~Settled(t)}
      BY <3>1 DEF S!Returning
    <3> QED BY <3>2 DEF Unconfirmed, Settled
  <2> QED BY <2>1, ChangeIsSum, SumOverSame
<1>4. Len(BridgePayouts) = Len(network)
  BY Mapping
<1> QED BY <1>1, <1>2, <1>3, <1>4
        DEF S!Backed, S!InHand, BackedUpToDust, Supply, Held, ChangeSum

\* README.md:29: the supply is covered by what the minter can still spend, but
\* for dust, as long as a principal has one mint_ckdoge open at a time.
THEOREM SupplyBacked == ASSUME OneMintEach PROVE Spec => []BackedUpToDust
<1>1. S!BridgeAssumption
  BY PrincipalsAssumption, NumbersAssumption DEF S!BridgeAssumption
<1>2. S!Spec => []S!Backed
  BY <1>1, S!BridgeBacked
<1>3. TypeOK /\ S!Backed => BackedUpToDust
  BY BackedTransfers
<1>4. Spec => B!Spec
  BY MinterImplementsBridge DEF ImplementsBridge
<1> QED BY <1>2, <1>3, <1>4, SameSpec, TypeCorrect, PTL
=============================================================================
