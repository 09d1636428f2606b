------------------------------ MODULE UtxoIndex ------------------------------
(***************************************************************************)
(* The UTXO index of the ck-doge-canister: what store.rs does to its maps  *)
(* when a block is processed and when a height becomes confirmed.          *)
(*                                                                         *)
(* An index has the unconfirmed half, kept in the heap                     *)
(*   utxs : tx -> [height, spent], spent[v] the height that spends output  *)
(*          v, or 0  (unconfirmed_utxs)                                    *)
(*   uts  : the set of UTXOs [height, tx, vout] created   (unconfirmed_utxos)*)
(*   sts  : UTXO -> height it is spent at                 (unconfirmed_utxos)*)
(* and the stable half, which survives restarts                            *)
(*   stable_utxs : tx -> [height, spent]                  (UTXS)           *)
(*   stable_utxos : set of UTXOs                          (UTXOS)          *)
(* The code splits uts, sts and UTXOS by address; an output has one, so    *)
(* the flat sets hold the same.  ok is FALSE after an error, which leaves  *)
(* what was done before it.                                                *)
(***************************************************************************)
EXTENDS Naturals, Sequences, SequencesExt

CONSTANTS
  Blocks,       \* blocks of the Dogecoin network that the run may see
  TxsOf,        \* block -> its transactions, the coinbase first
  Ins,          \* tx -> its inputs [tx, vout]
  OutCount,     \* tx -> number of outputs
  NoAddress     \* outputs [tx, vout] whose script pays no address

\* The output a UTXO or an input names, without its height.
Point(u) == [tx |-> u.tx, vout |-> u.vout]

ASSUME BlocksAssumption ==
  /\ \A b \in Blocks : TxsOf[b] # << >> /\ TxsOf[b] \in Seq(DOMAIN OutCount)
  /\ \A t \in DOMAIN OutCount :
       /\ OutCount[t] \in Nat \ {0}
       /\ Ins[t] \in Seq({Point(Ins[t][i]) : i \in DOMAIN Ins[t]})

Put(f, k, v) == [x \in DOMAIN f \cup {k} |-> IF x = k THEN v ELSE f[x]]
Drop(f, S)   == [x \in DOMAIN f \ S |-> f[x]]

EmptyIndex == [utxs |-> << >>, uts |-> {}, sts |-> << >>,
               stable_utxs |-> << >>, stable_utxos |-> {}, ok |-> TRUE]

Pays(t, v) == [tx |-> t, vout |-> v] \notin NoAddress

-----------------------------------------------------------------------------
(* process_spent_tx *)

\* The spent transaction is taken from the stable half when the unconfirmed
\* one does not have it.
Loaded(ix, t) ==
  IF t \notin DOMAIN ix.utxs /\ t \in DOMAIN ix.stable_utxs
  THEN [ix EXCEPT !.utxs = Put(ix.utxs, t, ix.stable_utxs[t])]
  ELSE ix

MarkSpent(utx, vout, h) == [utx EXCEPT !.spent[vout] = h]
SpendOutput_kept(ix, in, h) ==   \* mutant: the output stays in uts
  LET utx  == ix.utxs[in.tx]
      utxo == [height |-> utx.height, tx |-> in.tx, vout |-> in.vout]
  IN  [ix EXCEPT !.sts = Put(ix.sts, utxo, h),
                 !.utxs[in.tx] = MarkSpent(utx, in.vout, h)]
SpendOutput(ix, in, h) ==
  LET utx  == ix.utxs[in.tx]
      utxo == [height |-> utx.height, tx |-> in.tx, vout |-> in.vout]
      paid == Pays(in.tx, in.vout)
  IN  [ix EXCEPT
         !.uts  = IF paid THEN ix.uts \ {utxo} ELSE ix.uts,
         !.sts  = IF paid THEN Put(ix.sts, utxo, h) ELSE ix.sts,
         !.utxs[in.tx] = MarkSpent(utx, in.vout, h)]

\* An input whose transaction is unknown is skipped, one whose output does
\* not exist is an error.
SpendInput(ix, in, h) ==
  LET known == Loaded(ix, in.tx)
  IN  IF ~ix.ok \/ in.tx \notin DOMAIN known.utxs THEN ix
      ELSE IF in.vout \in DOMAIN known.utxs[in.tx].spent
           THEN SpendOutput(known, in, h)
           ELSE [known EXCEPT !.ok = FALSE]

\* add_unspent_txouts
AddOutputs(ix, t, h) ==
  LET outs == 1..OutCount[t]
  IN  [ix EXCEPT
         !.utxs = Put(ix.utxs, t, [height |-> h, spent |-> [v \in outs |-> 0]]),
         !.uts  = ix.uts \cup {[height |-> h, tx |-> t, vout |-> v] :
                                 v \in {w \in outs : Pays(t, w)}}]

ProcessTx(ix, t, h) ==
  LET spent == FoldLeft(LAMBDA x, in : SpendInput(x, in, h), ix, Ins[t])
  IN  IF spent.ok THEN AddOutputs(spent, t, h) ELSE spent

\* The transactions of process_block: all but the coinbase.
IndexBlock(ix, b, h) ==
  FoldLeft(LAMBDA x, t : ProcessTx(x, t, h), ix, Tail(TxsOf[b]))

-----------------------------------------------------------------------------
(* flush_confirmed_utxos *)

SpentBy_before(h, conf) == h \in 1..(conf - 1)   \* mutant: one block late
SpentBy(h, conf) == h \in 1..conf
Confirms_before(h, conf) == h < conf   \* mutant: one block late
Confirms(h, conf) == h <= conf
FullySpent(ix, conf) ==
  {t \in DOMAIN ix.utxs :
     \A v \in DOMAIN ix.utxs[t].spent : SpentBy(ix.utxs[t].spent[v], conf)}

\* What UTXS keeps of a transaction: the spendings that are confirmed.
ConfirmedUtx(utx, conf) ==
  [utx EXCEPT !.spent = [v \in DOMAIN utx.spent |->
     IF SpentBy(utx.spent[v], conf) THEN utx.spent[v] ELSE 0]]

Flush(ix, conf) ==
  LET gone     == FullySpent(ix, conf)
      kept     == DOMAIN ix.utxs \ gone
      newUtxos == {u \in ix.uts : Confirms(u.height, conf)}
      oldUtxos == {u \in DOMAIN ix.sts : SpentBy(ix.sts[u], conf)}
  IN  [ix EXCEPT
         !.utxs = Drop(ix.utxs, gone),
         !.uts  = ix.uts \ newUtxos,
         !.sts  = Drop(ix.sts, oldUtxos),
         !.stable_utxs = [t \in (DOMAIN ix.stable_utxs \ gone) \cup kept |->
            IF t \in kept THEN ConfirmedUtx(ix.utxs[t], conf)
                          ELSE ix.stable_utxs[t]],
         !.stable_utxos = (ix.stable_utxos \ oldUtxos) \cup newUtxos]

\* The clearing of clear_for_restart_confirm_utxos.
ClearUnconfirmed_utxs(ix) == [ix EXCEPT !.utxs = << >>]   \* mutant: one map only
ClearUnconfirmed(ix) == [ix EXCEPT !.utxs = << >>, !.uts = {}, !.sts = << >>]

-----------------------------------------------------------------------------
(* What the queries of the canister read *)

\* list_utxos(_, _, confirmed = false) and get_balance
LiveUtxos(ix) == (ix.stable_utxos \ DOMAIN ix.sts) \cup ix.uts

\* get_tx_block_height: the unconfirmed half first
KnownTxs(ix) == DOMAIN ix.utxs \cup DOMAIN ix.stable_utxs
TxHeight(ix, t) == IF t \in DOMAIN ix.utxs THEN ix.utxs[t].height
                                           ELSE ix.stable_utxs[t].height
=============================================================================
