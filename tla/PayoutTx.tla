------------------------------- MODULE PayoutTx -------------------------------
(***************************************************************************)
(* How the canisters build, sign and send a transaction: create_tx and     *)
(* sign_and_send_tx of the chain canister, for a caller that spends its    *)
(* own outputs with one key, and burn_utxos of the minter, for outputs     *)
(* with a key each.                                                        *)
(*                                                                         *)
(* A call keeps the transaction in its locals: the awaits of one call      *)
(* share nothing with other calls, so one call at a time is looked at.  An *)
(* address, the script that pays it and the key that opens it are named by *)
(* their owner.  Amounts have the width of the code's u64 (Modulus), and   *)
(* the release build wraps.                                                *)
(***************************************************************************)
EXTENDS Sighash

CONSTANTS
  Users,        \* callers of the chain canister, owners of the minter's deposits
  Minter,       \* the minter, owner of the change
  Receiver,     \* the address that is paid
  Utxos,        \* outputs of the network, [value, owner] given by:
  ValueOf, OwnerOf,
  Amounts, FeeRates,
  Modulus,      \* 2^64 in the code
  DustLimit, MinFee, MinFeeRate,   \* amount.rs
  MaxInputs

ASSUME PayoutAssumption ==
  /\ {Minter, Receiver} \cap Users = {}
  /\ OwnerOf \in [Utxos -> Users \cup {Minter}]
  /\ ValueOf \in [Utxos -> 0..Modulus - 1]
  /\ Amounts \subseteq 0..Modulus - 1
  /\ FeeRates \subseteq Nat
  /\ {DustLimit, MinFee, MinFeeRate, MaxInputs} \subseteq Nat
  /\ Modulus \in Nat \ {0}
  /\ MinFee + DustLimit < Modulus

VARIABLES
  pc,        \* idle, created, signing, signed, sent, refused or failed
  call,      \* the caller and the arguments: [by, utxos, amount, rate]
  tx,        \* the transaction (send_tx)
  fee,       \* create_tx: the fee it reports; burn_utxos: the fee it takes
  signer,    \* the owners whose keys sign, by input
  signed     \* the inputs signed so far
vars == <<pc, call, tx, fee, signer, signed>>

U64(n) == n % Modulus
Monus(a, b) == IF a > b THEN a - b ELSE 0
SumOver(s, Op(_)) == FoldLeft(LAMBDA sum, x : sum + Op(x), 0, s)

-----------------------------------------------------------------------------
(* Sizes and fees *)

VarIntSize(n) == IF n < 253 THEN 1 ELSE IF n < 65536 THEN 3 ELSE 5

\* Signature, sighash type and public key with their lengths; P2PKH script.
SignedScript == 106
ScriptLength(script) == IF script = NoScript THEN 0 ELSE SignedScript
PubkeyScript == 25

OutPointSize == 36
InputBytes(len) == OutPointSize + VarIntSize(len) + len + 4
InputSize(in) == InputBytes(ScriptLength(in.script))
InputEstimate_empty(in) == InputSize(in)   \* mutant: without the signature
InputEstimate(in) ==
  InputBytes(IF ScriptLength(in.script) > 106 THEN ScriptLength(in.script) ELSE 106)
OutputSize(out) == VarIntSize(PubkeyScript) + PubkeyScript + 8

TxBytes(t, InBytes(_)) ==
  4 + VarIntSize(Len(t.input)) + SumOver(t.input, InBytes)
    + VarIntSize(Len(t.output)) + SumOver(t.output, OutputSize) + 4
Size(t)         == TxBytes(t, InputSize)
EstimateSize(t) == TxBytes(t, InputEstimate)

FeeBySize(bytes, rate) ==
  LET perByte == IF rate > MinFeeRate THEN rate ELSE MinFeeRate
      bySize  == U64(bytes * perByte)
  IN  IF bySize > MinFee THEN bySize ELSE MinFee

-----------------------------------------------------------------------------
(* Building *)

UnsignedTx(us, outs) ==
  [version   |-> 1,
   lock_time |-> 0,
   input     |-> [n \in DOMAIN us |-> [prevout |-> us[n], script |-> NoScript,
                                       sequence |-> MaxValue]],
   output    |-> outs]
Pay(value, to) == [value |-> value, script |-> to]
SumOf(us)   == SumOver(us, LAMBDA u : ValueOf[u])
Total(us)   == U64(SumOf(us))

\* create_tx: its fee is that of the transaction with both outputs.
DraftTx(c, change) == UnsignedTx(c.utxos, <<Pay(c.amount, Receiver), Pay(change, c.by)>>)
CreateFee(c) ==
  FeeBySize(EstimateSize(DraftTx(c, Monus(Total(c.utxos), c.amount))), c.rate)
Refuses(c) == \/ c.amount < DustLimit
              \/ Total(c.utxos) < U64(c.amount + CreateFee(c))
CreateChange(c) == Monus(Total(c.utxos), U64(c.amount + CreateFee(c)))
CreatedTx(c) ==
  IF CreateChange(c) < DustLimit
  THEN UnsignedTx(c.utxos, <<Pay(c.amount, Receiver)>>)
  ELSE DraftTx(c, CreateChange(c))
ReportedFee_size(c) == CreateFee(c)   \* mutant: forgets the dropped change
ReportedFee(c) ==
  IF CreateChange(c) < DustLimit THEN Monus(Total(c.utxos), c.amount)
  ELSE CreateFee(c)

\* burn_utxos: the fee comes out of the amount, the change goes to the minter.
BurnDraft(c) == UnsignedTx(c.utxos, <<Pay(c.amount, Receiver),
                                      Pay(Monus(Total(c.utxos), c.amount), Minter)>>)
BurnFee(c) == FeeBySize(EstimateSize(BurnDraft(c)), c.rate)
BurnTx_change(c) ==   \* mutant: the fee comes out of the change as well
  LET paid == Pay(Monus(c.amount, BurnFee(c)), Receiver)
      rest == Pay(Monus(Total(c.utxos), c.amount + BurnFee(c)), Minter)
  IN  UnsignedTx(c.utxos, IF rest.value <= DustLimit THEN <<paid>> ELSE <<paid, rest>>)
BurnTx(c) ==
  LET paid == Pay(Monus(c.amount, BurnFee(c)), Receiver)
      rest == BurnDraft(c).output[2]
  IN  UnsignedTx(c.utxos, IF rest.value <= DustLimit THEN <<paid>> ELSE <<paid, rest>>)

-----------------------------------------------------------------------------
(* The calls *)

NoTx == UnsignedTx(<< >>, << >>)
Init ==
  /\ pc = "idle"
  /\ call = [by |-> Minter, utxos |-> << >>, amount |-> 0, rate |-> 0]
  /\ tx = NoTx
  /\ fee = 0
  /\ signer = << >>
  /\ signed = 0

Calls(callers) ==
  [by : callers, utxos : SeqOf(Utxos, MaxInputs) \ {<< >>},
   amount : Amounts, rate : FeeRates]

\* The outputs of create_tx are named by the caller, who may name outputs of
\* others, or one twice.
CreateTx ==
  /\ pc = "idle"
  /\ \E c \in Calls(Users) :
       /\ call' = c
       /\ IF Refuses(c)
          THEN pc' = "refused" /\ UNCHANGED <<tx, fee>>
          ELSE pc' = "created" /\ tx' = CreatedTx(c) /\ fee' = ReportedFee(c)
  /\ UNCHANGED <<signer, signed>>

\* sign_and_send_tx, of a transaction made by create_tx or already signed by
\* anybody: every input is signed with the caller's key.
SignTx ==
  /\ pc \in {"created", "sent"}
  /\ call.by # Minter
  /\ \E by \in Users :
       /\ signer' = [n \in DOMAIN tx.input |-> by]
       /\ call' = [call EXCEPT !.by = by]
  /\ signed' = 0
  /\ pc' = "signing"
  /\ UNCHANGED <<tx, fee>>

\* burn_utxos gets collected UTXOS, all different, that cover the amount;
\* every input is signed with its owner's key (KeysCache).
OwnerKey_first(us, n) == OwnerOf[us[1]]   \* mutant: one key for all
OwnerKey(us, n) == OwnerOf[us[n]]
Burn ==
  /\ pc = "idle"
  /\ \E c \in Calls({Minter}) :
       /\ c.amount >= 10 * DustLimit
       /\ IsInjective(c.utxos)
       /\ Total(c.utxos) >= c.amount
       /\ call' = c
       /\ tx' = BurnTx(c)
       /\ fee' = BurnFee(c)
       /\ signer' = [n \in DOMAIN c.utxos |-> OwnerKey(c.utxos, n)]
  /\ signed' = 0
  /\ pc' = "signing"

\* One turn of the loop: signature_hash, sign_with, set_input_script.
SignInput ==
  /\ pc = "signing"
  /\ signed < Len(tx.input)
  /\ LET i   == signed + 1
         key == signer[i]
     IN  tx' = SetInputScript(tx, i, Sign(key, SignatureHash(tx, i, key, AllType)), key)
  /\ signed' = signed + 1
  /\ UNCHANGED <<pc, call, fee, signer>>

\* The management canister does not sign.
SignFails ==
  /\ pc = "signing"
  /\ signed < Len(tx.input)
  /\ pc' = "failed"
  /\ UNCHANGED <<call, tx, fee, signer, signed>>

Send ==
  /\ pc = "signing"
  /\ signed = Len(tx.input)
  /\ pc' = "sent"
  /\ UNCHANGED <<call, tx, fee, signer, signed>>

Next == CreateTx \/ SignTx \/ Burn \/ SignInput \/ SignFails \/ Send
Spec == Init /\ [][Next]_vars

-----------------------------------------------------------------------------
(* Properties *)

Spent(t) == SumOver(t.input, LAMBDA in : ValueOf[in.prevout])
Paid(t)  == SumOver(t.output, LAMBDA out : out.value)
Kept(t)  == SumOver(t.output, LAMBDA out : IF out.script = Minter THEN out.value ELSE 0)
Balanced(t) == Paid(t) <= Spent(t)
Distinct(t) == IsInjective([n \in DOMAIN t.input |-> t.input[n].prevout])
NodeAccepts(t) ==
  /\ Distinct(t)
  /\ Balanced(t)
  /\ \A n \in DOMAIN t.input : Verifies(t, n, OwnerOf[t.input[n].prevout], AllType)

\* The inputs are signed one by one, and each signature is made before the
\* later scripts are in place: it still holds on the transaction as it is.
SignaturesStand ==
  \A n \in 1..signed : Verifies(tx, n, signer[n], AllType)

\* A payout of the minter is a transaction the network takes, whoever the
\* deposits it spends were made by.
BurnIsAccepted == pc = "sent" /\ call.by = Minter => NodeAccepts(tx)

\* What sign_and_send_tx sends is taken exactly when its caller owns all it
\* spends, whoever created or signed it before.
OnlyOwnerSpends ==
  pc = "sent" /\ call.by # Minter =>
    (NodeAccepts(tx) <=> /\ Distinct(tx)
                         /\ Balanced(tx)
                         /\ \A n \in DOMAIN tx.input : OwnerOf[tx.input[n].prevout] = call.by)

\* create_tx reports the fee the transaction pays, the change it dropped
\* included, while amount and fee stay in the range of u64.
FeeIsTrue ==
  pc = "created" /\ call.amount + CreateFee(call) < Modulus =>
    Spent(tx) - Paid(tx) = fee

\* A signed transaction pays at least the rate asked for, for signatures of
\* the common length, and the minimum fee (a burn of less than its fee
\* apart, and fees that with the size of the draft come near the end of u64).
DraftSize(t) == EstimateSize([t EXCEPT !.output = << @[1], @[1] >>])
FeeCoversRate ==
  pc = "sent" /\ Balanced(tx) /\ (call.by = Minter => call.amount >= fee)
    /\ DraftSize(tx) * (call.rate + MinFeeRate) < Modulus - DustLimit =>
    Spent(tx) - Paid(tx) >=
      IF Size(tx) * call.rate > MinFee THEN Size(tx) * call.rate ELSE MinFee

\* A burn costs the minter's pool the amount that was burned, and at most
\* DUST_LIMIT of change more; fee and payout share the amount.
BurnCostsAmount ==
  pc = "sent" /\ call.by = Minter =>
    Spent(tx) - Kept(tx) \in call.amount..call.amount + DustLimit
=============================================================================
