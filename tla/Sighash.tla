------------------------------- MODULE Sighash -------------------------------
(***************************************************************************)
(* The legacy signature hash of sighash.rs: which part of a transaction a  *)
(* signature commits to, for every input and every type of hash.           *)
(*                                                                         *)
(* A transaction is [version, lock_time, input, output], an input          *)
(* [prevout, script, sequence], an output [value, script].  Encoding and   *)
(* double SHA-256 are injective here: a hash is the data it is taken of.   *)
(* Indices start at 1; the code's start at 0.                              *)
(***************************************************************************)
EXTENDS Naturals, Sequences, SequencesExt

CONSTANTS
  NoScript,    \* the empty script
  MaxValue,    \* u64::MAX, the value of TxOut::default
  HashTypes    \* the hash types a run looks at: [base, any]

Bases == {"All", "None", "Single"}
ASSUME HashTypesAssumption == HashTypes \subseteq [base : Bases, any : BOOLEAN]

AllType == [base |-> "All", any |-> FALSE]

\* What is hashed when SIGHASH_SINGLE has no output to commit to: the one
\* array, which says nothing of the transaction.
One      == [one |-> TRUE]
ErrIndex == [error |-> TRUE]
NullOut  == [value |-> MaxValue, script |-> NoScript]

-----------------------------------------------------------------------------
(* encode_signing_data_to and signature_hash *)

InvalidSingle_never(ty, i, outs) == FALSE   \* mutant: the bug is not handled
InvalidSingle(ty, i, outs) ==
  /\ ty = [base |-> "Single", any |-> FALSE]
  /\ i > outs

\* The inputs of the transaction that is hashed: the input itself with the
\* script it spends, the others without theirs.
SignedInput_scripts(in, own, script, ty) ==   \* mutant: keeps the scripts
  [prevout  |-> in.prevout,
   script   |-> IF own THEN script ELSE in.script,
   sequence |-> IF ~own /\ ty.base # "All" THEN 0 ELSE in.sequence]
SignedInput(in, own, script, ty) ==
  [prevout  |-> in.prevout,
   script   |-> IF own THEN script ELSE NoScript,
   sequence |-> IF ~own /\ ty.base # "All" THEN 0 ELSE in.sequence]

SignedInputs(tx, i, script, ty) ==
  IF ty.any
  THEN << SignedInput(tx.input[i], TRUE, script, ty) >>
  ELSE [n \in DOMAIN tx.input |->
          SignedInput(tx.input[n], n = i, script, ty)]

SignedOutputs_own(tx, i, ty) ==   \* mutant: All signs the output it is paired with
  IF ty.base = "None" THEN << >>
  ELSE [n \in {m \in DOMAIN tx.output : m <= i} |->
          IF n = i THEN tx.output[n] ELSE NullOut]
SignedOutputs(tx, i, ty) ==
  CASE ty.base = "All"    -> tx.output
    [] ty.base = "None"   -> << >>
    [] ty.base = "Single" ->
         [n \in {m \in DOMAIN tx.output : m <= i} |->
            IF n = i THEN tx.output[n] ELSE NullOut]

SignatureHash(tx, i, script, ty) ==
  CASE i \notin DOMAIN tx.input -> ErrIndex
    [] i \in DOMAIN tx.input /\ InvalidSingle(ty, i, Len(tx.output)) -> One
    [] OTHER -> [version   |-> tx.version,
                 lock_time |-> tx.lock_time,
                 input     |-> SignedInputs(tx, i, script, ty),
                 output    |-> SignedOutputs(tx, i, ty),
                 type      |-> ty]

\* set_input_script: the signature and the public key.
SetInputScript_kept(tx, i, signature, pubkey) ==   \* mutant: not when there is one
  IF tx.input[i].script # NoScript THEN tx
  ELSE [tx EXCEPT !.input[i].script = [signature |-> signature, pubkey |-> pubkey]]
SetInputScript(tx, i, signature, pubkey) ==
  [tx EXCEPT !.input[i].script = [signature |-> signature, pubkey |-> pubkey]]

\* Secp256k1: a signature is made with a key for a hash, and verifies with
\* this key for this hash only.
Sign(key, hash) == [key |-> key, hash |-> hash]

\* The node's verification of input i that spends an output of script
\* script, where the key is named by the script (P2PKH).
Verifies(tx, i, script, ty) ==
  /\ i \in DOMAIN tx.input
  /\ tx.input[i].script = [signature |-> Sign(script, SignatureHash(tx, i, script, ty)),
                           pubkey    |-> script]
=============================================================================
