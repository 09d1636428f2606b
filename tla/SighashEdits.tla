----------------------------- MODULE SighashEdits -----------------------------
(***************************************************************************)
(* A transaction with one signature on it is edited on its way to the node *)
(* that verifies the signature: the signature must hold exactly as long as *)
(* what its hash type protects is unchanged.                               *)
(***************************************************************************)
EXTENDS Sighash

CONSTANTS
  Unsigned,    \* the transactions that may be signed
  Key,         \* the key that signs, and the script it opens
  Values, Prevouts, Sequences,   \* what an edit may put in
  MaxEdits

VARIABLES original, edited, index, type, edits
vars == <<original, edited, index, type, edits>>

Init ==
  \E tx \in Unsigned, ty \in HashTypes : \E i \in DOMAIN tx.input :
    /\ original = SetInputScript(tx, i, Sign(Key, SignatureHash(tx, i, Key, ty)), Key)
    /\ edited = original
    /\ index = i
    /\ type = ty
    /\ edits = 0

Edit(tx) ==
  /\ edits < MaxEdits
  /\ edits' = edits + 1
  /\ edited' = tx
  /\ UNCHANGED <<original, index, type>>

EditOutput == \E n \in DOMAIN edited.output, v \in Values :
  Edit([edited EXCEPT !.output[n].value = v])
AddOutput == \E v \in Values :
  Edit([edited EXCEPT !.output = Append(@, [value |-> v, script |-> Key])])
DropOutput ==
  /\ edited.output # << >>
  /\ Edit([edited EXCEPT !.output = Front(@)])
EditPrevout == \E n \in DOMAIN edited.input, p \in Prevouts :
  Edit([edited EXCEPT !.input[n].prevout = p])
EditSequence == \E n \in DOMAIN edited.input, s \in Sequences :
  Edit([edited EXCEPT !.input[n].sequence = s])
\* Another signer sets the script of an input.
EditScript == \E n \in DOMAIN edited.input \ {index} :
  Edit(SetInputScript(edited, n, Sign(Key, One), Key))
AddInput == \E p \in Prevouts, s \in Sequences :
  Edit([edited EXCEPT !.input =
          Append(@, [prevout |-> p, script |-> NoScript, sequence |-> s])])
DropInput ==
  /\ Len(edited.input) > index
  /\ Edit([edited EXCEPT !.input = Front(@)])
EditLockTime == Edit([edited EXCEPT !.lock_time = 1 - @])

Next == \/ EditOutput \/ AddOutput \/ DropOutput
        \/ EditPrevout \/ EditSequence \/ EditScript
        \/ AddInput \/ DropInput \/ EditLockTime

Spec == Init /\ [][Next]_vars

-----------------------------------------------------------------------------
(* Properties *)

\* What each type promises to protect: with any, the input itself, without
\* it every input it is spent with (their sequences for All only); for All
\* every output, for Single the output of the same index, for None no
\* output.  Without that output, SIGHASH_SINGLE protects nothing at all, and
\* with any only the number of outputs.
SameInputs(a, b) ==
  /\ a.input[index].prevout = b.input[index].prevout
  /\ a.input[index].sequence = b.input[index].sequence
  /\ type.any \/ /\ Len(a.input) = Len(b.input)
                 /\ \A n \in DOMAIN a.input :
                      a.input[n].prevout = b.input[n].prevout
  /\ type = AllType =>
       \A n \in DOMAIN a.input : a.input[n].sequence = b.input[n].sequence
HasOutput(tx) == index \in DOMAIN tx.output
SameOutputs(a, b) ==
  CASE type.base = "All"    -> a.output = b.output
    [] type.base = "None"   -> TRUE
    [] type.base = "Single" ->
         IF HasOutput(a) /\ HasOutput(b) THEN a.output[index] = b.output[index]
         ELSE ~HasOutput(a) /\ ~HasOutput(b) /\ Len(a.output) = Len(b.output)
Protected(a, b) ==
  IF type.base = "Single" /\ ~type.any /\ (~HasOutput(a) \/ ~HasOutput(b))
  THEN ~HasOutput(a) /\ ~HasOutput(b)
  ELSE /\ a.version = b.version
       /\ a.lock_time = b.lock_time
       /\ SameInputs(a, b)
       /\ SameOutputs(a, b)

\* The signature encode_signing_data_to makes holds on the edited
\* transaction exactly when nothing the hash type protects was changed:
\* neither more (other signers set their scripts) nor less.
CommitsToType == Verifies(edited, index, Key, type) <=> Protected(original, edited)

\* With SIGHASH_ALL, the only type the canisters use, a transaction whose
\* signature still holds spends the same outputs and pays the same outputs.
AllFixesPayment ==
  type = AllType /\ Verifies(edited, index, Key, type) =>
    /\ edited.output = original.output
    /\ [n \in DOMAIN edited.input |-> edited.input[n].prevout]
         = [n \in DOMAIN original.input |-> original.input[n].prevout]
=============================================================================
