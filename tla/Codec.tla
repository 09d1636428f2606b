-------------------------------- MODULE Codec --------------------------------
(***************************************************************************)
(* The consensus encoding of transactions and blocks (lib.rs, block.rs,    *)
(* transaction.rs), and what the JSON-RPC client (jsonrpc.rs, agent.rs)    *)
(* makes of the answer to getblock, whose result carries these bytes.      *)
(*                                                                         *)
(* A stream is a sequence of tokens: a field of fixed width, a VarInt or a *)
(* byte of a script is one token, and nothing in the stream says which it  *)
(* is.  A structure is the tuple of its fields in the order of the wire:   *)
(*   TxIn <<txid, vout, script, sequence>>      TxOut <<value, script>>    *)
(*   Transaction <<version, input, output, lock_time>>                     *)
(*   BlockHeader <<version, prev, merkle_root, time, bits, nonce>>         *)
(*   MerkleBranch <<hash, side_mask>>                                      *)
(*   MerkleTx <<coinbase_tx, parent_hash, coinbase_branch,                 *)
(*              blockchain_branch, parent_block>>                          *)
(*   Block <<header, auxpow, txdata>>, auxpow a sequence of at most one    *)
(* Witness is not on the wire.                                             *)
(***************************************************************************)
EXTENDS Naturals, Sequences, SequencesExt

CONSTANTS
  Blocks,      \* the blocks a node may send
  Tokens,      \* what noise may put in the stream
  Statuses,    \* HTTP statuses of answers that go wrong, 0 for no answer
  MaxNoise,    \* how often something may go wrong
  VersionAuxpow   \* BlockHeader::VERSION_AUXPOW, a power of two

VARIABLES
  block,    \* what the node encodes
  reply,    \* the answer around it: [status, body]
  stream,   \* the bytes in the result of the answer
  noise
vars == <<block, reply, stream, noise>>

-----------------------------------------------------------------------------
(* Encoding *)

Word(w) == <<w>>
EncodeVec(v, Item(_)) ==
  <<Len(v)>> \o FlattenSeq([n \in DOMAIN v |-> Item(v[n])])
EncodeScript(s) == EncodeVec(s, Word)

EncodeTxIn(in)   == <<in[1], in[2]>> \o EncodeScript(in[3]) \o <<in[4]>>
EncodeTxOut(out) == <<out[1]>> \o EncodeScript(out[2])
EncodeTx(tx) ==
  <<tx[1]>> \o EncodeVec(tx[2], EncodeTxIn) \o EncodeVec(tx[3], EncodeTxOut)
            \o <<tx[4]>>
EncodeBranch_swap(br) ==   \* mutant: the side mask before the hashes
  <<br[2]>> \o EncodeVec(br[1], Word)
EncodeBranch(br) == EncodeVec(br[1], Word) \o <<br[2]>>
EncodeMerkleTx(m) ==
  EncodeTx(m[1]) \o <<m[2]>> \o EncodeBranch(m[3]) \o EncodeBranch(m[4]) \o m[5]
EncodeAuxpow(auxpow) == FlattenSeq([n \in DOMAIN auxpow |-> EncodeMerkleTx(auxpow[n])])
EncodeBlock(b) == b[1] \o EncodeAuxpow(b[2]) \o EncodeVec(b[3], EncodeTx)

IsAuxpow(header) == (header[1] \div VersionAuxpow) % 2 = 1

(* What there is to encode *)

TxIns == Nat \X Nat \X Seq(Nat) \X Nat
TxOuts == Nat \X Seq(Nat)
Transactions == Nat \X Seq(TxIns) \X Seq(TxOuts) \X Nat
Headers == Nat \X Nat \X Nat \X Nat \X Nat \X Nat
Branches == Seq(Nat) \X Nat
MerkleTxs == Transactions \X Nat \X Branches \X Branches \X Headers
WellFormed ==   \* an auxpow exactly when the version says so
  {b \in Headers \X Seq(MerkleTxs) \X Seq(Transactions) :
     Len(b[2]) = IF IsAuxpow(b[1]) THEN 1 ELSE 0}

ASSUME CodecAssumption ==
  /\ VersionAuxpow \in Nat \ {0}
  /\ Blocks \subseteq WellFormed /\ Tokens \subseteq Nat /\ Statuses \subseteq Nat

-----------------------------------------------------------------------------
(* Decoding: a reader has what it decoded so far and the rest of the stream *)

Reader(value, rest) == [ok |-> TRUE, value |-> value, rest |-> rest]
Failed == [ok |-> FALSE, value |-> << >>, rest |-> << >>]

\* The next field of a structure, decoded with Item.
Then(r, Item(_)) ==
  IF ~r.ok THEN Failed
  ELSE LET x == Item(r.rest)
       IN  IF x.ok THEN Reader(Append(r.value, x.value), x.rest) ELSE Failed

DecodeWord(s) == IF s = << >> THEN Failed ELSE Reader(Head(s), Tail(s))
\* Every item reads at least one token: past the end of the stream one failing
\* item stands for all that are missing.
DecodeVec(s, Item(_)) ==
  LET n == DecodeWord(s)
  IN  IF ~n.ok \/ n.value > Len(n.rest) THEN Failed
      ELSE FoldLeft(LAMBDA r, k : Then(r, Item), Reader(<< >>, n.rest),
                    [k \in 1..n.value |-> k])
DecodeScript(s) == DecodeVec(s, DecodeWord)

DecodeTxIn(s) ==
  Then(Then(Then(Then(Reader(<< >>, s), DecodeWord), DecodeWord),
            DecodeScript), DecodeWord)
DecodeTxOut(s) == Then(Then(Reader(<< >>, s), DecodeWord), DecodeScript)
DecodeTx(s) ==
  LET Inputs(rest)  == DecodeVec(rest, DecodeTxIn)
      Outputs(rest) == DecodeVec(rest, DecodeTxOut)
  IN  Then(Then(Then(Then(Reader(<< >>, s), DecodeWord), Inputs), Outputs),
           DecodeWord)
DecodeHeader(s) ==
  FoldLeft(LAMBDA r, k : Then(r, DecodeWord), Reader(<< >>, s), [k \in 1..6 |-> k])
DecodeBranch(s) ==
  LET Hashes(rest) == DecodeVec(rest, DecodeWord)
  IN  Then(Then(Reader(<< >>, s), Hashes), DecodeWord)
DecodeMerkleTx(s) ==
  Then(Then(Then(Then(Then(Reader(<< >>, s), DecodeTx), DecodeWord),
                 DecodeBranch), DecodeBranch), DecodeHeader)

\* The auxpow is there exactly when the version of the header says so.
DecodeAuxpow_tried(r) ==   \* mutant: takes an auxpow when one can be read
  LET Auxpow(s) == Then(Reader(<< >>, s), DecodeMerkleTx)
  IN  IF r.ok /\ ~Then(r, Auxpow).ok THEN Reader(Append(r.value, << >>), r.rest)
      ELSE Then(r, Auxpow)
DecodeAuxpow(r) ==
  LET Auxpow(s) == Then(Reader(<< >>, s), DecodeMerkleTx)
  IN  IF r.ok /\ ~IsAuxpow(r.value[1]) THEN Reader(Append(r.value, << >>), r.rest)
      ELSE Then(r, Auxpow)
DecodeBlock(s) ==
  LET Txs(rest) == DecodeVec(rest, DecodeTx)
  IN  Then(DecodeAuxpow(Then(Reader(<< >>, s), DecodeHeader)), Txs)

\* deserialize_hex takes nothing that is not consumed entirely.
Deserialize_rest(s) == DecodeBlock(s)   \* mutant: ignores what is left
Deserialize(s) ==
  LET r == DecodeBlock(s) IN IF r.ok /\ r.rest = << >> THEN r ELSE Failed

\* post hands on the body of a 2xx answer.  call takes the result, unless the
\* body is no JSON ("garbled") or has an error, beside a result or not; the
\* result null is no string of digits.
Post(r) == r.status \in 200..299
CallResult_first(r) ==   \* mutant: a result counts, whatever is beside it
  Post(r) /\ r.body \in {"result", "both"}
CallResult(r) == Post(r) /\ r.body = "result"
GetBlock(r, s) == IF CallResult(r) THEN Deserialize(s) ELSE Failed

-----------------------------------------------------------------------------
(* An answer and what the way does to it *)

Init == /\ block \in Blocks
        /\ reply = [status |-> 200, body |-> "result"]
        /\ stream = EncodeBlock(block)
        /\ noise = 0

Disturbed  == noise < MaxNoise /\ noise' = noise + 1 /\ UNCHANGED block
Disturb(s) == Disturbed /\ stream' = s /\ UNCHANGED reply
Truncate == stream # << >> /\ Disturb(Front(stream))
Extend   == \E w \in Tokens : Disturb(Append(stream, w))
Replace  == \E n \in DOMAIN stream, w \in Tokens : Disturb([stream EXCEPT ![n] = w])

Refuse == /\ Disturbed /\ UNCHANGED stream
          /\ \/ \E c \in Statuses : reply' = [reply EXCEPT !.status = c]
             \/ \E b \in {"error", "both", "null", "garbled"} :
                  reply' = [reply EXCEPT !.body = b]

Next == Truncate \/ Extend \/ Replace \/ Refuse
Spec == Init /\ [][Next]_vars

-----------------------------------------------------------------------------
(* Properties *)

\* What a node encodes is read back as it was: the auxpow is found by the
\* version alone, and no field is taken for another.
RoundTrip == noise = 0 => GetBlock(reply, stream) = Reader(block, << >>)

\* Whatever a stream is read as, it is the encoding of that: the reader
\* neither invents nor skips a token, and a block has its auxpow exactly
\* when its version says so.
Canonical ==
  LET r == DecodeBlock(stream)
  IN  r.ok => /\ EncodeBlock(r.value) \o r.rest = stream
              /\ r.value[2] # << >> <=> IsAuxpow(r.value[1])

\* An answer that was cut short, has bytes left over or has an error is
\* refused, and no other.
WholeOrNothing ==
  LET sent  == EncodeBlock(block)
      clean == reply.body = "result" /\ reply.status \div 100 = 2
  IN  IsPrefix(stream, sent) \/ IsPrefix(sent, stream) =>
        (GetBlock(reply, stream).ok <=> stream = sent /\ clean)
=============================================================================
