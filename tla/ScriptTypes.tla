----------------------------- MODULE ScriptTypes -----------------------------
(***************************************************************************)
(* Output scripts and addresses (script.rs): which scripts the UTXO index  *)
(* files under which address.                                              *)
(*                                                                         *)
(* A script is a sequence of bytes, an address its 21 bytes: the prefix of *)
(* the chain and the hash.  The lengths of hashes and keys are parameters  *)
(* (20, 33 and 65 in the code), and so are the positions that follow from  *)
(* them; a push of n bytes is the byte n.  Indices start at 1.             *)
(***************************************************************************)
EXTENDS Naturals, Sequences, SequencesExt

CONSTANTS
  HashLen, ShortKey, LongKey,     \* 20, ECPUB_KEY_COMPRESSED_LEN, .._UNCOMPRESSED_LEN
  P2pkhPrefix, P2shPrefix,        \* ChainParams
  Addresses,                      \* addresses that are paid
  Scripts,                        \* other scripts that outputs have
  Bytes, MaxEdits                 \* what an edit may put in, and how often

OP_RETURN == 106
OP_DUP == 118
OP_EQUAL == 135
OP_EQUALVERIFY == 136
OP_HASH160 == 169
OP_CHECKSIG == 172
OP_CHECKMULTISIG == 174
OP_1 == 81
OP_16 == 96

ASSUME LengthsAssumption ==
  /\ {HashLen, ShortKey, LongKey} \subseteq 1..75   \* the pushes of one byte
  /\ ShortKey < LongKey
  /\ P2pkhPrefix # P2shPrefix

Byte == 0..255
ASSUME ScriptsAssumption ==
  /\ P2pkhPrefix \in Byte /\ P2shPrefix \in Byte
  /\ Scripts \subseteq Seq(Byte) /\ Bytes \subseteq Byte
  /\ \A a \in Addresses : a \in Seq(Byte) /\ Len(a) = HashLen + 1   \* Address::from_str

VARIABLES script, edits
vars == <<script, edits>>

-----------------------------------------------------------------------------
(* Address::to_script *)

P2pkh(hash) == <<OP_DUP, OP_HASH160, HashLen>> \o hash \o <<OP_EQUALVERIFY, OP_CHECKSIG>>
P2sh(hash)  == <<OP_HASH160, HashLen>> \o hash \o <<OP_EQUAL>>
Address(prefix, hash) == <<prefix>> \o hash
ToScript(address) ==
  IF address[1] = P2pkhPrefix THEN P2pkh(Tail(address))
  ELSE IF address[1] = P2shPrefix THEN P2sh(Tail(address)) ELSE << >>

-----------------------------------------------------------------------------
(* classify_script *)

IsPubKeyHash_push(s) ==   \* mutant: any push
  /\ Len(s) = HashLen + 5
  /\ s[1] = OP_DUP /\ s[2] = OP_HASH160
  /\ s[HashLen + 4] = OP_EQUALVERIFY /\ s[HashLen + 5] = OP_CHECKSIG
IsPubKeyHash(s) ==
  /\ Len(s) = HashLen + 5
  /\ s[1] = OP_DUP /\ s[2] = OP_HASH160 /\ s[3] = HashLen
  /\ s[HashLen + 4] = OP_EQUALVERIFY /\ s[HashLen + 5] = OP_CHECKSIG
IsPubKey(s) ==
  \E len \in {ShortKey, LongKey} :
    Len(s) = len + 2 /\ s[1] = len /\ s[len + 2] = OP_CHECKSIG
IsScriptHash(s) ==
  /\ Len(s) = HashLen + 3
  /\ s[1] = OP_HASH160 /\ s[2] = HashLen /\ s[HashLen + 3] = OP_EQUAL

IsOpN1(op) == op \in OP_1..OP_16
LooksMultiSig(s) ==
  /\ Len(s) >= 3 + ShortKey + 1
  /\ s[Len(s)] = OP_CHECKMULTISIG
  /\ IsOpN1(s[Len(s) - 1])
  /\ IsOpN1(s[1])

\* One turn of the loop over the keys: ofs is the code's offset (the bytes
\* read), left the keys still to come; a turn that finds no key ends it.
NextKey(s, k) ==
  LET end    == Len(s) - 2
      has(len) == s[k.ofs + 1] = len /\ k.ofs + 1 + len <= end
      key(len) == [ofs |-> k.ofs + 1 + len, left |-> k.left - 1]
  IN  IF k.ofs >= end \/ k.left = 0 THEN k
      ELSE IF has(LongKey)  THEN key(LongKey)
      ELSE IF has(ShortKey) THEN key(ShortKey) ELSE k
KeysRead_some(s) ==   \* mutant: keys may be left over
  LET n == s[Len(s) - 1] - (OP_1 - 1)
  IN  FoldLeft(LAMBDA k, turn : NextKey(s, k), [ofs |-> 1, left |-> n],
               [turn \in 1..n |-> turn]).ofs = Len(s) - 2
KeysRead(s) ==
  LET n == s[Len(s) - 1] - (OP_1 - 1)
  IN  FoldLeft(LAMBDA k, turn : NextKey(s, k), [ofs |-> 1, left |-> n],
               [turn \in 1..n |-> turn]) = [ofs |-> Len(s) - 2, left |-> 0]

NoAddress == << >>
Classified(type, address) == [type |-> type, address |-> address]
ClassifyScript(s) ==
  IF IsPubKeyHash(s)
  THEN Classified("pubkeyhash", Address(P2pkhPrefix, SubSeq(s, 4, HashLen + 3)))
  ELSE IF IsPubKey(s) THEN Classified("pubkey", NoAddress)
  ELSE IF IsScriptHash(s)
  THEN Classified("scripthash", Address(P2shPrefix, SubSeq(s, 3, HashLen + 2)))
  ELSE IF LooksMultiSig(s)
  THEN Classified(IF KeysRead(s) THEN "multisig" ELSE "nonstandard", NoAddress)
  ELSE IF s # << >> /\ s[1] = OP_RETURN THEN Classified("nulldata", NoAddress)
  ELSE Classified("nonstandard", NoAddress)

-----------------------------------------------------------------------------
(* Scripts of outputs: those of addresses, others, and what is near them *)

Init == /\ script \in {ToScript(a) : a \in Addresses} \cup Scripts
        /\ edits = 0

Edit(s) == /\ edits < MaxEdits
           /\ script' = s
           /\ edits' = edits + 1
DropByte    == script # << >> /\ Edit(Front(script))
AddByte     == \E b \in Bytes : Edit(Append(script, b))
ReplaceByte == \E n \in DOMAIN script, b \in Bytes : Edit([script EXCEPT ![n] = b])
InsertByte  == \E n \in DOMAIN script, b \in Bytes : Edit(InsertAt(script, n, b))

Next == DropByte \/ AddByte \/ ReplaceByte \/ InsertByte
Spec == Init /\ [][Next]_vars

-----------------------------------------------------------------------------
(* Properties *)

\* An output is filed under an address exactly when its script is the one
\* that pays this address, so what list_utxos shows of an address can be
\* spent with its key, and nothing that can be is missing.
AddressExact ==
  LET found == ClassifyScript(script).address
  IN  /\ found # NoAddress => ToScript(found) = script
      /\ \A a \in Addresses :
           a[1] \in {P2pkhPrefix, P2shPrefix} =>
             (script = ToScript(a) <=> found = a)

\* OP_m <key>*n OP_n OP_CHECKMULTISIG, as the comment in classify_script
\* has it: a script is multisig exactly when it is put together like that.
KeysOf(body, lens) ==   \* body is keys of the lengths lens, one after the other
  LET start[i \in 1..(Len(lens) + 1)] ==
        IF i = 1 THEN 1 ELSE start[i - 1] + lens[i - 1] + 1
  IN  /\ start[Len(lens) + 1] = Len(body) + 1
      /\ \A i \in DOMAIN lens : body[start[i]] = lens[i]
IsMultiSig ==
  /\ Len(script) >= 3
  /\ script[1] \in OP_1..OP_16
  /\ \E n \in 1..16 :
       /\ script[Len(script) - 1] = OP_1 + n - 1
       /\ \E lens \in [1..n -> {ShortKey, LongKey}] :
            KeysOf(SubSeq(script, 2, Len(script) - 2), lens)
  /\ script[Len(script)] = OP_CHECKMULTISIG
MultiSigExact == ClassifyScript(script).type = "multisig" <=> IsMultiSig
=============================================================================
