---------------------------- MODULE ScriptSafety ----------------------------
(***************************************************************************)
(* Proofs about ScriptTypes: a script is filed under an address exactly    *)
(* when it is the one that pays to it, and classified as multisig exactly  *)
(* when it is put together as one, for every script and every length of    *)
(* hashes and keys.                                                        *)
(***************************************************************************)
EXTENDS ScriptTypes, Sums, SequenceTheorems

Hashes == {h \in Seq(Byte) : Len(h) = HashLen}

LEMMA Lengths ==
  /\ HashLen \in Nat /\ 1 <= HashLen /\ HashLen <= 75
  /\ ShortKey \in Nat /\ 1 <= ShortKey /\ ShortKey <= 75
  /\ LongKey \in Nat /\ 1 <= LongKey /\ LongKey <= 75
  /\ ShortKey # LongKey
<1>1. {HashLen, ShortKey, LongKey} \subseteq 1..75 /\ ShortKey < LongKey
  BY LengthsAssumption
<1>2. HashLen \in 1..75 /\ ShortKey \in 1..75 /\ LongKey \in 1..75
  BY <1>1
<1> QED BY <1>1, <1>2

-----------------------------------------------------------------------------
(* The scripts that pay to an address, position by position *)

LEMMA Joined ==
  ASSUME NEW S, NEW s \in Seq(S), NEW t \in Seq(S)
  PROVE  /\ s \o t \in Seq(S) /\ Len(s \o t) = Len(s) + Len(t)
         /\ \A i \in 1..Len(s) : (s \o t)[i] = s[i]
         /\ \A j \in 1..Len(t) : (s \o t)[Len(s) + j] = t[j]
<1>1. /\ s \o t \in Seq(S) /\ Len(s \o t) = Len(s) + Len(t)
      /\ \A i \in 1..Len(s) : (s \o t)[i] = s[i]
  BY ConcatProperties
<1>2. ASSUME NEW j \in 1..Len(t) PROVE (s \o t)[Len(s) + j] = t[j]
  <2>1. /\ Len(s) + j \in 1..(Len(s) + Len(t)) /\ ~ (Len(s) + j <= Len(s))
        /\ (Len(s) + j) - Len(s) = j
    OBVIOUS
  <2> QED BY <2>1, ConcatProperties
<1> QED BY <1>1, <1>2

LEMMA PkhBytes ==
  ASSUME NEW h \in Hashes
  PROVE  /\ P2pkh(h) \in Seq(Byte) /\ Len(P2pkh(h)) = HashLen + 5
         /\ P2pkh(h)[1] = OP_DUP /\ P2pkh(h)[2] = OP_HASH160 /\ P2pkh(h)[3] = HashLen
         /\ \A i \in 1..HashLen : P2pkh(h)[i + 3] = h[i]
         /\ P2pkh(h)[HashLen + 4] = OP_EQUALVERIFY
         /\ P2pkh(h)[HashLen + 5] = OP_CHECKSIG
<1> DEFINE a == <<OP_DUP, OP_HASH160, HashLen>>
           z == <<OP_EQUALVERIFY, OP_CHECKSIG>>
<1>1. /\ a \in Seq(Byte) /\ Len(a) = 3
      /\ a[1] = OP_DUP /\ a[2] = OP_HASH160 /\ a[3] = HashLen
      /\ z \in Seq(Byte) /\ Len(z) = 2 /\ z[1] = OP_EQUALVERIFY /\ z[2] = OP_CHECKSIG
  BY Lengths DEF Byte, OP_DUP, OP_HASH160, OP_EQUALVERIFY, OP_CHECKSIG
<1>2. h \in Seq(Byte) /\ Len(h) = HashLen
  BY DEF Hashes
<1>3. P2pkh(h) = (a \o h) \o z
  BY DEF P2pkh
<1> HIDE DEF a, z
<1>4. /\ a \o h \in Seq(Byte) /\ Len(a \o h) = 3 + HashLen
      /\ \A i \in 1..3 : (a \o h)[i] = a[i]
      /\ \A j \in 1..HashLen : (a \o h)[3 + j] = h[j]
  <2>1. a \in Seq(Byte) /\ h \in Seq(Byte)
    BY <1>1, <1>2
  <2>2. /\ a \o h \in Seq(Byte) /\ Len(a \o h) = Len(a) + Len(h)
        /\ \A i \in 1..Len(a) : (a \o h)[i] = a[i]
        /\ \A j \in 1..Len(h) : (a \o h)[Len(a) + j] = h[j]
    BY <2>1, Joined
  <2> QED BY <1>1, <1>2, <2>2
<1> DEFINE b == a \o h
<1> HIDE DEF b
<1>5. /\ P2pkh(h) \in Seq(Byte) /\ Len(P2pkh(h)) = (3 + HashLen) + 2
      /\ \A i \in 1..(3 + HashLen) : P2pkh(h)[i] = b[i]
      /\ \A j \in 1..2 : P2pkh(h)[(3 + HashLen) + j] = z[j]
  <2>0. Len(b) = 3 + HashLen /\ Len(z) = 2
    BY <1>1, <1>4 DEF b
  <2>1. b \in Seq(Byte) /\ z \in Seq(Byte)
    BY <1>1, <1>4 DEF b
  <2>2. /\ b \o z \in Seq(Byte) /\ Len(b \o z) = Len(b) + Len(z)
        /\ \A i \in 1..Len(b) : (b \o z)[i] = b[i]
        /\ \A j \in 1..Len(z) : (b \o z)[Len(b) + j] = z[j]
    BY <2>1, Joined
  <2>3. P2pkh(h) = b \o z
    BY <1>3 DEF b
  <2> QED BY <2>0, <2>2, <2>3
<1>6. /\ P2pkh(h)[1] = a[1] /\ P2pkh(h)[2] = a[2] /\ P2pkh(h)[3] = a[3]
  BY <1>4, <1>5, Lengths DEF b
<1>7. ASSUME NEW i \in 1..HashLen PROVE P2pkh(h)[i + 3] = h[i]
  <2>1. 3 + i \in 1..(3 + HashLen) /\ i + 3 = 3 + i
    BY Lengths
  <2> QED BY <1>4, <1>5, <2>1 DEF b
<1>8. P2pkh(h)[HashLen + 4] = z[1] /\ P2pkh(h)[HashLen + 5] = z[2]
  <2>1. (3 + HashLen) + 1 = HashLen + 4 /\ (3 + HashLen) + 2 = HashLen + 5
    BY Lengths
  <2> QED BY <1>5, <2>1
<1> QED BY <1>1, <1>5, <1>6, <1>7, <1>8, Lengths

LEMMA ShBytes ==
  ASSUME NEW h \in Hashes
  PROVE  /\ P2sh(h) \in Seq(Byte) /\ Len(P2sh(h)) = HashLen + 3
         /\ P2sh(h)[1] = OP_HASH160 /\ P2sh(h)[2] = HashLen
         /\ \A i \in 1..HashLen : P2sh(h)[i + 2] = h[i]
         /\ P2sh(h)[HashLen + 3] = OP_EQUAL
<1> DEFINE a == <<OP_HASH160, HashLen>>
           z == <<OP_EQUAL>>
<1>1. /\ a \in Seq(Byte) /\ Len(a) = 2 /\ a[1] = OP_HASH160 /\ a[2] = HashLen
      /\ z \in Seq(Byte) /\ Len(z) = 1 /\ z[1] = OP_EQUAL
  BY Lengths DEF Byte, OP_HASH160, OP_EQUAL
<1>2. h \in Seq(Byte) /\ Len(h) = HashLen
  BY DEF Hashes
<1>3. P2sh(h) = (a \o h) \o z
  BY DEF P2sh
<1> HIDE DEF a, z
<1>4. /\ a \o h \in Seq(Byte) /\ Len(a \o h) = 2 + HashLen
      /\ \A i \in 1..2 : (a \o h)[i] = a[i]
      /\ \A j \in 1..HashLen : (a \o h)[2 + j] = h[j]
  <2>1. a \in Seq(Byte) /\ h \in Seq(Byte)
    BY <1>1, <1>2
  <2>2. /\ a \o h \in Seq(Byte) /\ Len(a \o h) = Len(a) + Len(h)
        /\ \A i \in 1..Len(a) : (a \o h)[i] = a[i]
        /\ \A j \in 1..Len(h) : (a \o h)[Len(a) + j] = h[j]
    BY <2>1, Joined
  <2> QED BY <1>1, <1>2, <2>2
<1> DEFINE b == a \o h
<1> HIDE DEF b
<1>5. /\ P2sh(h) \in Seq(Byte) /\ Len(P2sh(h)) = (2 + HashLen) + 1
      /\ \A i \in 1..(2 + HashLen) : P2sh(h)[i] = b[i]
      /\ \A j \in 1..1 : P2sh(h)[(2 + HashLen) + j] = z[j]
  <2>0. Len(b) = 2 + HashLen /\ Len(z) = 1
    BY <1>1, <1>4 DEF b
  <2>1. b \in Seq(Byte) /\ z \in Seq(Byte)
    BY <1>1, <1>4 DEF b
  <2>2. /\ b \o z \in Seq(Byte) /\ Len(b \o z) = Len(b) + Len(z)
        /\ \A i \in 1..Len(b) : (b \o z)[i] = b[i]
        /\ \A j \in 1..Len(z) : (b \o z)[Len(b) + j] = z[j]
    BY <2>1, Joined
  <2>3. P2sh(h) = b \o z
    BY <1>3 DEF b
  <2> QED BY <2>0, <2>2, <2>3
<1>6. /\ P2sh(h)[1] = a[1] /\ P2sh(h)[2] = a[2]
  BY <1>4, <1>5, Lengths DEF b
<1>7. ASSUME NEW i \in 1..HashLen PROVE P2sh(h)[i + 2] = h[i]
  <2>1. 2 + i \in 1..(2 + HashLen) /\ i + 2 = 2 + i
    BY Lengths
  <2> QED BY <1>4, <1>5, <2>1 DEF b
<1>8. P2sh(h)[HashLen + 3] = z[1]
  <2>1. (2 + HashLen) + 1 = HashLen + 3
    BY Lengths
  <2> QED BY <1>5, <2>1
<1> QED BY <1>1, <1>5, <1>6, <1>7, <1>8, Lengths

\* A part of a script that is as long as a hash.
LEMMA PartIsHash ==
  ASSUME NEW s \in Seq(Byte), NEW k \in Nat, k + HashLen <= Len(s)
  PROVE  /\ SubSeq(s, k + 1, k + HashLen) \in Hashes
         /\ \A i \in 1..HashLen : SubSeq(s, k + 1, k + HashLen)[i] = s[k + i]
<1>1. Len(s) \in Nat /\ DOMAIN s = 1..Len(s)
  BY LenProperties
<1>2. \A i \in (k + 1)..(k + HashLen) : s[i] \in Byte
  BY <1>1, ElementOfSeq, Lengths
<1>3. /\ SubSeq(s, k + 1, k + HashLen) \in Seq(Byte)
      /\ Len(SubSeq(s, k + 1, k + HashLen)) = HashLen
      /\ \A i \in 1..HashLen : SubSeq(s, k + 1, k + HashLen)[i] = s[k + i]
  BY <1>2, SubSeqProperties, Lengths
<1> QED BY <1>3 DEF Hashes

LEMMA PkhOfPart ==
  ASSUME NEW s \in Seq(Byte), IsPubKeyHash(s)
  PROVE  /\ SubSeq(s, 4, HashLen + 3) \in Hashes
         /\ P2pkh(SubSeq(s, 4, HashLen + 3)) = s
<1> DEFINE h == SubSeq(s, 4, HashLen + 3)
<1>1. h = SubSeq(s, 3 + 1, 3 + HashLen)
  BY Lengths
<1>2. /\ Len(s) = HashLen + 5
      /\ s[1] = OP_DUP /\ s[2] = OP_HASH160 /\ s[3] = HashLen
      /\ s[HashLen + 4] = OP_EQUALVERIFY /\ s[HashLen + 5] = OP_CHECKSIG
  BY DEF IsPubKeyHash
<1>3. h \in Hashes /\ \A i \in 1..HashLen : h[i] = s[i + 3]
  BY <1>1, <1>2, PartIsHash, Lengths
<1> HIDE DEF h
<1>4. /\ P2pkh(h) \in Seq(Byte) /\ Len(P2pkh(h)) = HashLen + 5
      /\ P2pkh(h)[1] = OP_DUP /\ P2pkh(h)[2] = OP_HASH160 /\ P2pkh(h)[3] = HashLen
      /\ \A i \in 1..HashLen : P2pkh(h)[i + 3] = h[i]
      /\ P2pkh(h)[HashLen + 4] = OP_EQUALVERIFY
      /\ P2pkh(h)[HashLen + 5] = OP_CHECKSIG
  BY <1>3, PkhBytes
<1>5. ASSUME NEW i \in 1..(HashLen + 5) PROVE P2pkh(h)[i] = s[i]
  <2>1. CASE i \in 4..(HashLen + 3)
    <3>1. i - 3 \in 1..HashLen /\ (i - 3) + 3 = i
      BY <2>1, Lengths
    <3> QED BY <1>3, <1>4, <3>1
  <2>2. CASE i \in {1, 2, 3, HashLen + 4, HashLen + 5}
    BY <1>2, <1>4, <2>2
  <2> QED BY <2>1, <2>2, Lengths
<1>6. P2pkh(h) = s
  BY <1>2, <1>4, <1>5, SeqEqual
<1> QED BY <1>3, <1>6 DEF h

LEMMA ShOfPart ==
  ASSUME NEW s \in Seq(Byte), IsScriptHash(s)
  PROVE  /\ SubSeq(s, 3, HashLen + 2) \in Hashes
         /\ P2sh(SubSeq(s, 3, HashLen + 2)) = s
<1> DEFINE h == SubSeq(s, 3, HashLen + 2)
<1>1. h = SubSeq(s, 2 + 1, 2 + HashLen)
  BY Lengths
<1>2. /\ Len(s) = HashLen + 3
      /\ s[1] = OP_HASH160 /\ s[2] = HashLen /\ s[HashLen + 3] = OP_EQUAL
  BY DEF IsScriptHash
<1>3. h \in Hashes /\ \A i \in 1..HashLen : h[i] = s[i + 2]
  BY <1>1, <1>2, PartIsHash, Lengths
<1> HIDE DEF h
<1>4. /\ P2sh(h) \in Seq(Byte) /\ Len(P2sh(h)) = HashLen + 3
      /\ P2sh(h)[1] = OP_HASH160 /\ P2sh(h)[2] = HashLen
      /\ \A i \in 1..HashLen : P2sh(h)[i + 2] = h[i]
      /\ P2sh(h)[HashLen + 3] = OP_EQUAL
  BY <1>3, ShBytes
<1>5. ASSUME NEW i \in 1..(HashLen + 3) PROVE P2sh(h)[i] = s[i]
  <2>1. CASE i \in 3..(HashLen + 2)
    <3>1. i - 2 \in 1..HashLen /\ (i - 2) + 2 = i
      BY <2>1, Lengths
    <3> QED BY <1>3, <1>4, <3>1
  <2>2. CASE i \in {1, 2, HashLen + 3}
    BY <1>2, <1>4, <2>2
  <2> QED BY <2>1, <2>2, Lengths
<1>6. P2sh(h) = s
  BY <1>2, <1>4, <1>5, SeqEqual
<1> QED BY <1>3, <1>6 DEF h

\* A hash is read back from where it was put.
LEMMA HashBack ==
  ASSUME NEW h \in Hashes
  PROVE  /\ SubSeq(P2pkh(h), 4, HashLen + 3) = h
         /\ SubSeq(P2sh(h), 3, HashLen + 2) = h
<1> DEFINE a == SubSeq(P2pkh(h), 3 + 1, 3 + HashLen)
           b == SubSeq(P2sh(h), 2 + 1, 2 + HashLen)
<1>1. a \in Hashes /\ \A i \in 1..HashLen : a[i] = h[i]
  BY PkhBytes, PartIsHash, Lengths
<1>2. b \in Hashes /\ \A i \in 1..HashLen : b[i] = h[i]
  BY ShBytes, PartIsHash, Lengths
<1>3. a = SubSeq(P2pkh(h), 4, HashLen + 3) /\ b = SubSeq(P2sh(h), 3, HashLen + 2)
  BY Lengths
<1> HIDE DEF a, b
<1>4. a = h /\ b = h
  BY <1>1, <1>2, SeqEqual DEF Hashes
<1> QED BY <1>3, <1>4

LEMMA AddressParts ==
  ASSUME NEW p \in Byte, NEW h \in Hashes
  PROVE  /\ Address(p, h) \in Seq(Byte) /\ Address(p, h) # << >>
         /\ Address(p, h)[1] = p /\ Tail(Address(p, h)) = h
<1> DEFINE a == Address(p, h)
<1>0. h \in Seq(Byte) /\ Len(h) \in Nat /\ <<p>> \in Seq(Byte) /\ Len(<<p>>) = 1 /\ <<p>>[1] = p
  BY DEF Hashes
<1>1. /\ a \in Seq(Byte) /\ Len(a) = 1 + Len(h)
      /\ \A i \in 1..(1 + Len(h)) : a[i] = IF i <= 1 THEN <<p>>[i] ELSE h[i - 1]
  BY <1>0, ConcatProperties DEF Address
<1> HIDE DEF a
<1>2. a # << >> /\ a[1] = p
  BY <1>0, <1>1
<1>3. /\ Tail(a) \in Seq(Byte) /\ Len(Tail(a)) = Len(h)
      /\ \A i \in 1..Len(h) : Tail(a)[i] = a[i + 1]
  BY <1>0, <1>1, <1>2, HeadTailProperties
<1>4. \A i \in 1..Len(h) : Tail(a)[i] = h[i]
  BY <1>0, <1>1, <1>3
<1>5. Tail(a) = h
  BY <1>0, <1>3, <1>4, SeqEqual
<1> QED BY <1>1, <1>2, <1>5 DEF a

LEMMA AddressTypes ==
  ASSUME NEW a \in Addresses
  PROVE  /\ a[1] \in Byte /\ Tail(a) \in Hashes /\ a = Address(a[1], Tail(a))
<1>1. a \in Seq(Byte) /\ Len(a) = HashLen + 1
  BY ScriptsAssumption
<1>2. a # << >> /\ a[1] \in Byte
  BY <1>1, ElementOfSeq, Lengths
<1>3. /\ Tail(a) \in Seq(Byte) /\ Len(Tail(a)) = HashLen
      /\ \A i \in 1..HashLen : Tail(a)[i] = a[i + 1]
  BY <1>1, <1>2, HeadTailProperties, Lengths
<1>4. Tail(a) \in Hashes
  BY <1>3 DEF Hashes
<1> DEFINE h == Tail(a)
<1> HIDE DEF h
<1>5. <<a[1]>> \in Seq(Byte) /\ Len(<<a[1]>>) = 1 /\ <<a[1]>>[1] = a[1]
  BY <1>2
<1>6. /\ Address(a[1], h) \in Seq(Byte) /\ Len(Address(a[1], h)) = 1 + HashLen
      /\ \A i \in 1..(1 + HashLen) :
           Address(a[1], h)[i] = IF i <= 1 THEN <<a[1]>>[i] ELSE h[i - 1]
  BY <1>3, <1>5, ConcatProperties DEF Address, h
<1>7. \A i \in 1..(1 + HashLen) : Address(a[1], h)[i] = a[i]
  BY <1>3, <1>5, <1>6, Lengths DEF h
<1>8. Address(a[1], h) = a
  BY <1>1, <1>6, <1>7, SeqEqual, Lengths
<1> QED BY <1>2, <1>4, <1>8 DEF h

-----------------------------------------------------------------------------
(* Addresses *)

LEMMA ClassifiedPkh ==
  ASSUME NEW h \in Hashes
  PROVE  ClassifyScript(P2pkh(h)).address = Address(P2pkhPrefix, h)
<1>1. IsPubKeyHash(P2pkh(h))
  BY PkhBytes DEF IsPubKeyHash
<1> QED BY <1>1, HashBack DEF ClassifyScript, Classified

LEMMA ClassifiedSh ==
  ASSUME NEW h \in Hashes
  PROVE  ClassifyScript(P2sh(h)).address = Address(P2shPrefix, h)
<1>1. IsScriptHash(P2sh(h))
  BY ShBytes DEF IsScriptHash
<1>2. ~IsPubKeyHash(P2sh(h))
  BY ShBytes, Lengths DEF IsPubKeyHash
<1>3. ~IsPubKey(P2sh(h))
  BY ShBytes, Lengths DEF IsPubKey, OP_HASH160
<1> QED BY <1>1, <1>2, <1>3, HashBack DEF ClassifyScript, Classified

LEMMA FoundIsPaid ==
  ASSUME NEW s \in Seq(Byte), ClassifyScript(s).address # NoAddress
  PROVE  ToScript(ClassifyScript(s).address) = s
<1> DEFINE found == ClassifyScript(s).address
<1>1. CASE IsPubKeyHash(s)
  <2>1. found = Address(P2pkhPrefix, SubSeq(s, 4, HashLen + 3))
    BY <1>1 DEF ClassifyScript, Classified
  <2> DEFINE h == SubSeq(s, 4, HashLen + 3)
  <2>2. h \in Hashes /\ P2pkh(h) = s
    BY <1>1, PkhOfPart
  <2> HIDE DEF h
  <2>3. found[1] = P2pkhPrefix /\ Tail(found) = h
    BY <2>1, <2>2, AddressParts, ScriptsAssumption DEF h
  <2> HIDE DEF found
  <2>4. ToScript(found) = s
    BY <2>2, <2>3 DEF ToScript
  <2> QED BY <2>4 DEF found
<1>2. CASE ~IsPubKeyHash(s) /\ IsScriptHash(s) /\ ~IsPubKey(s)
  <2>1. found = Address(P2shPrefix, SubSeq(s, 3, HashLen + 2))
    BY <1>2 DEF ClassifyScript, Classified
  <2> DEFINE h == SubSeq(s, 3, HashLen + 2)
  <2>2. h \in Hashes /\ P2sh(h) = s
    BY <1>2, ShOfPart
  <2> HIDE DEF h
  <2>3. found[1] = P2shPrefix /\ Tail(found) = h
    BY <2>1, <2>2, AddressParts, ScriptsAssumption DEF h
  <2> HIDE DEF found
  <2>4. ToScript(found) = s
    BY <2>2, <2>3, LengthsAssumption DEF ToScript
  <2> QED BY <2>4 DEF found
<1>3. CASE ~IsPubKeyHash(s) /\ (~IsScriptHash(s) \/ IsPubKey(s))
  <2>1. found = NoAddress
    BY <1>3 DEF ClassifyScript, Classified
  <2> QED BY <2>1
<1> QED BY <1>1, <1>2, <1>3

\* An address that is paid to is found, and no other one is.
LEMMA PaidIsFound ==
  ASSUME NEW a \in Addresses, a[1] \in {P2pkhPrefix, P2shPrefix}
  PROVE  a # NoAddress /\ ClassifyScript(ToScript(a)).address = a
<1>1. /\ a[1] \in Byte /\ Tail(a) \in Hashes /\ a = Address(a[1], Tail(a))
  BY AddressTypes
<1>2. a # NoAddress
  BY <1>1, AddressParts DEF NoAddress
<1>3. CASE a[1] = P2pkhPrefix
  <2>1. ToScript(a) = P2pkh(Tail(a))
    BY <1>3 DEF ToScript
  <2> QED BY <1>1, <1>2, <1>3, <2>1, ClassifiedPkh
<1>4. CASE a[1] = P2shPrefix
  <2>1. ToScript(a) = P2sh(Tail(a))
    BY <1>4, LengthsAssumption DEF ToScript
  <2> QED BY <1>1, <1>2, <1>4, <2>1, ClassifiedSh
<1> QED BY <1>3, <1>4

-----------------------------------------------------------------------------
(* Multisig: the turns of the loop over the keys *)

KeyState == [ofs : Nat, left : Nat]

\* What one turn may do: it takes a key that is there, or nothing.
Takes(s, k, x, len) ==
  /\ k.ofs < Len(s) - 2 /\ k.left > 0
  /\ s[k.ofs + 1] = len /\ k.ofs + 1 + len <= Len(s) - 2
  /\ x = [ofs |-> k.ofs + 1 + len, left |-> k.left - 1]

LEMMA Turn ==
  ASSUME NEW s \in Seq(Byte), NEW k \in KeyState
  PROVE  /\ NextKey(s, k) \in KeyState
         /\ \/ NextKey(s, k) = k
            \/ \E len \in {ShortKey, LongKey} : Takes(s, k, NextKey(s, k), len)
         /\ \A len \in {ShortKey, LongKey} : \A y : Takes(s, k, y, len) => NextKey(s, k) = y
<1> DEFINE x == NextKey(s, k)
           has(len) == s[k.ofs + 1] = len /\ k.ofs + 1 + len <= Len(s) - 2
           key(len) == [ofs |-> k.ofs + 1 + len, left |-> k.left - 1]
<1>0. Len(s) \in Nat /\ k.ofs \in Nat /\ k.left \in Nat
  BY LenProperties DEF KeyState
<1>1. x = IF k.ofs >= Len(s) - 2 \/ k.left = 0 THEN k
          ELSE IF has(LongKey)  THEN key(LongKey)
          ELSE IF has(ShortKey) THEN key(ShortKey) ELSE k
  BY DEF NextKey
<1> HIDE DEF x
<1>2. \A len \in {ShortKey, LongKey} : k.left # 0 => key(len) \in KeyState
  BY <1>0, Lengths DEF KeyState
<1>3. x \in KeyState
  BY <1>0, <1>1, <1>2
<1>4. x = k \/ \E len \in {ShortKey, LongKey} : Takes(s, k, x, len)
  BY <1>0, <1>1 DEF Takes
<1>5. ASSUME NEW len \in {ShortKey, LongKey}, NEW y, Takes(s, k, y, len) PROVE x = y
  BY <1>0, <1>1, <1>5, Lengths, SMTT(30) DEF Takes
<1> QED BY <1>3, <1>4, <1>5 DEF x

IsTurns(s, n, r) ==
  /\ r \in [0..n -> KeyState]
  /\ r[0] = [ofs |-> 1, left |-> n]
  /\ \A i \in 1..n : r[i] = NextKey(s, r[i - 1])

LEMMA KeysReadTurns ==
  ASSUME NEW s \in Seq(Byte), NEW n \in Nat, n = s[Len(s) - 1] - (OP_1 - 1)
  PROVE  \E r : /\ IsTurns(s, n, r)
                /\ KeysRead(s) <=> r[n] = [ofs |-> Len(s) - 2, left |-> 0]
<1> DEFINE base == [ofs |-> 1, left |-> n]
           D == DOMAIN [turn \in 1..n |-> turn]
           P(g) == g = [t \in SUBSET D |-> IF t = {} THEN base
                                            ELSE NextKey(s, g[t \ {Max(t)}])]
           g == CHOOSE h : P(h)
           r == [i \in 0..n |-> g[1..i]]
           f == [k \in KeyState |-> NextKey(s, k)]
<1>1. KeysRead(s) <=> g[D] = [ofs |-> Len(s) - 2, left |-> 0]
  BY DEF KeysRead, FoldLeft, MapThenFoldSet
<1>2. D = 1..n
  OBVIOUS
<1> HIDE DEF D
<1>3. f \in [KeyState -> KeyState] /\ base \in KeyState
  BY Turn DEF KeyState
<1>4. PICK h : FoldOf(KeyState, f, base, n, h)
  <2> HIDE DEF f, base
  <2> QED BY <1>3, FoldExists
<1>5. P(h)
  <2>1. \A t \in SUBSET (1..n) : t \ {Max(t)} \in SUBSET (1..n)
    OBVIOUS
  <2>2. \A t \in SUBSET (1..n) : f[h[t \ {Max(t)}]] = NextKey(s, h[t \ {Max(t)}])
    BY <1>4, <2>1 DEF FoldOf
  <2> HIDE DEF f
  <2> QED BY <1>2, <1>4, <2>2 DEF FoldOf
<1>6. P(g)
  <2> HIDE DEF P
  <2> QED BY <1>5
<1> HIDE DEF g
<1>7. r[0] = base
  <2>1. 1..0 = {} /\ {} \in SUBSET D
    OBVIOUS
  <2> QED BY <1>6, <2>1
<1>8. ASSUME NEW i \in 1..n PROVE r[i] = NextKey(s, r[i - 1])
  <2>1. /\ 1..i \in SUBSET D /\ 1..i # {} /\ Max(1..i) = i
        /\ (1..i) \ {i} = 1..(i - 1)
    BY <1>2, Topmost
  <2>2. g[1..i] = NextKey(s, g[1..(i - 1)])
    BY <1>6, <2>1
  <2> QED BY <2>2
<1>9. \A i \in 0..n : r[i] \in KeyState
  <2> DEFINE G(m) == {i \in 0..m : r[i] \in KeyState}
  <2>1. 0 \in G(n)
    BY <1>3, <1>7
  <2>2. ASSUME NEW i \in 1..n, i - 1 \in G(n) PROVE i \in G(n)
    <3>1. r[i - 1] \in KeyState
      BY <2>2
    <3> HIDE DEF r
    <3> QED BY <1>8, <3>1, Turn
  <2> SUFFICES ASSUME NEW m \in 0..n PROVE m \in G(n)
    OBVIOUS
  <2>3. \A i \in 1..m : i - 1 \in G(n) => i \in G(n)
    BY <2>2, SMTT(30)
  <2> HIDE DEF G
  <2> QED BY <2>1, <2>3, Climb
<1>10. r[n] = g[D]
  BY <1>2
<1>11. IsTurns(s, n, r)
  BY <1>7, <1>8, <1>9 DEF IsTurns
<1> HIDE DEF r
<1> QED BY <1>1, <1>10, <1>11

\* Where keys of the given lengths start.
Starts(lens, n, g) ==
  g = [i \in 1..(n + 1) |-> IF i = 1 THEN 1 ELSE g[i - 1] + lens[i - 1] + 1]

LEMMA StartsExist ==
  ASSUME NEW n \in Nat, NEW lens \in [1..n -> Nat]
  PROVE  \E g : Starts(lens, n, g)
<1> DEFINE R == Nat \X Nat
           f == [x \in R |-> IF x[1] \in 1..n THEN <<x[1] + 1, x[2] + lens[x[1]] + 1>> ELSE x]
<1>1. f \in [R -> R] /\ <<1, 1>> \in R
  <2> SUFFICES ASSUME NEW x \in R PROVE f[x] \in R
    OBVIOUS
  <2>1. CASE x[1] \in 1..n
    <3>1. lens[x[1]] \in Nat /\ x[1] \in Nat /\ x[2] \in Nat
      BY <2>1
    <3> QED BY <2>1, <3>1
  <2> QED BY <2>1
<1>2. PICK r : RunOf(R, f, <<1, 1>>, n, r)
  <2> HIDE DEF R, f
  <2> QED BY <1>1, RunExists
<1>3. /\ r \in [0..n -> R] /\ r[0] = <<1, 1>>
      /\ \A i \in 1..n : r[i] = f[r[i - 1]]
  BY <1>2 DEF RunOf
<1> DEFINE G == {i \in 0..n : r[i][1] = i + 1}
<1>4. 0 \in G
  BY <1>3
<1>5. ASSUME NEW i \in 1..n, i - 1 \in G
      PROVE  i \in G /\ r[i][2] = r[i - 1][2] + lens[i] + 1
  <2>1. r[i - 1] \in R /\ r[i - 1][1] = i /\ i \in 1..n
    BY <1>3, <1>5
  <2>2. r[i] = <<r[i - 1][1] + 1, r[i - 1][2] + lens[i] + 1>>
    BY <1>3, <2>1
  <2> QED BY <2>1, <2>2
<1>6. \A i \in 0..n : i \in G
  <2> SUFFICES ASSUME NEW m \in 0..n PROVE m \in G
    OBVIOUS
  <2>1. \A i \in 1..m : i - 1 \in G => i \in G
    BY <1>5
  <2> HIDE DEF G
  <2> QED BY <1>4, <2>1, Climb
<1> DEFINE g == [i \in 1..(n + 1) |-> r[i - 1][2]]
<1>7. ASSUME NEW i \in 1..(n + 1)
      PROVE  g[i] = IF i = 1 THEN 1 ELSE g[i - 1] + lens[i - 1] + 1
  <2>1. CASE i = 1
    BY <1>3, <2>1
  <2>2. CASE i # 1
    <3>1. i - 1 \in 1..n /\ (i - 1) - 1 \in G
      BY <1>6, <2>2
    <3>2. r[i - 1][2] = r[(i - 1) - 1][2] + lens[i - 1] + 1
      BY <1>5, <3>1
    <3> QED BY <2>2, <3>2
  <2> QED BY <2>1, <2>2
<1>8. g = [i \in 1..(n + 1) |-> g[i]]
  OBVIOUS
<1> HIDE DEF g
<1>9. Starts(lens, n, g)
  BY <1>7, <1>8 DEF Starts
<1> QED BY <1>9

\* The places at which KeysOf looks.
KeyStarts(lens, n, body, g) ==
  /\ g[1] = 1
  /\ \A i \in 1..n : g[i + 1] = g[i] + lens[i] + 1
  /\ KeysOf(body, lens) <=> /\ g[n + 1] = Len(body) + 1
                           /\ \A i \in 1..n : body[g[i]] = lens[i]

LEMMA KeysOfStarts ==
  ASSUME NEW n \in Nat, NEW lens \in [1..n -> {ShortKey, LongKey}], NEW body
  PROVE  \E g : KeyStarts(lens, n, body, g)
<1> DEFINE g == CHOOSE h : Starts(lens, n, h)
<1>1. lens \in [1..n -> Nat] /\ lens \in Seq({ShortKey, LongKey})
  BY Lengths
<1>2. Len(lens) = n /\ DOMAIN lens = 1..n
  BY <1>1
<1>3. KeysOf(body, lens) <=> /\ g[n + 1] = Len(body) + 1
                            /\ \A i \in 1..n : body[g[i]] = lens[i]
  <2> DEFINE P(h, m) == h = [i \in 1..(m + 1) |-> IF i = 1 THEN 1
                                                   ELSE h[i - 1] + lens[i - 1] + 1]
  <2>1. KeysOf(body, lens) <=>
          /\ (CHOOSE h : P(h, Len(lens)))[Len(lens) + 1] = Len(body) + 1
          /\ \A i \in DOMAIN lens : body[(CHOOSE h : P(h, Len(lens)))[i]] = lens[i]
    BY DEF KeysOf
  <2>2. \A h : P(h, n) <=> Starts(lens, n, h)
    BY DEF Starts
  <2> HIDE DEF P
  <2>3. (CHOOSE h : P(h, n)) = g
    BY <2>2
  <2> HIDE DEF g
  <2> QED BY <1>2, <2>1, <2>3
<1>4. Starts(lens, n, g)
  BY <1>1, StartsExist
<1> HIDE DEF g
<1>5. g[1] = 1
  BY <1>4 DEF Starts
<1>6. ASSUME NEW i \in 1..n PROVE g[i + 1] = g[i] + lens[i] + 1
  <2>1. i + 1 \in 1..(n + 1) /\ i + 1 # 1 /\ (i + 1) - 1 = i
    OBVIOUS
  <2> QED BY <1>4, <2>1 DEF Starts
<1>7. KeyStarts(lens, n, body, g)
  BY <1>3, <1>5, <1>6 DEF KeyStarts
<1> QED BY <1>7

\* When no key is left after n turns, each turn has taken one.
LEMMA AllTaken ==
  ASSUME NEW s \in Seq(Byte), NEW n \in Nat, NEW r, IsTurns(s, n, r), r[n].left = 0
  PROVE  \A i \in 1..n : \E len \in {ShortKey, LongKey} : Takes(s, r[i - 1], r[i], len)
<1>1. \A i \in 0..n : r[i] \in KeyState /\ r[i].left \in Nat
  BY DEF IsTurns, KeyState
<1>2. ASSUME NEW i \in 1..n
      PROVE  /\ \/ r[i] = r[i - 1]
                \/ \E len \in {ShortKey, LongKey} : Takes(s, r[i - 1], r[i], len)
             /\ r[i].left >= r[i - 1].left - 1 /\ i - 1 \in 0..n
  <2>1. r[i - 1] \in KeyState /\ r[i] = NextKey(s, r[i - 1]) /\ i - 1 \in 0..n
    BY <1>1 DEF IsTurns
  <2>2. \/ r[i] = r[i - 1]
        \/ \E len \in {ShortKey, LongKey} : Takes(s, r[i - 1], r[i], len)
    BY <2>1, Turn
  <2>3. ASSUME NEW len, Takes(s, r[i - 1], r[i], len) PROVE r[i].left = r[i - 1].left - 1
    BY <2>3 DEF Takes
  <2> QED BY <1>1, <2>1, <2>2, <2>3
<1>3. \A m \in 0..n : r[m].left >= n - m
  <2> DEFINE G == {m \in 0..n : r[m].left >= n - m}
  <2>1. 0 \in G
    BY DEF IsTurns
  <2>2. ASSUME NEW i \in 1..n, i - 1 \in G PROVE i \in G
    BY <1>1, <1>2, <2>2
  <2>3. ASSUME NEW m \in 0..n PROVE m \in G
    <3>1. \A i \in 1..m : i - 1 \in G => i \in G
      BY <2>2
    <3> HIDE DEF G
    <3> QED BY <2>1, <3>1, Climb
  <2> QED BY <2>3
<1>4. \A k \in 0..n : r[n - k].left = k
  <2> DEFINE G == {k \in 0..n : r[n - k].left = k}
  <2>1. 0 \in G
    OBVIOUS
  <2>2. ASSUME NEW k \in 1..n, k - 1 \in G PROVE k \in G
    <3> DEFINE i == n - (k - 1)
    <3>1. i \in 1..n /\ i - 1 = n - k /\ n - k \in 0..n /\ n - (n - k) = k
      OBVIOUS
    <3>2. r[i].left = k - 1
      BY <2>2
    <3>3. r[i].left >= r[n - k].left - 1 /\ r[n - k].left >= k /\ r[n - k].left \in Nat
      BY <1>1, <1>2, <1>3, <3>1
    <3> HIDE DEF i
    <3> QED BY <3>2, <3>3
  <2>3. ASSUME NEW m \in 0..n PROVE m \in G
    <3>1. \A k \in 1..m : k - 1 \in G => k \in G
      BY <2>2
    <3> HIDE DEF G
    <3> QED BY <2>1, <3>1, Climb
  <2> QED BY <2>3
<1>5. ASSUME NEW i \in 1..n PROVE r[i] # r[i - 1]
  <2>1. /\ n - i \in 0..n /\ n - (n - i) = i
        /\ n - (i - 1) \in 0..n /\ n - (n - (i - 1)) = i - 1
    OBVIOUS
  <2>2. r[i].left = n - i /\ r[i - 1].left = n - (i - 1)
    BY <1>4, <2>1
  <2> QED BY <2>2
<1> QED BY <1>2, <1>5

LEMMA Body ==
  ASSUME NEW s \in Seq(Byte), Len(s) >= 3
  PROVE  /\ Len(SubSeq(s, 2, Len(s) - 2)) = Len(s) - 3
         /\ \A j \in 1..(Len(s) - 3) : SubSeq(s, 2, Len(s) - 2)[j] = s[j + 1]
<1>1. Len(s) \in Nat /\ \A i \in 2..(Len(s) - 2) : s[i] \in Byte
  BY LenProperties, ElementOfSeq
<1>2. /\ Len(SubSeq(s, 2, Len(s) - 2)) = IF 2 <= Len(s) - 2 THEN (Len(s) - 2) - 2 + 1 ELSE 0
      /\ \A i \in 1..((Len(s) - 2) - 2 + 1) : SubSeq(s, 2, Len(s) - 2)[i] = s[2 + i - 1]
  BY <1>1, SubSeqProperties
<1>3. ASSUME NEW j \in 1..(Len(s) - 3) PROVE SubSeq(s, 2, Len(s) - 2)[j] = s[j + 1]
  <2>1. j \in 1..((Len(s) - 2) - 2 + 1) /\ 2 + j - 1 = j + 1
    BY <1>1
  <2> QED BY <1>2, <2>1
<1>4. Len(SubSeq(s, 2, Len(s) - 2)) = Len(s) - 3
  <2> DEFINE b == Len(SubSeq(s, 2, Len(s) - 2))
             l == Len(s)
  <2>1. l \in Nat /\ l >= 3 /\ b = IF 2 <= l - 2 THEN (l - 2) - 2 + 1 ELSE 0
    BY <1>1, <1>2
  <2> HIDE DEF b, l
  <2>2. b = l - 3
    BY <2>1
  <2> QED BY <2>2 DEF b, l
<1> QED BY <1>3, <1>4

\* What the loop accepts is put together from keys.
LEMMA ReadIsMultiSig ==
  ASSUME script \in Seq(Byte), LooksMultiSig(script), KeysRead(script)
  PROVE  IsMultiSig
<1> DEFINE s == script
           n == s[Len(s) - 1] - (OP_1 - 1)
           body == SubSeq(s, 2, Len(s) - 2)
<1>1. /\ Len(s) \in Nat /\ Len(s) >= 4 + ShortKey
      /\ s[Len(s)] = OP_CHECKMULTISIG
      /\ s[Len(s) - 1] \in 81..96 /\ s[1] \in 81..96
  BY Lengths, LenProperties DEF LooksMultiSig, IsOpN1, OP_1, OP_16
<1>2. n \in 1..16 /\ s[Len(s) - 1] = OP_1 + n - 1 /\ OP_1 = 81 /\ OP_16 = 96
  <2> DEFINE op == s[Len(s) - 1]
  <2>1. op \in 81..96
    BY <1>1
  <2> HIDE DEF op
  <2>2. op - (81 - 1) \in 1..16 /\ op = 81 + (op - (81 - 1)) - 1
    BY <2>1
  <2> QED BY <2>2 DEF op, OP_1, OP_16
<1>3. s \in Seq(Byte) /\ n \in Nat /\ n = s[Len(s) - 1] - (OP_1 - 1)
  <2>1. \A x \in 1..16 : x \in Nat
    OBVIOUS
  <2>2. n \in Nat
    BY <1>2, <2>1
  <2> QED BY <2>2
<1> HIDE DEF s
<1>4. PICK r : IsTurns(s, n, r) /\ r[n] = [ofs |-> Len(s) - 2, left |-> 0]
  <2>1. KeysRead(s)
    BY DEF s
  <2> QED BY <1>3, <2>1, KeysReadTurns
<1> HIDE DEF n
<1>5. \A i \in 1..n : \E len \in {ShortKey, LongKey} : Takes(s, r[i - 1], r[i], len)
  BY <1>3, <1>4, AllTaken
<1> DEFINE lens == [i \in 1..n |-> s[r[i - 1].ofs + 1]]
<1>6. ASSUME NEW i \in 1..n
      PROVE  /\ lens[i] \in {ShortKey, LongKey}
             /\ r[i - 1].ofs < Len(s) - 2 /\ r[i].ofs = r[i - 1].ofs + 1 + lens[i]
  <2>1. PICK len \in {ShortKey, LongKey} : Takes(s, r[i - 1], r[i], len)
    BY <1>5
  <2>2. lens[i] = len
    BY <2>1 DEF Takes
  <2> HIDE DEF lens
  <2> QED BY <2>1, <2>2 DEF Takes
<1>7. lens \in [1..n -> {ShortKey, LongKey}]
  BY <1>6
<1> HIDE DEF lens, body
<1>8g. PICK g : KeyStarts(lens, n, body, g)
  BY <1>3, <1>7, KeysOfStarts
<1>8. /\ g[1] = 1
      /\ \A i \in 1..n : g[i + 1] = g[i] + lens[i] + 1
      /\ KeysOf(body, lens) <=> /\ g[n + 1] = Len(body) + 1
                               /\ \A i \in 1..n : body[g[i]] = lens[i]
  BY <1>8g DEF KeyStarts
<1>9. \A i \in 0..n : r[i].ofs \in Nat
  BY <1>4 DEF IsTurns, KeyState
<1>10. \A m \in 0..n : g[m + 1] = r[m].ofs /\ r[m].ofs >= 1
  <2> DEFINE G == {m \in 0..n : g[m + 1] = r[m].ofs /\ r[m].ofs >= 1}
  <2>1. 0 \in G
    BY <1>3, <1>4, <1>8 DEF IsTurns
  <2>2. ASSUME NEW i \in 1..n, i - 1 \in G PROVE i \in G
    <3>1. /\ i \in 0..n /\ (i - 1) + 1 = i /\ i - 1 \in 0..n
          /\ g[(i - 1) + 1] = r[i - 1].ofs /\ r[i - 1].ofs >= 1
      BY <2>2
    <3>2. g[i + 1] = g[i] + lens[i] + 1 /\ r[i].ofs = r[i - 1].ofs + 1 + lens[i]
          /\ lens[i] \in Nat
      BY <1>6, <1>8, Lengths
    <3>3. r[i - 1].ofs \in Nat
      BY <1>9, <3>1
    <3>4. g[i + 1] = r[i].ofs /\ r[i].ofs >= 1
      <4> DEFINE a == r[i - 1].ofs
                 l == lens[i]
                 b == r[i].ofs
                 c == g[i + 1]
      <4>1. a \in Nat /\ a >= 1 /\ l \in Nat /\ b = a + 1 + l /\ c = a + l + 1
        BY <3>1, <3>2, <3>3
      <4> HIDE DEF a, l, b, c
      <4>2. c = b /\ b >= 1
        BY <4>1
      <4> QED BY <4>2 DEF b, c
    <3> QED BY <3>1, <3>4
  <2>3. ASSUME NEW m \in 0..n PROVE m \in G
    <3>1. 1..m \subseteq 1..n
      BY <1>3
    <3>2. \A k \in 1..m : k - 1 \in G => k \in G
      <4> HIDE DEF G
      <4> QED BY <2>2, <3>1
    <3> HIDE DEF G
    <3> QED BY <2>1, <3>2, Climb
  <2> QED BY <2>3
<1>11. Len(body) = Len(s) - 3 /\ \A j \in 1..(Len(s) - 3) : body[j] = s[j + 1]
  <2>1. Len(s) >= 3
    BY <1>1, Lengths
  <2> QED BY <1>3, <2>1, Body DEF body
<1>12. g[n + 1] = Len(body) + 1
  BY <1>1, <1>3, <1>4, <1>10, <1>11
<1>13. ASSUME NEW i \in 1..n PROVE body[g[i]] = lens[i]
  <2>1. g[(i - 1) + 1] = r[i - 1].ofs /\ r[i - 1].ofs >= 1 /\ r[i - 1].ofs \in Nat
    BY <1>3, <1>9, <1>10
  <2>2. g[i] \in 1..(Len(s) - 3) /\ g[i] = r[i - 1].ofs
    BY <1>1, <1>6, <2>1, SMTT(30)
  <2>3. body[g[i]] = s[g[i] + 1]
    BY <1>11, <2>2
  <2> QED BY <2>2, <2>3 DEF lens
<1>14. KeysOf(body, lens)
  BY <1>8, <1>12, <1>13
<1>15. Len(s) >= 3 /\ s[1] \in OP_1..OP_16
  BY <1>1, <1>2, Lengths
<1>16. KeysOf(SubSeq(s, 2, Len(s) - 2), lens)
  BY <1>14 DEF body
<1> QED BY <1>1, <1>2, <1>7, <1>15, <1>16 DEF IsMultiSig, s

\* What is put together from keys is accepted.
LEMMA MultiSigIsRead ==
  ASSUME script \in Seq(Byte), IsMultiSig
  PROVE  LooksMultiSig(script) /\ KeysRead(script)
<1> DEFINE s == script
           body == SubSeq(s, 2, Len(s) - 2)
<1>1. PICK n \in 1..16 :
        /\ s[Len(s) - 1] = OP_1 + n - 1
        /\ \E lens \in [1..n -> {ShortKey, LongKey}] : KeysOf(body, lens)
  BY DEF IsMultiSig
<1>2. PICK lens \in [1..n -> {ShortKey, LongKey}] : KeysOf(body, lens)
  BY <1>1
<1>3. /\ Len(s) \in Nat /\ Len(s) >= 3 /\ s[1] \in OP_1..OP_16
      /\ s[Len(s)] = OP_CHECKMULTISIG
      /\ n \in Nat /\ n = s[Len(s) - 1] - (OP_1 - 1) /\ s \in Seq(Byte)
  BY <1>1, LenProperties DEF IsMultiSig, OP_1
<1> HIDE DEF s
<1>4g. PICK g : KeyStarts(lens, n, body, g)
  <2> HIDE DEF body
  <2> QED BY <1>2, <1>3, KeysOfStarts
<1>4. /\ g[1] = 1
      /\ \A i \in 1..n : g[i + 1] = g[i] + lens[i] + 1
      /\ g[n + 1] = Len(body) + 1
      /\ \A i \in 1..n : body[g[i]] = lens[i]
  <2> HIDE DEF body
  <2> QED BY <1>2, <1>4g DEF KeyStarts
<1>5. Len(body) = Len(s) - 3 /\ \A j \in 1..(Len(s) - 3) : body[j] = s[j + 1]
  BY <1>3, Body
<1> HIDE DEF body
<1>6. \A i \in 1..n : lens[i] \in Nat /\ lens[i] >= 1 /\ lens[i] >= ShortKey
  BY Lengths, LengthsAssumption
<1>7. \A m \in 0..n : g[m + 1] \in Nat /\ g[m + 1] >= 1
  <2> DEFINE G == {m \in 0..n : g[m + 1] \in Nat /\ g[m + 1] >= 1}
  <2>1. 0 \in G
    BY <1>3, <1>4
  <2>2. ASSUME NEW i \in 1..n, i - 1 \in G PROVE i \in G
    <3>1. g[i] \in Nat /\ g[i] >= 1
      <4>1. (i - 1) + 1 = i
        OBVIOUS
      <4> QED BY <2>2, <4>1
    <3>2. g[i + 1] = g[i] + lens[i] + 1 /\ lens[i] \in Nat
      BY <1>4, <1>6
    <3> QED BY <3>1, <3>2
  <2>3. ASSUME NEW m \in 0..n PROVE m \in G
    <3>1. \A k \in 1..m : k - 1 \in G => k \in G
      BY <2>2
    <3> HIDE DEF G
    <3> QED BY <2>1, <3>1, Climb
  <2> QED BY <2>3
<1>8. \A k \in 0..n : g[n - k + 1] <= Len(s) - 2
  <2> DEFINE G == {k \in 0..n : g[n - k + 1] <= Len(s) - 2}
  <2>1. 0 \in G
    BY <1>3, <1>4, <1>5
  <2>2. ASSUME NEW k \in 1..n, k - 1 \in G PROVE k \in G
    <3> DEFINE i == n - k + 1
    <3>1. i \in 1..n /\ n - (k - 1) + 1 = i + 1 /\ n - k \in 0..n /\ k \in 0..n
      BY <1>3, SMTT(30)
    <3>2. g[i + 1] <= Len(s) - 2 /\ g[i + 1] = g[i] + lens[i] + 1 /\ lens[i] \in Nat
      BY <1>4, <1>6, <2>2, <3>1
    <3>3. g[i] \in Nat
      BY <1>7, <3>1
    <3>4. g[i] <= Len(s) - 2
      BY <1>3, <3>2, <3>3, SMTT(30)
    <3> QED BY <3>1, <3>4
  <2>3. ASSUME NEW m \in 0..n PROVE m \in G
    <3>1. \A k \in 1..m : k - 1 \in G => k \in G
      BY <2>2
    <3> HIDE DEF G
    <3> QED BY <2>1, <3>1, Climb
  <2> QED BY <2>3
<1>9. \A i \in 1..n : g[i] \in Nat /\ g[i] >= 1 /\ g[i] + lens[i] + 1 <= Len(s) - 2
  <2> SUFFICES ASSUME NEW i \in 1..n
               PROVE  g[i] \in Nat /\ g[i] >= 1 /\ g[i] + lens[i] + 1 <= Len(s) - 2
    OBVIOUS
  <2>1. /\ n - i \in 0..n /\ n - (n - i) + 1 = i + 1
        /\ i - 1 \in 0..n /\ (i - 1) + 1 = i
    BY <1>3
  <2>2. g[(i - 1) + 1] \in Nat /\ g[(i - 1) + 1] >= 1 /\ g[n - (n - i) + 1] <= Len(s) - 2
    BY <1>7, <1>8, <2>1
  <2> QED BY <1>4, <2>1, <2>2
<1>10. LooksMultiSig(s)
  <2>1. 1 \in 1..n
    BY <1>1
  <2>2. Len(s) >= 3 + ShortKey + 1
    BY <1>3, <1>4, <1>6, <1>9, <2>1, Lengths, SMTT(30)
  <2>3. s[Len(s) - 1] \in OP_1..OP_16
    BY <1>1, <1>3 DEF OP_1, OP_16
  <2> QED BY <1>3, <2>2, <2>3 DEF LooksMultiSig, IsOpN1
<1>11. PICK r : /\ IsTurns(s, n, r)
                /\ KeysRead(s) <=> r[n] = [ofs |-> Len(s) - 2, left |-> 0]
  BY <1>3, KeysReadTurns
<1>12. \A m \in 0..n : r[m] = [ofs |-> g[m + 1], left |-> n - m]
  <2> DEFINE G == {m \in 0..n : r[m] = [ofs |-> g[m + 1], left |-> n - m]}
  <2>1. 0 \in G
    BY <1>3, <1>4, <1>11 DEF IsTurns
  <2>2. ASSUME NEW i \in 1..n, i - 1 \in G PROVE i \in G
    <3> DEFINE k == r[i - 1]
               x == [ofs |-> g[i + 1], left |-> n - i]
    <3>1. k = [ofs |-> g[i], left |-> n - (i - 1)]
      <4>1. (i - 1) + 1 = i
        OBVIOUS
      <4> QED BY <2>2, <4>1
    <3>2. k \in KeyState /\ r[i] = NextKey(s, k)
      <4>1. i - 1 \in 0..n
        BY <1>3
      <4> QED BY <1>11, <4>1 DEF IsTurns
    <3>3. s[g[i] + 1] = lens[i]
      <4>1. g[i] \in 1..(Len(s) - 3)
        BY <1>3, <1>6, <1>9
      <4> QED BY <1>4, <1>5, <4>1
    <3> HIDE DEF k
    <3>4. Takes(s, k, x, lens[i])
      <4>1. k.ofs = g[i] /\ k.left = n - (i - 1)
        BY <3>1
      <4>0. /\ g[i] \in Nat /\ lens[i] \in Nat /\ g[i] + lens[i] + 1 <= Len(s) - 2
            /\ g[i + 1] = g[i] + lens[i] + 1
        BY <1>4, <1>6, <1>9
      <4> DEFINE a == g[i]
                 l == lens[i]
                 end == Len(s) - 2
                 b == g[i + 1]
      <4>00. a \in Nat /\ l \in Nat /\ end \in Int /\ a + l + 1 <= end /\ b = a + l + 1
        BY <1>3, <4>0
      <4> HIDE DEF a, l, end, b
      <4>01. a < end /\ a + 1 + l <= end /\ b = a + 1 + l
        BY <4>00
      <4>02. n - (i - 1) > 0 /\ n - i = n - (i - 1) - 1
        BY <1>3
      <4>2. k.ofs < Len(s) - 2 /\ k.left > 0 /\ k.ofs + 1 + lens[i] <= Len(s) - 2
        BY <4>1, <4>01, <4>02 DEF a, l, end
      <4>3. g[i + 1] = k.ofs + 1 + lens[i] /\ n - i = k.left - 1
        BY <4>1, <4>01, <4>02 DEF a, l, b
      <4> QED BY <3>3, <4>1, <4>2, <4>3 DEF Takes
    <3> HIDE DEF x
    <3>5. r[i] = x
      BY <1>3, <3>2, <3>4, Turn
    <3> QED BY <3>5 DEF x
  <2>3. ASSUME NEW m \in 0..n PROVE m \in G
    <3>1. \A k \in 1..m : k - 1 \in G => k \in G
      BY <2>2
    <3> HIDE DEF G
    <3> QED BY <2>1, <3>1, Climb
  <2> QED BY <2>3
<1>13. r[n] = [ofs |-> Len(s) - 2, left |-> 0]
  BY <1>3, <1>4, <1>5, <1>12, SMTT(30)
<1> QED BY <1>10, <1>11, <1>13 DEF s

-----------------------------------------------------------------------------
(* Edits keep scripts scripts *)

IsScript == script \in Seq(Byte)

LEMMA ScriptInit == Init => IsScript
<1> SUFFICES ASSUME Init PROVE script \in Seq(Byte)
  BY DEF IsScript
<1>1. CASE script \in Scripts
  BY <1>1, ScriptsAssumption
<1>2. CASE \E a \in Addresses : script = ToScript(a)
  <2>1. PICK a \in Addresses : script = ToScript(a)
    BY <1>2
  <2> QED BY <2>1, AddressTypes, PkhBytes, ShBytes, EmptySeq DEF ToScript
<1> QED BY <1>1, <1>2 DEF Init

LEMMA ScriptStep == IsScript /\ [Next]_vars => IsScript'
<1> SUFFICES ASSUME script \in Seq(Byte), [Next]_vars PROVE script' \in Seq(Byte)
  BY DEF IsScript
<1>0. Len(script) \in Nat /\ DOMAIN script = 1..Len(script) /\ Bytes \subseteq Byte
  BY LenProperties, ScriptsAssumption
<1>1. CASE DropByte
  <2>1. script' = SubSeq(script, 1, Len(script) - 1)
    BY <1>1 DEF DropByte, Edit, Front
  <2>2. \A i \in 1..(Len(script) - 1) : script[i] \in Byte
    BY <1>0, ElementOfSeq
  <2> QED BY <1>0, <2>1, <2>2, SubSeqProperties
<1>2. CASE AddByte
  BY <1>0, <1>2, AppendProperties DEF AddByte, Edit
<1>3. CASE ReplaceByte
  BY <1>0, <1>3, ExceptSeq DEF ReplaceByte, Edit
<1>4. CASE InsertByte
  <2>1. PICK n \in DOMAIN script, b \in Bytes : script' = InsertAt(script, n, b)
    BY <1>4 DEF InsertByte, Edit
  <2>2. script' = (SubSeq(script, 1, n - 1) \o <<b>>) \o SubSeq(script, n, Len(script))
    BY <2>1 DEF InsertAt
  <2>3. \A i \in 1..Len(script) : script[i] \in Byte
    BY <1>0, ElementOfSeq
  <2>4. SubSeq(script, 1, n - 1) \in Seq(Byte) /\ SubSeq(script, n, Len(script)) \in Seq(Byte)
    BY <1>0, <2>3, SubSeqProperties
  <2>5. <<b>> \in Seq(Byte)
    BY <1>0
  <2> QED BY <2>2, <2>4, <2>5, ConcatProperties
<1>5. CASE UNCHANGED vars
  BY <1>5 DEF vars
<1> QED BY <1>1, <1>2, <1>3, <1>4, <1>5 DEF Next

\* What list_utxos shows under an address is what pays to it: for every
\* script near one that classify_script knows.
THEOREM AddressesExact == Spec => []AddressExact
<1>1. ASSUME IsScript PROVE AddressExact
  <2> DEFINE found == ClassifyScript(script).address
  <2>1. found # NoAddress => ToScript(found) = script
    BY <1>1, FoundIsPaid DEF IsScript
  <2>2. ASSUME NEW a \in Addresses, a[1] \in {P2pkhPrefix, P2shPrefix}
        PROVE  script = ToScript(a) <=> found = a
    BY <2>1, <2>2, PaidIsFound
  <2> HIDE DEF found
  <2> QED BY <2>1, <2>2 DEF AddressExact, found
<1> QED BY <1>1, ScriptInit, ScriptStep, PTL DEF Spec

\* A script is multisig exactly when it is OP_m, n keys, OP_n and
\* OP_CHECKMULTISIG: the loop over the keys neither accepts more nor less.
THEOREM MultiSigsExact == Spec => []MultiSigExact
<1>1. ASSUME IsScript PROVE MultiSigExact
  <2>0. script \in Seq(Byte) /\ Len(script) \in Nat
    BY <1>1, LenProperties DEF IsScript
  <2>1. LooksMultiSig(script) =>
          ~IsPubKeyHash(script) /\ ~IsPubKey(script) /\ ~IsScriptHash(script)
    BY <2>0, Lengths
    DEF LooksMultiSig, IsPubKeyHash, IsPubKey, IsScriptHash, OP_CHECKMULTISIG, OP_CHECKSIG,
        OP_EQUAL
  <2>2. ClassifyScript(script).type = "multisig" <=>
          LooksMultiSig(script) /\ KeysRead(script)
    BY <2>1 DEF ClassifyScript, Classified
  <2> QED BY <2>0, <2>2, ReadIsMultiSig, MultiSigIsRead DEF MultiSigExact
<1> QED BY <1>1, ScriptInit, ScriptStep, PTL DEF Spec
=============================================================================
