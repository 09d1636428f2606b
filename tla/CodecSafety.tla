----------------------------- MODULE CodecSafety -----------------------------
(***************************************************************************)
(* Proofs about Codec: what is encoded is read back, whatever follows it;  *)
(* what is read is encoded in what was read; hence an answer is accepted   *)
(* as a whole or not at all.  For blocks with any number of transactions   *)
(* and streams of any length.                                              *)
(***************************************************************************)
EXTENDS Codec, Sums, SequenceTheorems

Stream == Seq(Nat)

LEMMA Joins ==
  ASSUME NEW s \in Stream, NEW t \in Stream
  PROVE  s \o t \in Stream /\ Len(s \o t) = Len(s) + Len(t) /\ Len(s) \in Nat
  BY ConcatProperties, LenProperties DEF Stream
LEMMA JoinsThree ==
  ASSUME NEW s \in Stream, NEW t \in Stream, NEW u \in Stream
  PROVE  (s \o t) \o u = s \o (t \o u)
  BY ConcatAssociative, SMTT(60) DEF Stream
LEMMA JoinsNone ==
  /\ << >> \in Stream /\ Len(<< >>) = 0
  /\ \A s \in Stream : s \o << >> = s /\ << >> \o s = s
  BY ConcatEmptySeq, EmptySeq DEF Stream

-----------------------------------------------------------------------------
(* Sequences of sequences, one after the other *)

\* The recursion of FlattenSeq.
FlatOf(ss, n, g) ==
  g = [i \in 1..n |-> IF i = 1 THEN ss[i] ELSE g[i - 1] \o ss[i]]

LEMMA FlatExists ==
  ASSUME NEW S, NEW n \in Nat \ {0}, NEW ss \in [1..n -> Seq(S)]
  PROVE  \E g : FlatOf(ss, n, g)
<1> DEFINE R == Seq(S)
           f == [x \in (1..n) \X R |-> IF x[1] = 1 THEN ss[1] ELSE x[2] \o ss[x[1]]]
<1>1. f \in [(1..n) \X R -> R]
  <2> SUFFICES ASSUME NEW i \in 1..n, NEW s \in R
               PROVE  (IF i = 1 THEN ss[1] ELSE s \o ss[i]) \in R
    OBVIOUS
  <2>1. ss[1] \in Seq(S) /\ ss[i] \in Seq(S)
    OBVIOUS
  <2> QED BY <2>1, ConcatProperties
<1>2. ss[1] \in R
  OBVIOUS
<1>3. PICK r : RunAlong(R, f, ss[1], n, r)
  <2> HIDE DEF R, f
  <2> QED BY <1>1, <1>2, RunAlongExists
<1>4. ASSUME NEW i \in 1..n
      PROVE  r[i] = IF i = 1 THEN ss[1] ELSE r[i - 1] \o ss[i]
  <2>1. r[i - 1] \in R /\ r[i] = f[<<i, r[i - 1]>>]
    <3>1. i - 1 \in 0..n
      OBVIOUS
    <3> HIDE DEF f, R
    <3> QED BY <1>3, <3>1 DEF RunAlong
  <2>2. f[<<i, r[i - 1]>>] = IF i = 1 THEN ss[1] ELSE r[i - 1] \o ss[i]
    BY <2>1
  <2> QED BY <2>1, <2>2
<1> DEFINE g == [i \in 1..n |-> r[i]]
<1>5. g = [i \in 1..n |-> IF i = 1 THEN ss[i] ELSE g[i - 1] \o ss[i]]
  <2>1. ASSUME NEW i \in 1..n PROVE r[i] = IF i = 1 THEN ss[i] ELSE g[i - 1] \o ss[i]
    BY <1>4
  <2> QED BY <2>1
<1>6. FlatOf(ss, n, g)
  BY <1>5 DEF FlatOf
<1> QED BY <1>6

\* Two solutions agree as far as both go.
LEMMA FlatSame ==
  ASSUME NEW n \in Nat, NEW m \in Nat, NEW ss, NEW tt, NEW g, NEW h,
         FlatOf(ss, n, g), FlatOf(tt, m, h), n <= m, \A i \in 1..n : ss[i] = tt[i]
  PROVE  \A i \in 1..n : g[i] = h[i]
<1> DEFINE G == {i \in 0..n : i = 0 \/ g[i] = h[i]}
<1>1. ASSUME NEW i \in 1..n, i - 1 \in G PROVE i \in G
  <2>1. /\ g[i] = IF i = 1 THEN ss[i] ELSE g[i - 1] \o ss[i]
        /\ h[i] = IF i = 1 THEN tt[i] ELSE h[i - 1] \o tt[i]
        /\ ss[i] = tt[i]
    <3>1. i \in 1..m
      OBVIOUS
    <3> QED BY <3>1 DEF FlatOf
  <2>2. i # 1 => g[i - 1] = h[i - 1]
    BY <1>1
  <2> QED BY <2>1, <2>2
<1>2. 0 \in G
  OBVIOUS
<1> SUFFICES ASSUME NEW m1 \in 1..n PROVE m1 \in G
  OBVIOUS
<1>3. m1 \in Nat /\ 1..m1 \subseteq 1..n
  OBVIOUS
<1> HIDE DEF G
<1> QED BY <1>1, <1>2, <1>3, Climb

LEMMA FlattenIs ==
  ASSUME NEW S, NEW ss \in Seq(Seq(S)), ss # << >>
  PROVE  \E g : FlatOf(ss, Len(ss), g) /\ FlattenSeq(ss) = g[Len(ss)]
<1> DEFINE P(h) == h = [i \in 1..Len(ss) |-> IF i = 1 THEN ss[i] ELSE h[i - 1] \o ss[i]]
           g == CHOOSE h : P(h)
<1>1. Len(ss) \in Nat \ {0} /\ ss \in [1..Len(ss) -> Seq(S)]
  BY LenProperties, EmptySeq
<1>2. FlattenSeq(ss) = g[Len(ss)]
  BY <1>1 DEF FlattenSeq
<1>3. \A h : P(h) <=> FlatOf(ss, Len(ss), h)
  BY DEF FlatOf
<1>4. \E h : FlatOf(ss, Len(ss), h)
  BY <1>1, FlatExists
<1>5. P(g)
  <2>1. \E h : P(h)
    BY <1>3, <1>4
  <2> HIDE DEF P
  <2> QED BY <2>1
<1>6. FlatOf(ss, Len(ss), g)
  <2> HIDE DEF g, P
  <2> QED BY <1>3, <1>5
<1> QED BY <1>2, <1>6

LEMMA FlattenOne ==
  ASSUME NEW S, NEW s \in Seq(S)
  PROVE  FlattenSeq(<<s>>) = s
<1>1. <<s>> \in Seq(Seq(S)) /\ <<s>> # << >> /\ Len(<<s>>) = 1
  OBVIOUS
<1>2. PICK g : FlatOf(<<s>>, 1, g) /\ FlattenSeq(<<s>>) = g[1]
  <2> DEFINE ss == <<s>>
  <2>1. ss \in Seq(Seq(S)) /\ ss # << >> /\ Len(ss) = 1
    BY <1>1
  <2> HIDE DEF ss
  <2>2. \E g : FlatOf(ss, Len(ss), g) /\ FlattenSeq(ss) = g[Len(ss)]
    BY <2>1, FlattenIs
  <2>3. \E g : FlatOf(ss, 1, g) /\ FlattenSeq(ss) = g[1]
    BY <2>1, <2>2
  <2> QED BY <2>3 DEF ss
<1> QED BY <1>2 DEF FlatOf

LEMMA FlattenAppend ==
  ASSUME NEW S, NEW ss \in Seq(Seq(S)), NEW s \in Seq(S), FlattenSeq(ss) \in Seq(S)
  PROVE  FlattenSeq(Append(ss, s)) = FlattenSeq(ss) \o s
<1> DEFINE n == Len(ss)
           tt == Append(ss, s)
<1>1. /\ n \in Nat /\ tt \in Seq(Seq(S)) /\ tt # << >> /\ Len(tt) = n + 1
      /\ \A i \in 1..n : tt[i] = ss[i]
      /\ tt[n + 1] = s
  BY AppendProperties, LenProperties
<1>2. CASE ss = << >>
  <2>1. tt = <<s>> /\ FlattenSeq(ss) = << >>
    BY <1>2 DEF FlattenSeq
  <2>2. << >> \o s = s
    BY ConcatEmptySeq
  <2> QED BY <2>1, <2>2, FlattenOne
<1>3. CASE ss # << >>
  <2>0. n # 0
    BY <1>3, EmptySeq
  <2> HIDE DEF tt
  <2>1. PICK g : FlatOf(ss, n, g) /\ FlattenSeq(ss) = g[n]
    BY <1>3, FlattenIs
  <2>2. PICK h : FlatOf(tt, Len(tt), h) /\ FlattenSeq(tt) = h[Len(tt)]
    BY <1>1, FlattenIs
  <2> HIDE DEF n
  <2>3. FlatOf(tt, n + 1, h) /\ FlattenSeq(tt) = h[n + 1] /\ n + 1 \in Nat /\ n <= n + 1
    BY <1>1, <2>2
  <2>4. \A i \in 1..n : g[i] = h[i]
    <3> DEFINE m == n + 1
    <3>1. m \in Nat /\ n <= m /\ FlatOf(tt, m, h)
      BY <2>3
    <3>2. n \in Nat /\ \A i \in 1..n : ss[i] = tt[i]
      BY <1>1
    <3> HIDE DEF m
    <3> QED BY <2>1, <3>1, <3>2, FlatSame
  <2>5. h[n + 1] = h[n] \o s
    <3>1. n + 1 \in 1..(n + 1) /\ n + 1 # 1 /\ (n + 1) - 1 = n
      BY <1>1, <2>0
    <3> QED BY <1>1, <2>3, <3>1 DEF FlatOf
  <2>6. g[n] = h[n]
    BY <1>1, <2>0, <2>4
  <2> QED BY <2>1, <2>3, <2>5, <2>6 DEF tt
<1> QED BY <1>2, <1>3

-----------------------------------------------------------------------------
(* What is encoded, by its kind: its values, their codes, its decoder *)

Of(k) ==
  IF k = "word" THEN Nat ELSE IF k = "script" THEN Seq(Nat)
  ELSE IF k = "in" THEN TxIns ELSE IF k = "ins" THEN Seq(TxIns)
  ELSE IF k = "out" THEN TxOuts ELSE IF k = "outs" THEN Seq(TxOuts)
  ELSE IF k = "tx" THEN Transactions ELSE IF k = "txs" THEN Seq(Transactions)
  ELSE IF k = "header" THEN Headers ELSE IF k = "branch" THEN Branches ELSE MerkleTxs
Enc(k, v) ==
  IF k = "word" THEN Word(v) ELSE IF k = "script" THEN EncodeScript(v)
  ELSE IF k = "in" THEN EncodeTxIn(v) ELSE IF k = "ins" THEN EncodeVec(v, EncodeTxIn)
  ELSE IF k = "out" THEN EncodeTxOut(v) ELSE IF k = "outs" THEN EncodeVec(v, EncodeTxOut)
  ELSE IF k = "tx" THEN EncodeTx(v) ELSE IF k = "txs" THEN EncodeVec(v, EncodeTx)
  ELSE IF k = "header" THEN v ELSE IF k = "branch" THEN EncodeBranch(v)
  ELSE EncodeMerkleTx(v)
Dec(k, s) ==
  IF k = "word" THEN DecodeWord(s) ELSE IF k = "script" THEN DecodeScript(s)
  ELSE IF k = "in" THEN DecodeTxIn(s) ELSE IF k = "ins" THEN DecodeVec(s, DecodeTxIn)
  ELSE IF k = "out" THEN DecodeTxOut(s) ELSE IF k = "outs" THEN DecodeVec(s, DecodeTxOut)
  ELSE IF k = "tx" THEN DecodeTx(s) ELSE IF k = "txs" THEN DecodeVec(s, DecodeTx)
  ELSE IF k = "header" THEN DecodeHeader(s) ELSE IF k = "branch" THEN DecodeBranch(s)
  ELSE DecodeMerkleTx(s)

\* A stream that is not refused begins with the code of what is read.
ReadBy(k, s) ==
  \/ Dec(k, s) = Failed
  \/ \E v \in Of(k), t \in Stream : s = Enc(k, v) \o t /\ Dec(k, s) = Reader(v, t)
\* A kind whose values are read back whatever follows them, and nothing else is read.
Good(k) ==
  /\ \A v \in Of(k) : Enc(k, v) \in Stream
  /\ \A v \in Of(k), t \in Stream : Dec(k, Enc(k, v) \o t) = Reader(v, t)
  /\ \A s \in Stream : ReadBy(k, s)

\* Then, for a kind.
NextOf(k, r) ==
  IF ~r.ok THEN Failed
  ELSE IF Dec(k, r.rest).ok
       THEN Reader(Append(r.value, Dec(k, r.rest).value), Dec(k, r.rest).rest)
       ELSE Failed
\* The values that n readings in a row give.
Many(k, s, n) ==
  FoldLeft(LAMBDA r, i : NextOf(k, r), Reader(<< >>, s), [i \in 1..n |-> i])

LEMMA Parts ==
  ASSUME NEW v, NEW t
  PROVE  /\ Reader(v, t).ok = TRUE /\ Reader(v, t).value = v /\ Reader(v, t).rest = t
         /\ Failed.ok = FALSE /\ Reader(v, t) # Failed
  BY DEF Reader, Failed

LEMMA NextGives ==
  ASSUME NEW k, NEW v, NEW s, NEW x, NEW t, Dec(k, s) = Reader(x, t)
  PROVE  NextOf(k, Reader(v, s)) = Reader(Append(v, x), t)
<1> DEFINE r == Reader(v, s)
           d == Dec(k, s)
<1>1. r.ok = TRUE /\ r.value = v /\ r.rest = s
  BY DEF Reader
<1>2. d.ok = TRUE /\ d.value = x /\ d.rest = t
  BY DEF Reader
<1> HIDE DEF r
<1>3. NextOf(k, r) = IF d.ok THEN Reader(Append(v, d.value), d.rest) ELSE Failed
  BY <1>1 DEF NextOf
<1> HIDE DEF d
<1>4. NextOf(k, r) = Reader(Append(v, x), t)
  BY <1>2, <1>3
<1> QED BY <1>4 DEF r

LEMMA NextReads ==
  ASSUME NEW k, NEW r, Good(k),
         r = Failed \/ \E v : \E s \in Stream : r = Reader(v, s)
  PROVE  \/ NextOf(k, r) = Failed
         \/ \E v : \E s \in Stream, x \in Of(k), t \in Stream :
              /\ r = Reader(v, s) /\ s = Enc(k, x) \o t
              /\ NextOf(k, r) = Reader(Append(v, x), t)
<1>1. CASE r = Failed
  BY <1>1, Parts DEF NextOf
<1>2. ASSUME NEW v, NEW s \in Stream, r = Reader(v, s)
      PROVE  \/ NextOf(k, r) = Failed
             \/ \E x \in Of(k), t \in Stream :
                  s = Enc(k, x) \o t /\ NextOf(k, r) = Reader(Append(v, x), t)
  <2>1. r.ok /\ r.value = v /\ r.rest = s
    BY <1>2, Parts
  <2>2. ReadBy(k, s)
    BY DEF Good
  <2>3. CASE Dec(k, s) = Failed
    BY <2>1, <2>3, Parts DEF NextOf
  <2>4. ASSUME NEW x \in Of(k), NEW t \in Stream, s = Enc(k, x) \o t, Dec(k, s) = Reader(x, t)
        PROVE  NextOf(k, r) = Reader(Append(v, x), t)
    BY <1>2, <2>4, NextGives
  <2> QED BY <2>2, <2>3, <2>4 DEF ReadBy
<1> QED BY <1>1, <1>2, SMTT(30)

LEMMA NextReadsBack ==
  ASSUME NEW k, Good(k), NEW v, NEW x \in Of(k), NEW t \in Stream
  PROVE  NextOf(k, Reader(v, Enc(k, x) \o t)) = Reader(Append(v, x), t)
<1> DEFINE s == Enc(k, x) \o t
<1>1. Dec(k, s) = Reader(x, t)
  BY DEF Good
<1> HIDE DEF s
<1>2. NextOf(k, Reader(v, s)) = Reader(Append(v, x), t)
  BY <1>1, NextGives
<1> QED BY <1>2 DEF s

\* The readers a run over one kind passes through.
Readers(k) == {Failed} \cup {Reader(p[1], p[2]) : p \in Seq(Of(k)) \X Stream}
IsReads(k, s, n, r) ==
  /\ r \in [0..n -> Readers(k)]
  /\ r[0] = Reader(<< >>, s)
  /\ \A i \in 1..n : r[i] = NextOf(k, r[i - 1])

LEMMA ReadersMean ==
  ASSUME NEW k, NEW r
  PROVE  r \in Readers(k) <=>
           r = Failed \/ \E v \in Seq(Of(k)), t \in Stream : r = Reader(v, t)
<1>1. ASSUME NEW v \in Seq(Of(k)), NEW t \in Stream PROVE Reader(v, t) \in Readers(k)
  <2>1. <<v, t>> \in Seq(Of(k)) \X Stream
    OBVIOUS
  <2> QED BY <2>1 DEF Readers
<1>2. Failed \in Readers(k)
  BY DEF Readers
<1>3. ASSUME r \in Readers(k), r # Failed
      PROVE  \E v \in Seq(Of(k)), t \in Stream : r = Reader(v, t)
  BY <1>3 DEF Readers
<1> QED BY <1>1, <1>2, <1>3

LEMMA NextStays ==
  ASSUME NEW k, Good(k), NEW r \in Readers(k)
  PROVE  NextOf(k, r) \in Readers(k)
<1>0. CASE NextOf(k, r) = Failed
  BY <1>0, ReadersMean
<1>1. CASE NextOf(k, r) # Failed
  <2>1. r = Failed \/ \E v \in Seq(Of(k)), t \in Stream : r = Reader(v, t)
    BY ReadersMean
  <2>0. PICK v : \E s \in Stream, x \in Of(k), t \in Stream :
          r = Reader(v, s) /\ NextOf(k, r) = Reader(Append(v, x), t)
    BY <1>1, <2>1, NextReads
  <2>2. PICK s \in Stream, x \in Of(k), t \in Stream :
          r = Reader(v, s) /\ NextOf(k, r) = Reader(Append(v, x), t)
    BY <2>0
  <2>3. v \in Seq(Of(k))
    <3>1. r # Failed
      BY <2>2 DEF Reader, Failed
    <3>2. PICK w \in Seq(Of(k)), u \in Stream : r = Reader(w, u)
      BY <2>1, <3>1
    <3>3. w = v
      BY <2>2, <3>2 DEF Reader
    <3> QED BY <3>3
  <2>4. Append(v, x) \in Seq(Of(k))
    BY <2>3, AppendProperties
  <2> QED BY <2>2, <2>4, ReadersMean
<1> QED BY <1>0, <1>1

LEMMA ManyTurns ==
  ASSUME NEW k, Good(k), NEW s \in Stream, NEW n \in Nat
  PROVE  \E r : IsReads(k, s, n, r) /\ Many(k, s, n) = r[n]
<1> DEFINE base == Reader(<< >>, s)
           D == DOMAIN [i \in 1..n |-> i]
           P(g) == g = [t \in SUBSET D |-> IF t = {} THEN base
                                            ELSE NextOf(k, g[t \ {Max(t)}])]
           g == CHOOSE h : P(h)
           r == [i \in 0..n |-> g[1..i]]
           f == [x \in Readers(k) |-> NextOf(k, x)]
<1>1. Many(k, s, n) = g[D]
  BY DEF Many, FoldLeft, MapThenFoldSet
<1>2. D = 1..n
  OBVIOUS
<1> HIDE DEF D
<1>3. f \in [Readers(k) -> Readers(k)] /\ base \in Readers(k)
  <2>1. << >> \in Seq(Of(k))
    BY EmptySeq
  <2> QED BY <2>1, NextStays, ReadersMean
<1>4. PICK h : FoldOf(Readers(k), f, base, n, h)
  <2> HIDE DEF f, base
  <2> QED BY <1>3, FoldExists
<1>5. P(h)
  <2>1. \A t \in SUBSET (1..n) : t \ {Max(t)} \in SUBSET (1..n)
    OBVIOUS
  <2>2. \A t \in SUBSET (1..n) : f[h[t \ {Max(t)}]] = NextOf(k, h[t \ {Max(t)}])
    <3>1. \A t \in SUBSET (1..n) : h[t \ {Max(t)}] \in Readers(k)
      BY <1>4, <2>1 DEF FoldOf
    <3> QED BY <3>1
  <2> HIDE DEF f
  <2> QED BY <1>2, <1>4, <2>2 DEF FoldOf
<1>6. P(g)
  <2> HIDE DEF P
  <2> QED BY <1>5
<1> HIDE DEF g
<1>7. r[0] = base
  <2>1. 1..0 = {} /\ {} \in SUBSET D
    OBVIOUS
  <2> QED BY <1>6, <2>1
<1>8. ASSUME NEW i \in 1..n PROVE r[i] = NextOf(k, r[i - 1])
  <2>1. /\ 1..i \in SUBSET D /\ 1..i # {} /\ Max(1..i) = i
        /\ (1..i) \ {i} = 1..(i - 1)
    BY <1>2, Topmost
  <2>2. g[1..i] = NextOf(k, g[1..(i - 1)])
    BY <1>6, <2>1
  <2> QED BY <2>2
<1>9. \A i \in 0..n : r[i] \in Readers(k)
  <2> DEFINE G(m) == {i \in 0..m : r[i] \in Readers(k)}
  <2>1. 0 \in G(n)
    BY <1>3, <1>7
  <2>2. ASSUME NEW i \in 1..n, i - 1 \in G(n) PROVE i \in G(n)
    <3>1. r[i - 1] \in Readers(k)
      BY <2>2
    <3> HIDE DEF r
    <3> QED BY <1>8, <3>1, NextStays
  <2> SUFFICES ASSUME NEW m \in 0..n PROVE m \in G(n)
    OBVIOUS
  <2>3. \A i \in 1..m : i - 1 \in G(n) => i \in G(n)
    BY <2>2
  <2> HIDE DEF G
  <2> QED BY <2>1, <2>3, Climb
<1>10. r[n] = g[D]
  BY <1>2
<1>11. IsReads(k, s, n, r)
  BY <1>7, <1>8, <1>9 DEF IsReads
<1> HIDE DEF r
<1> QED BY <1>1, <1>10, <1>11

\* One reading more.
LEMMA ManyStep ==
  ASSUME NEW k, Good(k), NEW s \in Stream, NEW n \in Nat
  PROVE  /\ Many(k, s, 0) = Reader(<< >>, s)
         /\ Many(k, s, n) \in Readers(k)
         /\ Many(k, s, n + 1) = NextOf(k, Many(k, s, n))
<1>0. \A m \in Nat : \E r : IsReads(k, s, m, r) /\ Many(k, s, m) = r[m]
  BY ManyTurns
<1>1. Many(k, s, 0) = Reader(<< >>, s)
  BY <1>0 DEF IsReads
<1>2. PICK r : IsReads(k, s, n, r) /\ Many(k, s, n) = r[n]
  BY ManyTurns
<1>3. PICK q : IsReads(k, s, n + 1, q) /\ Many(k, s, n + 1) = q[n + 1]
  BY <1>0
<1>4. r[n] = q[n]
  <2> DEFINE G == {i \in 0..n : r[i] = q[i]}
  <2>1. 0 \in G
    BY <1>2, <1>3 DEF IsReads
  <2>2. ASSUME NEW i \in 1..n, i - 1 \in G PROVE i \in G
    <3>1. i \in 1..(n + 1) /\ r[i - 1] = q[i - 1]
      BY <2>2
    <3> QED BY <1>2, <1>3, <3>1 DEF IsReads
  <2>3. n \in G
    <3> HIDE DEF G
    <3> QED BY <2>1, <2>2, Climb
  <2> QED BY <2>3
<1>5. q[n + 1] = NextOf(k, q[n])
  <2>1. n + 1 \in 1..(n + 1) /\ (n + 1) - 1 = n
    OBVIOUS
  <2> QED BY <1>3, <2>1 DEF IsReads
<1>6. r[n] \in Readers(k)
  BY <1>2 DEF IsReads
<1> QED BY <1>1, <1>2, <1>3, <1>4, <1>5, <1>6

-----------------------------------------------------------------------------
(* Several of one kind, one after the other *)

Flat(k, v) == FlattenSeq([n \in DOMAIN v |-> Enc(k, v[n])])

LEMMA FlatAppend ==
  ASSUME NEW k, Good(k), NEW v \in Seq(Of(k)), NEW x \in Of(k), Flat(k, v) \in Stream
  PROVE  Flat(k, Append(v, x)) = Flat(k, v) \o Enc(k, x)
<1> DEFINE n == Len(v)
           w == Append(v, x)
           a == [i \in 1..n |-> Enc(k, v[i])]
           b == [i \in 1..(n + 1) |-> Enc(k, w[i])]
           c == Append(a, Enc(k, x))
<1>1. /\ n \in Nat /\ DOMAIN v = 1..n /\ \A i \in 1..n : v[i] \in Of(k)
      /\ w \in Seq(Of(k)) /\ Len(w) = n + 1 /\ DOMAIN w = 1..(n + 1)
      /\ \A i \in 1..n : w[i] = v[i]
      /\ w[n + 1] = x
  <2>1. n \in Nat /\ DOMAIN v = 1..n /\ \A i \in 1..n : v[i] \in Of(k)
    BY LenProperties, ElementOfSeq
  <2>2. /\ w \in Seq(Of(k)) /\ Len(w) = n + 1 /\ \A i \in 1..n : w[i] = v[i]
        /\ w[n + 1] = x
    BY AppendProperties
  <2>3. DOMAIN w = 1..Len(w)
    BY <2>2, LenProperties
  <2> QED BY <2>1, <2>2, <2>3
<1> HIDE DEF n, w
<1>2. Enc(k, x) \in Stream /\ \A i \in 1..n : Enc(k, v[i]) \in Stream
  BY <1>1 DEF Good
<1>3. a \in Seq(Stream) /\ Len(a) = n /\ \A i \in 1..n : a[i] = Enc(k, v[i])
  BY <1>1, <1>2
<1>4. /\ c \in Seq(Stream) /\ Len(c) = n + 1 /\ c[n + 1] = Enc(k, x)
      /\ \A i \in 1..n : c[i] = Enc(k, v[i])
  <2> HIDE DEF a
  <2>1. /\ c \in Seq(Stream) /\ Len(c) = Len(a) + 1 /\ c[Len(a) + 1] = Enc(k, x)
        /\ \A i \in 1..Len(a) : c[i] = a[i]
    BY <1>2, <1>3, AppendProperties
  <2> QED BY <1>3, <2>1
<1>5. \A i \in 1..(n + 1) : b[i] = c[i] /\ c[i] \in Stream
  <2> SUFFICES ASSUME NEW i \in 1..(n + 1) PROVE Enc(k, w[i]) = c[i] /\ c[i] \in Stream
    OBVIOUS
  <2> HIDE DEF c
  <2>1. CASE i = n + 1
    BY <1>1, <1>2, <1>4, <2>1
  <2>2. CASE i # n + 1
    <3>1. i \in 1..n
      BY <1>1, <2>2
    <3> QED BY <1>1, <1>2, <1>4, <3>1
  <2> QED BY <2>1, <2>2
<1>6. b = c
  <2> HIDE DEF c
  <2>1. c = [i \in 1..Len(c) |-> c[i]]
    BY <1>4, LenProperties
  <2>2. b = [i \in 1..(n + 1) |-> c[i]]
    BY <1>5
  <2> HIDE DEF b
  <2> QED BY <1>4, <2>1, <2>2
<1>7. Flat(k, v) = FlattenSeq(a) /\ Flat(k, w) = FlattenSeq(b)
  BY <1>1 DEF Flat
<1> HIDE DEF a, b
<1>8. FlattenSeq(c) = FlattenSeq(a) \o Enc(k, x)
  <2> HIDE DEF c
  <2>1. FlattenSeq(a) \in Stream
    BY <1>7
  <2>2. FlattenSeq(Append(a, Enc(k, x))) = FlattenSeq(a) \o Enc(k, x)
    BY <1>2, <1>3, <2>1, FlattenAppend DEF Stream
  <2> QED BY <2>2 DEF c
<1> QED BY <1>6, <1>7, <1>8 DEF w

LEMMA FlatNone == ASSUME NEW k PROVE Flat(k, << >>) = << >>
  BY DEF Flat, FlattenSeq

\* What n codes in a row are read as.
ReadsBack(k, v) ==
  /\ Flat(k, v) \in Stream
  /\ \A t \in Stream : Many(k, Flat(k, v) \o t, Len(v)) = Reader(v, t)

LEMMA ManyReadsBack ==
  ASSUME NEW k, Good(k), NEW v \in Seq(Of(k))
  PROVE  ReadsBack(k, v)
<1> DEFINE G == {m \in Nat : \A w \in Seq(Of(k)) : Len(w) = m => ReadsBack(k, w)}
<1>1. 0 \in G
  <2> SUFFICES ASSUME NEW w \in Seq(Of(k)), Len(w) = 0 PROVE ReadsBack(k, w)
    OBVIOUS
  <2>1. w = << >> /\ Flat(k, w) = << >> /\ << >> \in Stream
    BY EmptySeq, FlatNone, JoinsNone
  <2>2. ASSUME NEW t \in Stream PROVE Many(k, << >> \o t, 0) = Reader(<< >>, t)
    <3>1. << >> \o t = t
      BY JoinsNone
    <3>2. Many(k, t, 0) = Reader(<< >>, t)
      BY ManyStep
    <3> QED BY <3>1, <3>2
  <2> QED BY <2>1, <2>2 DEF ReadsBack
<1>2. ASSUME NEW m \in Nat, m \in G PROVE m + 1 \in G
  <2> SUFFICES ASSUME NEW w \in Seq(Of(k)), Len(w) = m + 1 PROVE ReadsBack(k, w)
    OBVIOUS
  <2>1. w # << >>
    BY EmptySeq
  <2>2. PICK u \in Seq(Of(k)), x \in Of(k) : w = Append(u, x)
    BY <2>1, SequenceEmptyOrAppend
  <2>3. Len(u) = m
    <3>1. Len(w) = Len(u) + 1 /\ Len(u) \in Nat
      BY <2>2, AppendProperties, LenProperties
    <3> QED BY <3>1
  <2>4. ReadsBack(k, u)
    BY <1>2, <2>3
  <2> DEFINE a == Flat(k, u)
             e == Enc(k, x)
  <2>5. a \in Stream /\ e \in Stream
    BY <2>4 DEF ReadsBack, Good
  <2>6. Flat(k, w) = a \o e /\ a \o e \in Stream
    <3>1. Flat(k, w) = a \o e
      BY <2>2, <2>5, FlatAppend
    <3> HIDE DEF a, e
    <3> QED BY <2>5, <3>1, Joins
  <2> HIDE DEF a
  <2>7. ASSUME NEW t \in Stream PROVE Many(k, (a \o e) \o t, m + 1) = Reader(w, t)
    <3>1. e \o t \in Stream
      <4> HIDE DEF e
      <4> QED BY <2>5, Joins
    <3>2. (a \o e) \o t = a \o (e \o t) /\ a \o (e \o t) \in Stream
      <4> HIDE DEF e
      <4> QED BY <2>5, <3>1, Joins, JoinsThree
    <3> DEFINE s == a \o (e \o t)
    <3>3. Many(k, s, m) = Reader(u, e \o t)
      BY <2>3, <2>4, <3>1 DEF ReadsBack, a
    <3> HIDE DEF s
    <3>4. Many(k, s, m + 1) = NextOf(k, Many(k, s, m))
      BY <3>2, ManyStep DEF s
    <3>5. NextOf(k, Reader(u, e \o t)) = Reader(w, t)
      BY <2>2, NextReadsBack
    <3> HIDE DEF e
    <3> QED BY <3>2, <3>3, <3>4, <3>5 DEF s
  <2> HIDE DEF e
  <2> QED BY <2>6, <2>7 DEF ReadsBack
<1>3. Len(v) \in G
  <2>1. Len(v) \in Nat
    BY LenProperties
  <2>2. \A i \in 1..Len(v) : i - 1 \in G => i \in G
    <3> SUFFICES ASSUME NEW i \in 1..Len(v), i - 1 \in G PROVE i \in G
      OBVIOUS
    <3>1. i - 1 \in Nat /\ (i - 1) + 1 = i
      BY <2>1
    <3> HIDE DEF G
    <3>2. (i - 1) + 1 \in G
      BY <1>2, <3>1
    <3> QED BY <3>1, <3>2
  <2> HIDE DEF G
  <2> QED BY <1>1, <2>1, <2>2, Climb
<1> QED BY <1>3

\* And only codes are read.
ManyBy(k, s, n) ==
  \/ Many(k, s, n) = Failed
  \/ \E v \in Seq(Of(k)), t \in Stream :
       Len(v) = n /\ s = Flat(k, v) \o t /\ Many(k, s, n) = Reader(v, t)

LEMMA ManyReads ==
  ASSUME NEW k, Good(k), NEW s \in Stream, NEW n \in Nat
  PROVE  ManyBy(k, s, n)
<1> DEFINE G == {m \in Nat : ManyBy(k, s, m)}
<1>1. 0 \in G
  <2>1. << >> \in Seq(Of(k)) /\ Len(<< >>) = 0 /\ Flat(k, << >>) = << >>
    BY EmptySeq, FlatNone
  <2>2. s = << >> \o s /\ Many(k, s, 0) = Reader(<< >>, s)
    BY JoinsNone, ManyStep
  <2> QED BY <2>1, <2>2 DEF ManyBy
<1>2. ASSUME NEW m \in Nat, ManyBy(k, s, m) PROVE ManyBy(k, s, m + 1)
  <2> DEFINE r == Many(k, s, m)
  <2>1. Many(k, s, m + 1) = NextOf(k, r)
    BY ManyStep
  <2>2. CASE r = Failed
    <3>1. NextOf(k, r) = Failed
      BY <2>2 DEF NextOf, Failed
    <3> QED BY <2>1, <3>1 DEF ManyBy
  <2>3. ASSUME NEW v \in Seq(Of(k)), NEW t \in Stream, Len(v) = m,
               s = Flat(k, v) \o t, r = Reader(v, t), NextOf(k, r) # Failed
        PROVE  ManyBy(k, s, m + 1)
    <3>1. PICK w : \E q \in Stream, x \in Of(k), u \in Stream :
            /\ r = Reader(w, q) /\ q = Enc(k, x) \o u
            /\ NextOf(k, r) = Reader(Append(w, x), u)
      <4>1. \E w : \E q \in Stream : r = Reader(w, q)
        BY <2>3
      <4> HIDE DEF r
      <4> QED BY <2>3, <4>1, NextReads, SMTT(30)
    <3>2. PICK q \in Stream, x \in Of(k), u \in Stream :
            /\ r = Reader(w, q) /\ q = Enc(k, x) \o u
            /\ NextOf(k, r) = Reader(Append(w, x), u)
      BY <3>1
    <3>3. w = v /\ q = t
      <4> HIDE DEF r
      <4> QED BY <2>3, <3>2 DEF Reader
    <3>4. Flat(k, v) \in Stream /\ Enc(k, x) \in Stream
      BY ManyReadsBack DEF ReadsBack, Good
    <3>5. Flat(k, Append(v, x)) = Flat(k, v) \o Enc(k, x)
      BY <3>4, FlatAppend
    <3>6. (Flat(k, v) \o Enc(k, x)) \o u = Flat(k, v) \o (Enc(k, x) \o u)
      <4> DEFINE a == Flat(k, v)
                 e == Enc(k, x)
      <4>1. a \in Stream /\ e \in Stream
        BY <3>4
      <4> HIDE DEF a, e
      <4>2. (a \o e) \o u = a \o (e \o u)
        BY <4>1, JoinsThree, SMTT(60)
      <4> QED BY <4>2 DEF a, e
    <3>7. s = Flat(k, Append(v, x)) \o u
      BY <2>3, <3>2, <3>3, <3>5, <3>6
    <3>8. Append(v, x) \in Seq(Of(k)) /\ Len(Append(v, x)) = m + 1
      BY <2>3, AppendProperties
    <3>9. Many(k, s, m + 1) = Reader(Append(v, x), u)
      BY <2>1, <3>2, <3>3
    <3> QED BY <3>7, <3>8, <3>9 DEF ManyBy
  <2>4. CASE NextOf(k, r) = Failed
    BY <2>1, <2>4 DEF ManyBy
  <2> HIDE DEF r
  <2> QED BY <1>2, <2>2, <2>3, <2>4 DEF ManyBy, r
<1>3. \A i \in 1..n : i - 1 \in G => i \in G
  <2> SUFFICES ASSUME NEW i \in 1..n, i - 1 \in G PROVE i \in G
    OBVIOUS
  <2>1. i - 1 \in Nat /\ (i - 1) + 1 = i /\ i \in Nat /\ ManyBy(k, s, i - 1)
    OBVIOUS
  <2>2. ManyBy(k, s, (i - 1) + 1)
    BY <1>2, <2>1
  <2> QED BY <2>1, <2>2
<1>4. n \in G
  <2> HIDE DEF G
  <2> QED BY <1>1, <1>3, Climb
<1> QED BY <1>4

-----------------------------------------------------------------------------
(* Vectors: their length, then as many of one kind *)

LEMMA WordReads ==
  /\ \A w \in Nat, t \in Stream :
       <<w>> \in Stream /\ DecodeWord(<<w>> \o t) = Reader(w, t)
  /\ \A s \in Stream :
       \/ DecodeWord(s) = Failed
       \/ \E w \in Nat, t \in Stream : s = <<w>> \o t /\ DecodeWord(s) = Reader(w, t)
<1>1. ASSUME NEW w \in Nat, NEW t \in Stream
      PROVE  <<w>> \in Stream /\ DecodeWord(<<w>> \o t) = Reader(w, t)
  <2> DEFINE s == <<w>> \o t
  <2>1. <<w>> \in Stream /\ Len(<<w>>) = 1 /\ <<w>>[1] = w
    BY DEF Stream
  <2>2. s \in Stream /\ Len(s) = 1 + Len(t) /\ Len(t) \in Nat
    BY <2>1, Joins
  <2>3. s[1] = w /\ \A i \in 1..Len(t) : s[i + 1] = t[i]
    <3> DEFINE h == <<w>>
    <3>1. h \in Seq(Nat) /\ t \in Seq(Nat) /\ Len(h) = 1 /\ h[1] = w
      BY <2>1 DEF Stream
    <3> HIDE DEF h
    <3>2. \A i \in 1..(Len(h) + Len(t)) : (h \o t)[i] = IF i <= Len(h) THEN h[i] ELSE t[i - Len(h)]
      BY <3>1, ConcatProperties
    <3>3. \A i \in 1..(1 + Len(t)) : s[i] = IF i <= 1 THEN h[i] ELSE t[i - 1]
      BY <3>1, <3>2 DEF h
    <3> HIDE DEF s
    <3> QED BY <2>2, <3>1, <3>3
  <2>4. s # << >>
    BY <2>2, JoinsNone
  <2> HIDE DEF s
  <2>5. Head(s) = w
    BY <2>2, <2>3, <2>4
  <2>6. Tail(s) = t
    <3>1. /\ Tail(s) \in Stream /\ Len(Tail(s)) = Len(s) - 1
          /\ \A i \in 1..Len(Tail(s)) : Tail(s)[i] = s[i + 1]
      BY <2>2, <2>4, HeadTailProperties DEF Stream
    <3>2. Len(Tail(s)) = Len(t) /\ \A i \in 1..Len(Tail(s)) : Tail(s)[i] = t[i]
      BY <2>2, <2>3, <3>1
    <3> QED BY <3>1, <3>2, SeqEqual DEF Stream
  <2>7. DecodeWord(s) = Reader(w, t)
    BY <2>4, <2>5, <2>6 DEF DecodeWord
  <2> QED BY <2>1, <2>7 DEF s
<1>2. ASSUME NEW s \in Stream, s # << >>
      PROVE  \E w \in Nat, t \in Stream : s = <<w>> \o t /\ DecodeWord(s) = Reader(w, t)
  <2>1. Head(s) \in Nat /\ Tail(s) \in Stream
    BY <1>2, HeadTailProperties DEF Stream
  <2>2. s = <<Head(s)>> \o Tail(s)
    <3>1. Len(s) \in Nat \ {0}
      BY <1>2, EmptySeq DEF Stream
    <3>2. /\ SubSeq(s, 1, Len(s)) = <<s[1]>> \o SubSeq(s, 2, Len(s))
          /\ SubSeq(s, 1, Len(s)) = s /\ Tail(s) = SubSeq(s, 2, Len(s))
      <4>1. 1 \in 1..Len(s) /\ Len(s) \in 1..Len(s) /\ 1 + 1 = 2
        BY <3>1
      <4>2. SubSeq(s, 1, Len(s)) = <<s[1]>> \o SubSeq(s, 1 + 1, Len(s))
        BY <4>1, SubSeqRecursiveFirst DEF Stream
      <4>3. SubSeq(s, 1, Len(s)) = s
        BY SubSeqFull DEF Stream
      <4>4. Tail(s) = SubSeq(s, 2, Len(s))
        BY <1>2, TailIsSubSeq DEF Stream
      <4> QED BY <4>1, <4>2, <4>3, <4>4
    <3>3. Head(s) = s[1]
      OBVIOUS
    <3> QED BY <3>2, <3>3
  <2>3. DecodeWord(s) = Reader(Head(s), Tail(s))
    BY <1>2 DEF DecodeWord
  <2> QED BY <2>1, <2>2, <2>3
<1>3. ASSUME NEW s \in Stream
      PROVE  \/ DecodeWord(s) = Failed
             \/ \E w \in Nat, t \in Stream : s = <<w>> \o t /\ DecodeWord(s) = Reader(w, t)
  <2>1. CASE s = << >>
    BY <2>1 DEF DecodeWord
  <2> QED BY <1>2, <2>1
<1> QED BY <1>1, <1>3

Vec(k, s) ==
  IF ~DecodeWord(s).ok \/ DecodeWord(s).value > Len(DecodeWord(s).rest) THEN Failed
  ELSE Many(k, DecodeWord(s).rest, DecodeWord(s).value)
VecCode(k, v) == <<Len(v)>> \o Flat(k, v)

LEMMA VecAt ==
  ASSUME NEW k, NEW n \in Nat, NEW t \in Stream
  PROVE  Vec(k, <<n>> \o t) = IF n > Len(t) THEN Failed ELSE Many(k, t, n)
<1> DEFINE s == <<n>> \o t
           d == DecodeWord(s)
<1>1. d = Reader(n, t)
  BY WordReads
<1>2. Vec(k, s) = IF ~d.ok \/ d.value > Len(d.rest) THEN Failed ELSE Many(k, d.rest, d.value)
  BY DEF Vec
<1>3. d.ok = TRUE /\ d.value = n /\ d.rest = t
  <2> HIDE DEF d
  <2> QED BY <1>1 DEF Reader
<1> HIDE DEF d, s
<1>4. Vec(k, s) = IF n > Len(t) THEN Failed ELSE Many(k, t, n)
  BY <1>2, <1>3
<1> QED BY <1>4 DEF s

\* No code is empty, so n codes are at least n tokens.
Solid(k) == \A v \in Of(k) : Enc(k, v) # << >>
LEMMA FlatLong ==
  ASSUME NEW k, Good(k), Solid(k), NEW v \in Seq(Of(k))
  PROVE  Len(Flat(k, v)) >= Len(v)
<1> DEFINE G == {m \in Nat : \A w \in Seq(Of(k)) : Len(w) = m => Len(Flat(k, w)) >= m}
<1>1. 0 \in G
  <2> SUFFICES ASSUME NEW w \in Seq(Of(k)) PROVE Len(Flat(k, w)) >= 0
    OBVIOUS
  <2>1. Flat(k, w) \in Stream
    BY ManyReadsBack DEF ReadsBack
  <2>2. Len(Flat(k, w)) \in Nat
    BY <2>1, JoinsNone, Joins
  <2> QED BY <2>2
<1>2. ASSUME NEW m \in Nat, m \in G PROVE m + 1 \in G
  <2> SUFFICES ASSUME NEW w \in Seq(Of(k)), Len(w) = m + 1 PROVE Len(Flat(k, w)) >= m + 1
    OBVIOUS
  <2>1. w # << >>
    BY EmptySeq
  <2>2. PICK u \in Seq(Of(k)), x \in Of(k) : w = Append(u, x)
    BY <2>1, SequenceEmptyOrAppend
  <2>3. Len(u) = m
    <3>1. Len(w) = Len(u) + 1 /\ Len(u) \in Nat
      BY <2>2, AppendProperties, LenProperties
    <3> QED BY <3>1
  <2> DEFINE a == Flat(k, u)
             e == Enc(k, x)
  <2>4. Len(a) >= m
    BY <1>2, <2>3
  <2>5. a \in Stream /\ e \in Stream /\ e # << >>
    BY ManyReadsBack DEF ReadsBack, Good, Solid
  <2>6. Flat(k, w) = a \o e
    BY <2>2, <2>5, FlatAppend
  <2> HIDE DEF a, e
  <2>7. Len(a \o e) = Len(a) + Len(e) /\ Len(a) \in Nat
    BY <2>5, Joins
  <2>8. Len(e) \in Nat \ {0}
    BY <2>5, EmptySeq DEF Stream
  <2> QED BY <2>4, <2>6, <2>7, <2>8
<1>3. Len(v) \in G
  <2>1. Len(v) \in Nat
    BY LenProperties
  <2>2. \A i \in 1..Len(v) : i - 1 \in G => i \in G
    <3> SUFFICES ASSUME NEW i \in 1..Len(v), i - 1 \in G PROVE i \in G
      OBVIOUS
    <3>1. i - 1 \in Nat /\ (i - 1) + 1 = i
      BY <2>1
    <3> HIDE DEF G
    <3>2. (i - 1) + 1 \in G
      BY <1>2, <3>1
    <3> QED BY <3>1, <3>2
  <2> HIDE DEF G
  <2> QED BY <1>1, <2>1, <2>2, Climb
<1> QED BY <1>3

\* What is said of a kind, for a vector of it.
VecGood(k) ==
  /\ \A v \in Seq(Of(k)) : VecCode(k, v) \in Stream
  /\ \A v \in Seq(Of(k)), t \in Stream : Vec(k, VecCode(k, v) \o t) = Reader(v, t)
  /\ \A s \in Stream :
       \/ Vec(k, s) = Failed
       \/ \E v \in Seq(Of(k)), t \in Stream :
            s = VecCode(k, v) \o t /\ Vec(k, s) = Reader(v, t)

LEMMA Vectors ==
  ASSUME NEW k, Good(k), Solid(k)
  PROVE  VecGood(k)
<1>1. ASSUME NEW v \in Seq(Of(k))
      PROVE  /\ Len(v) \in Nat /\ <<Len(v)>> \in Stream /\ Flat(k, v) \in Stream
             /\ VecCode(k, v) \in Stream
             /\ \A t \in Stream : /\ Flat(k, v) \o t \in Stream
                                  /\ VecCode(k, v) \o t = <<Len(v)>> \o (Flat(k, v) \o t)
  <2> DEFINE h == <<Len(v)>>
             a == Flat(k, v)
  <2>1. Len(v) \in Nat
    BY LenProperties
  <2>2. h \in Stream
    BY <2>1 DEF Stream
  <2>3. a \in Stream
    BY ManyReadsBack DEF ReadsBack
  <2> HIDE DEF h, a
  <2>4. h \o a \in Stream
    BY <2>2, <2>3, Joins
  <2>5. \A t \in Stream : a \o t \in Stream /\ (h \o a) \o t = h \o (a \o t)
    BY <2>2, <2>3, Joins, JoinsThree
  <2> QED BY <2>1, <2>2, <2>3, <2>4, <2>5 DEF h, a, VecCode
<1>2. ASSUME NEW v \in Seq(Of(k)), NEW t \in Stream
      PROVE  Vec(k, VecCode(k, v) \o t) = Reader(v, t)
  <2> DEFINE u == Flat(k, v) \o t
  <2>1. u \in Stream /\ Len(v) \in Nat /\ VecCode(k, v) \o t = <<Len(v)>> \o u
    BY <1>1
  <2>2. ~(Len(v) > Len(u))
    <3> DEFINE a == Flat(k, v)
    <3>1. a \in Stream /\ Len(a) >= Len(v)
      BY <1>1, FlatLong
    <3> HIDE DEF a
    <3>2. Len(a \o t) = Len(a) + Len(t) /\ Len(a) \in Nat /\ Len(t) \in Nat
      BY <3>1, Joins
    <3>3. Len(a \o t) >= Len(v)
      BY <2>1, <3>1, <3>2
    <3> QED BY <2>1, <3>2, <3>3 DEF a
  <2>3. Many(k, u, Len(v)) = Reader(v, t)
    BY ManyReadsBack DEF ReadsBack
  <2> HIDE DEF u
  <2> QED BY <2>1, <2>2, <2>3, VecAt
<1>3. ASSUME NEW s \in Stream, Vec(k, s) # Failed
      PROVE  \E v \in Seq(Of(k)), t \in Stream :
               s = VecCode(k, v) \o t /\ Vec(k, s) = Reader(v, t)
  <2>1. DecodeWord(s) # Failed
    BY <1>3 DEF Vec, Failed
  <2>2. PICK n \in Nat, u \in Stream : s = <<n>> \o u
    BY <2>1, WordReads
  <2>3. Vec(k, s) = Many(k, u, n)
    BY <1>3, <2>2, VecAt
  <2>4. PICK v \in Seq(Of(k)), t \in Stream :
          Len(v) = n /\ u = Flat(k, v) \o t /\ Many(k, u, n) = Reader(v, t)
    BY <1>3, <2>3, ManyReads DEF ManyBy
  <2>5. s = VecCode(k, v) \o t
    BY <1>1, <2>2, <2>4
  <2> QED BY <2>3, <2>4, <2>5
<1> QED BY <1>1, <1>2, <1>3 DEF VecGood

-----------------------------------------------------------------------------
(* Structures: one field after the other *)

LEMMA NextFails == ASSUME NEW k PROVE NextOf(k, Failed) = Failed
  BY DEF NextOf, Failed

Two(k, l, r) == NextOf(l, NextOf(k, r))

LEMMA TwoFail == ASSUME NEW k, NEW l PROVE Two(k, l, Failed) = Failed
  BY NextFails DEF Two

LEMMA FieldRead ==
  ASSUME NEW k, Good(k), NEW v, NEW s \in Stream, NextOf(k, Reader(v, s)) # Failed
  PROVE  \E x \in Of(k), t \in Stream :
           s = Enc(k, x) \o t /\ NextOf(k, Reader(v, s)) = Reader(Append(v, x), t)
<1> DEFINE r == Reader(v, s)
<1>1. \E w : \E q \in Stream : r = Reader(w, q)
  OBVIOUS
<1>2. PICK w : \E q \in Stream, x \in Of(k), t \in Stream :
        r = Reader(w, q) /\ q = Enc(k, x) \o t /\ NextOf(k, r) = Reader(Append(w, x), t)
  <2> HIDE DEF r
  <2> QED BY <1>1, NextReads DEF r
<1>3. PICK q \in Stream, x \in Of(k), t \in Stream :
        r = Reader(w, q) /\ q = Enc(k, x) \o t /\ NextOf(k, r) = Reader(Append(w, x), t)
  BY <1>2
<1>4. w = v /\ q = s
  BY <1>3 DEF Reader
<1> QED BY <1>3, <1>4

TwoAre(k, l, v, s) ==
  \E x \in Of(k), y \in Of(l), t \in Stream :
    /\ s = Enc(k, x) \o (Enc(l, y) \o t)
    /\ Two(k, l, Reader(v, s)) = Reader(Append(Append(v, x), y), t)
LEMMA TwoRead ==
  ASSUME NEW k, NEW l, Good(k), Good(l), NEW v, NEW s \in Stream,
         Two(k, l, Reader(v, s)) # Failed
  PROVE  TwoAre(k, l, v, s)
<1>1. NextOf(k, Reader(v, s)) # Failed
  BY NextFails DEF Two
<1>2. PICK x \in Of(k), u \in Stream :
        s = Enc(k, x) \o u /\ NextOf(k, Reader(v, s)) = Reader(Append(v, x), u)
  BY <1>1, FieldRead
<1>3. Two(k, l, Reader(v, s)) = NextOf(l, Reader(Append(v, x), u))
  BY <1>2 DEF Two
<1>4. PICK y \in Of(l), t \in Stream :
        /\ u = Enc(l, y) \o t
        /\ NextOf(l, Reader(Append(v, x), u)) = Reader(Append(Append(v, x), y), t)
  BY <1>3, FieldRead
<1> QED BY <1>2, <1>3, <1>4 DEF TwoAre

LEMMA TwoReadBack ==
  ASSUME NEW k, NEW l, Good(k), Good(l), NEW v, NEW x \in Of(k), NEW y \in Of(l),
         NEW t \in Stream
  PROVE  Two(k, l, Reader(v, Enc(k, x) \o (Enc(l, y) \o t))) =
           Reader(Append(Append(v, x), y), t)
<1> DEFINE u == Enc(l, y) \o t
<1>1. u \in Stream
  <2>1. Enc(l, y) \in Stream
    BY DEF Good
  <2> QED BY <2>1, Joins
<1> HIDE DEF u
<1>2. NextOf(k, Reader(v, Enc(k, x) \o u)) = Reader(Append(v, x), u)
  BY <1>1, NextReadsBack
<1>3. NextOf(l, Reader(Append(v, x), u)) = Reader(Append(Append(v, x), y), t)
  BY NextReadsBack DEF u
<1> QED BY <1>2, <1>3 DEF Two, u

\* Structures are joined field by field from the left.
AllJoined(a, b, c, d, t) ==
  /\ ((a \o b) \o c) \o d \in Stream
  /\ (((a \o b) \o c) \o d) \o t = a \o (b \o (c \o (d \o t)))
  /\ a \o (b \o (c \o (d \o t))) \in Stream
LEMMA FourJoined ==
  ASSUME NEW a \in Stream, NEW b \in Stream, NEW c \in Stream, NEW d \in Stream,
         NEW t \in Stream
  PROVE  AllJoined(a, b, c, d, t)
<1> DEFINE ab == a \o b
           dt == d \o t
<1>1. ab \in Stream /\ dt \in Stream
  BY Joins
<1>2. \A q \in Stream : ab \o q = a \o (b \o q)
  BY JoinsThree, SMTT(60)
<1>0. \A q \in Stream : (q \o d) \o t = q \o dt
  BY JoinsThree, SMTT(60)
<1>4b. \A p, q \in Stream : (p \o c) \o q = p \o (c \o q)
  BY JoinsThree, SMTT(60)
<1> HIDE DEF ab, dt
<1>4a. (ab \o c) \o dt = ab \o (c \o dt)
  BY <1>1, <1>4b
<1> DEFINE abc == ab \o c
           cdt == c \o dt
<1>3. abc \in Stream /\ cdt \in Stream
  BY <1>1, Joins
<1>4. abc \o dt = ab \o cdt
  BY <1>4a
<1>5. ab \o cdt = a \o (b \o cdt)
  BY <1>2, <1>3
<1> HIDE DEF abc, cdt
<1>6. abc \o d \in Stream /\ (abc \o d) \o t = abc \o dt /\ b \o cdt \in Stream
  <2>1. abc \o d \in Stream
    BY <1>3, Joins
  <2>2. (abc \o d) \o t = abc \o dt
    BY <1>0, <1>3
  <2>3. b \o cdt \in Stream
    BY <1>3, Joins
  <2> QED BY <2>1, <2>2, <2>3
<1>7. a \o (b \o cdt) \in Stream
  <2> DEFINE bcdt == b \o cdt
  <2>1. bcdt \in Stream
    BY <1>6
  <2> HIDE DEF bcdt
  <2>2. a \o bcdt \in Stream
    BY <2>1, Joins
  <2> QED BY <2>2 DEF bcdt
<1> QED BY <1>4, <1>5, <1>6, <1>7 DEF ab, abc, dt, cdt, AllJoined

LEMMA WordGood == Good("word")
<1>1. \A w \in Nat : <<w>> \in Stream
  BY DEF Stream
<1>2. \A w : Of("word") = Nat /\ Enc("word", w) = <<w>> /\ Dec("word", w) = DecodeWord(w)
  BY DEF Of, Enc, Dec, Word
<1>3. \A w \in Nat, t \in Stream : DecodeWord(<<w>> \o t) = Reader(w, t)
  BY WordReads
<1>4. ASSUME NEW s \in Stream PROVE ReadBy("word", s)
  <2>1. CASE DecodeWord(s) = Failed
    BY <1>2, <2>1 DEF ReadBy
  <2>2. ASSUME NEW w \in Nat, NEW t \in Stream, s = <<w>> \o t, DecodeWord(s) = Reader(w, t)
        PROVE  ReadBy("word", s)
    <3>1. w \in Of("word") /\ s = Enc("word", w) \o t /\ Dec("word", s) = Reader(w, t)
      BY <1>2, <2>2
    <3> QED BY <3>1 DEF ReadBy
  <2> QED BY <2>1, <2>2, WordReads
<1>5. \A v \in Of("word") : Enc("word", v) \in Stream
  BY <1>1, <1>2
<1>6. \A v \in Of("word"), t \in Stream : Dec("word", Enc("word", v) \o t) = Reader(v, t)
  BY <1>2, <1>3
<1> QED BY <1>4, <1>5, <1>6 DEF Good

LEMMA WordSolid == Solid("word")
  BY DEF Solid, Of, Enc, Word

\* A kind that is the vectors of another one.
LEMMA VectorKind ==
  ASSUME NEW k, NEW l, Good(k), Solid(k), Of(l) = Seq(Of(k)),
         \A v : Enc(l, v) = VecCode(k, v), \A s : Dec(l, s) = Vec(k, s)
  PROVE  Good(l)
<1>1. VecGood(k)
  BY Vectors
<1>2. ASSUME NEW s \in Stream PROVE ReadBy(l, s)
  <2>1. CASE Vec(k, s) = Failed
    BY <2>1 DEF ReadBy
  <2>2. ASSUME NEW v \in Seq(Of(k)), NEW t \in Stream,
               s = VecCode(k, v) \o t, Vec(k, s) = Reader(v, t)
        PROVE  ReadBy(l, s)
    <3>1. v \in Of(l) /\ s = Enc(l, v) \o t /\ Dec(l, s) = Reader(v, t)
      BY <2>2
    <3> QED BY <3>1 DEF ReadBy
  <2> QED BY <1>1, <2>1, <2>2 DEF VecGood
<1>3. \A v \in Of(l) : Enc(l, v) \in Stream
  BY <1>1 DEF VecGood
<1>4. ASSUME NEW v \in Of(l), NEW t \in Stream PROVE Dec(l, Enc(l, v) \o t) = Reader(v, t)
  <2>1. Vec(k, VecCode(k, v) \o t) = Reader(v, t)
    BY <1>1 DEF VecGood
  <2> QED BY <2>1
<1> QED BY <1>2, <1>3, <1>4 DEF Good

LEMMA FoldWord ==
  ASSUME NEW s, NEW n
  PROVE  FoldLeft(LAMBDA r, i : Then(r, DecodeWord), Reader(<< >>, s), [i \in 1..n |-> i])
           = Many("word", s, n)
<1> DEFINE b == Reader(<< >>, s)
           D == DOMAIN [i \in 1..n |-> i]
           T(r) == Then(r, DecodeWord)
           P(g) == g = [t \in SUBSET D |-> IF t = {} THEN b ELSE T(g[t \ {Max(t)}])]
           Q(g) == g = [t \in SUBSET D |->
                          IF t = {} THEN b ELSE NextOf("word", g[t \ {Max(t)}])]
<1>1. FoldLeft(LAMBDA r, i : Then(r, DecodeWord), b, [i \in 1..n |-> i])
        = (CHOOSE g : P(g))[D]
  BY DEF FoldLeft, MapThenFoldSet, Then
<1>2. Many("word", s, n) = (CHOOSE g : Q(g))[D]
  BY DEF Many, FoldLeft, MapThenFoldSet
<1>3. \A r : T(r) = NextOf("word", r)
  BY DEF Then, NextOf, Dec
<1> HIDE DEF T, D, b
<1>4. \A g : P(g) <=> Q(g)
  BY <1>3
<1> HIDE DEF P, Q
<1>5. (CHOOSE g : P(g)) = (CHOOSE g : Q(g))
  BY <1>4
<1> QED BY <1>1, <1>2, <1>5 DEF b

LEMMA WordVectors ==
  ASSUME Good("word"), Solid("word") PROVE Good("script")
<1>1. ASSUME NEW s PROVE Dec("script", s) = Vec("word", s)
  <2> DEFINE d == DecodeWord(s)
             Fold == FoldLeft(LAMBDA r, i : Then(r, DecodeWord), Reader(<< >>, d.rest),
                              [i \in 1..d.value |-> i])
  <2>1. Dec("script", s) = IF ~d.ok \/ d.value > Len(d.rest) THEN Failed ELSE Fold
    BY DEF Dec, DecodeVec, FoldLeft, MapThenFoldSet, Then, DecodeScript
  <2>2. Fold = Many("word", d.rest, d.value)
    BY FoldWord
  <2> HIDE DEF Fold
  <2> QED BY <2>1, <2>2 DEF Vec
<1>2. ASSUME NEW v PROVE Enc("script", v) = VecCode("word", v)
  <2>1. \A x : Enc("word", x) = Word(x)
    BY DEF Enc
  <2>2. Enc("script", v) = <<Len(v)>> \o FlattenSeq([n \in DOMAIN v |-> Word(v[n])])
    BY DEF Enc, EncodeVec, EncodeScript
  <2> QED BY <2>1, <2>2 DEF VecCode, Flat
<1>3. Of("script") = Seq(Of("word"))
  BY DEF Of
<1> QED BY <1>1, <1>2, <1>3, VectorKind

LEMMA FoldTxIn ==
  ASSUME NEW s, NEW n
  PROVE  FoldLeft(LAMBDA r, i : Then(r, DecodeTxIn), Reader(<< >>, s), [i \in 1..n |-> i])
           = Many("in", s, n)
<1> DEFINE b == Reader(<< >>, s)
           D == DOMAIN [i \in 1..n |-> i]
           T(r) == Then(r, DecodeTxIn)
           P(g) == g = [t \in SUBSET D |-> IF t = {} THEN b ELSE T(g[t \ {Max(t)}])]
           Q(g) == g = [t \in SUBSET D |->
                          IF t = {} THEN b ELSE NextOf("in", g[t \ {Max(t)}])]
<1>1. FoldLeft(LAMBDA r, i : Then(r, DecodeTxIn), b, [i \in 1..n |-> i])
        = (CHOOSE g : P(g))[D]
  BY DEF FoldLeft, MapThenFoldSet, Then
<1>2. Many("in", s, n) = (CHOOSE g : Q(g))[D]
  BY DEF Many, FoldLeft, MapThenFoldSet
<1>3. \A r : T(r) = NextOf("in", r)
  BY DEF Then, NextOf, Dec
<1> HIDE DEF T, D, b
<1>4. \A g : P(g) <=> Q(g)
  BY <1>3
<1> HIDE DEF P, Q
<1>5. (CHOOSE g : P(g)) = (CHOOSE g : Q(g))
  BY <1>4
<1> QED BY <1>1, <1>2, <1>5 DEF b

LEMMA TxInVectors ==
  ASSUME Good("in"), Solid("in") PROVE Good("ins")
<1>1. ASSUME NEW s PROVE Dec("ins", s) = Vec("in", s)
  <2> DEFINE d == DecodeWord(s)
             Fold == FoldLeft(LAMBDA r, i : Then(r, DecodeTxIn), Reader(<< >>, d.rest),
                              [i \in 1..d.value |-> i])
  <2>1. Dec("ins", s) = IF ~d.ok \/ d.value > Len(d.rest) THEN Failed ELSE Fold
    BY DEF Dec, DecodeVec, FoldLeft, MapThenFoldSet, Then
  <2>2. Fold = Many("in", d.rest, d.value)
    BY FoldTxIn
  <2> HIDE DEF Fold
  <2> QED BY <2>1, <2>2 DEF Vec
<1>2. ASSUME NEW v PROVE Enc("ins", v) = VecCode("in", v)
  <2>1. \A x : Enc("in", x) = EncodeTxIn(x)
    BY DEF Enc
  <2>2. Enc("ins", v) = <<Len(v)>> \o FlattenSeq([n \in DOMAIN v |-> EncodeTxIn(v[n])])
    BY DEF Enc, EncodeVec
  <2> QED BY <2>1, <2>2 DEF VecCode, Flat
<1>3. Of("ins") = Seq(Of("in"))
  BY DEF Of
<1> QED BY <1>1, <1>2, <1>3, VectorKind

LEMMA FoldTxOut ==
  ASSUME NEW s, NEW n
  PROVE  FoldLeft(LAMBDA r, i : Then(r, DecodeTxOut), Reader(<< >>, s), [i \in 1..n |-> i])
           = Many("out", s, n)
<1> DEFINE b == Reader(<< >>, s)
           D == DOMAIN [i \in 1..n |-> i]
           T(r) == Then(r, DecodeTxOut)
           P(g) == g = [t \in SUBSET D |-> IF t = {} THEN b ELSE T(g[t \ {Max(t)}])]
           Q(g) == g = [t \in SUBSET D |->
                          IF t = {} THEN b ELSE NextOf("out", g[t \ {Max(t)}])]
<1>1. FoldLeft(LAMBDA r, i : Then(r, DecodeTxOut), b, [i \in 1..n |-> i])
        = (CHOOSE g : P(g))[D]
  BY DEF FoldLeft, MapThenFoldSet, Then
<1>2. Many("out", s, n) = (CHOOSE g : Q(g))[D]
  BY DEF Many, FoldLeft, MapThenFoldSet
<1>3. \A r : T(r) = NextOf("out", r)
  BY DEF Then, NextOf, Dec
<1> HIDE DEF T, D, b
<1>4. \A g : P(g) <=> Q(g)
  BY <1>3
<1> HIDE DEF P, Q
<1>5. (CHOOSE g : P(g)) = (CHOOSE g : Q(g))
  BY <1>4
<1> QED BY <1>1, <1>2, <1>5 DEF b

LEMMA TxOutVectors ==
  ASSUME Good("out"), Solid("out") PROVE Good("outs")
<1>1. ASSUME NEW s PROVE Dec("outs", s) = Vec("out", s)
  <2> DEFINE d == DecodeWord(s)
             Fold == FoldLeft(LAMBDA r, i : Then(r, DecodeTxOut), Reader(<< >>, d.rest),
                              [i \in 1..d.value |-> i])
  <2>1. Dec("outs", s) = IF ~d.ok \/ d.value > Len(d.rest) THEN Failed ELSE Fold
    BY DEF Dec, DecodeVec, FoldLeft, MapThenFoldSet, Then
  <2>2. Fold = Many("out", d.rest, d.value)
    BY FoldTxOut
  <2> HIDE DEF Fold
  <2> QED BY <2>1, <2>2 DEF Vec
<1>2. ASSUME NEW v PROVE Enc("outs", v) = VecCode("out", v)
  <2>1. \A x : Enc("out", x) = EncodeTxOut(x)
    BY DEF Enc
  <2>2. Enc("outs", v) = <<Len(v)>> \o FlattenSeq([n \in DOMAIN v |-> EncodeTxOut(v[n])])
    BY DEF Enc, EncodeVec
  <2> QED BY <2>1, <2>2 DEF VecCode, Flat
<1>3. Of("outs") = Seq(Of("out"))
  BY DEF Of
<1> QED BY <1>1, <1>2, <1>3, VectorKind

LEMMA FoldTx ==
  ASSUME NEW s, NEW n
  PROVE  FoldLeft(LAMBDA r, i : Then(r, DecodeTx), Reader(<< >>, s), [i \in 1..n |-> i])
           = Many("tx", s, n)
<1> DEFINE b == Reader(<< >>, s)
           D == DOMAIN [i \in 1..n |-> i]
           T(r) == Then(r, DecodeTx)
           P(g) == g = [t \in SUBSET D |-> IF t = {} THEN b ELSE T(g[t \ {Max(t)}])]
           Q(g) == g = [t \in SUBSET D |->
                          IF t = {} THEN b ELSE NextOf("tx", g[t \ {Max(t)}])]
<1>1. FoldLeft(LAMBDA r, i : Then(r, DecodeTx), b, [i \in 1..n |-> i])
        = (CHOOSE g : P(g))[D]
  BY DEF FoldLeft, MapThenFoldSet, Then
<1>2. Many("tx", s, n) = (CHOOSE g : Q(g))[D]
  BY DEF Many, FoldLeft, MapThenFoldSet
<1>3. \A r : T(r) = NextOf("tx", r)
  BY DEF Then, NextOf, Dec
<1> HIDE DEF T, D, b
<1>4. \A g : P(g) <=> Q(g)
  BY <1>3
<1> HIDE DEF P, Q
<1>5. (CHOOSE g : P(g)) = (CHOOSE g : Q(g))
  BY <1>4
<1> QED BY <1>1, <1>2, <1>5 DEF b

LEMMA TxVectors ==
  ASSUME Good("tx"), Solid("tx") PROVE Good("txs")
<1>1. ASSUME NEW s PROVE Dec("txs", s) = Vec("tx", s)
  <2> DEFINE d == DecodeWord(s)
             Fold == FoldLeft(LAMBDA r, i : Then(r, DecodeTx), Reader(<< >>, d.rest),
                              [i \in 1..d.value |-> i])
  <2>1. Dec("txs", s) = IF ~d.ok \/ d.value > Len(d.rest) THEN Failed ELSE Fold
    BY DEF Dec, DecodeVec, FoldLeft, MapThenFoldSet, Then
  <2>2. Fold = Many("tx", d.rest, d.value)
    BY FoldTx
  <2> HIDE DEF Fold
  <2> QED BY <2>1, <2>2 DEF Vec
<1>2. ASSUME NEW v PROVE Enc("txs", v) = VecCode("tx", v)
  <2>1. \A x : Enc("tx", x) = EncodeTx(x)
    BY DEF Enc
  <2>2. Enc("txs", v) = <<Len(v)>> \o FlattenSeq([n \in DOMAIN v |-> EncodeTx(v[n])])
    BY DEF Enc, EncodeVec
  <2> QED BY <2>1, <2>2 DEF VecCode, Flat
<1>3. Of("txs") = Seq(Of("tx"))
  BY DEF Of
<1> QED BY <1>1, <1>2, <1>3, VectorKind

LEMMA AppendIs ==
  ASSUME NEW S, NEW s \in Seq(S), NEW x \in S, NEW t \in Seq(S), Len(t) = Len(s) + 1,
         t[Len(s) + 1] = x, \A i \in 1..Len(s) : t[i] = s[i]
  PROVE  Append(s, x) = t
<1> DEFINE a == Append(s, x)
<1>1. /\ a \in Seq(S) /\ Len(a) = Len(s) + 1 /\ \A i \in 1..Len(s) : a[i] = s[i]
      /\ a[Len(s) + 1] = x /\ Len(s) \in Nat
  BY AppendProperties, LenProperties
<1> HIDE DEF a
<1>2. \A i \in 1..Len(a) : a[i] = t[i]
  <2> SUFFICES ASSUME NEW i \in 1..Len(a) PROVE a[i] = t[i]
    OBVIOUS
  <2>1. i \in 1..Len(s) \/ i = Len(s) + 1
    BY <1>1
  <2> QED BY <1>1, <2>1
<1> QED BY <1>1, <1>2, SeqEqual DEF a

\* Tuples under names of their own.
None == << >>
Pair(a, b) == <<a, b>>
Quad(a, b, c, d) == <<a, b, c, d>>

\* Its conjuncts by name.
TuplesAre(a, b, c, d, e) ==
  /\ Append(<< >>, a) = <<a>> /\ Append(<<a>>, b) = <<a, b>>
  /\ Append(<<a, b>>, c) = <<a, b, c>>
  /\ Append(<<a, b, c>>, d) = <<a, b, c, d>>
  /\ Append(<<a, b, c, d>>, e) = <<a, b, c, d, e>>

LEMMA Tuples ==
  ASSUME NEW a, NEW b, NEW c, NEW d, NEW e
  PROVE  TuplesAre(a, b, c, d, e)
<1> DEFINE S == {a, b, c, d, e}
           s1 == <<a>>
           s2 == <<a, b>>
           s3 == <<a, b, c>>
           s4 == <<a, b, c, d>>
           s5 == <<a, b, c, d, e>>
<1>1. s1 \in Seq(S) /\ Len(s1) = 1 /\ s1[1] = a /\ Append(<< >>, a) = s1
  OBVIOUS
<1>2. s2 \in Seq(S) /\ Len(s2) = 2 /\ s2[1] = a /\ s2[2] = b
  OBVIOUS
<1>3. s3 \in Seq(S) /\ Len(s3) = 3 /\ s3[1] = a /\ s3[2] = b /\ s3[3] = c
  OBVIOUS
<1>4. s4 \in Seq(S) /\ Len(s4) = 4 /\ s4[1] = a /\ s4[2] = b /\ s4[3] = c /\ s4[4] = d
  OBVIOUS
<1>5. b \in S /\ c \in S /\ d \in S /\ e \in S
  OBVIOUS
<1>9. s5 \in Seq(S) /\ Len(s5) = 5 /\ s5[1] = a /\ s5[2] = b /\ s5[3] = c /\ s5[4] = d /\ s5[5] = e
  OBVIOUS
<1> HIDE DEF s1, s2, s3, s4, s5, S
<1>6. Append(s1, b) = s2
  <2>1. Len(s2) = Len(s1) + 1 /\ s2[Len(s1) + 1] = b
    BY <1>1, <1>2
  <2>2. \A i \in 1..Len(s1) : s2[i] = s1[i]
    <3> SUFFICES ASSUME NEW i \in 1..Len(s1) PROVE s2[i] = s1[i]
      OBVIOUS
    <3>1. i = 1
      BY <1>1
    <3> QED BY <1>1, <1>2, <3>1
  <2> QED BY <1>1, <1>2, <1>5, <2>1, <2>2, AppendIs
<1>7. Append(s2, c) = s3
  <2>1. Len(s3) = Len(s2) + 1 /\ s3[Len(s2) + 1] = c
    BY <1>2, <1>3
  <2>2. \A i \in 1..Len(s2) : s3[i] = s2[i]
    <3> SUFFICES ASSUME NEW i \in 1..Len(s2) PROVE s3[i] = s2[i]
      OBVIOUS
    <3>1. i = 1 \/ i = 2
      BY <1>2
    <3> QED BY <1>2, <1>3, <3>1
  <2> QED BY <1>2, <1>3, <1>5, <2>1, <2>2, AppendIs
<1>8. Append(s3, d) = s4
  <2>1. Len(s4) = Len(s3) + 1 /\ s4[Len(s3) + 1] = d
    BY <1>3, <1>4
  <2>2. \A i \in 1..Len(s3) : s4[i] = s3[i]
    <3> SUFFICES ASSUME NEW i \in 1..Len(s3) PROVE s4[i] = s3[i]
      OBVIOUS
    <3>1. i = 1 \/ i = 2 \/ i = 3
      BY <1>3
    <3> QED BY <1>3, <1>4, <3>1
  <2> QED BY <1>3, <1>4, <1>5, <2>1, <2>2, AppendIs
<1>10. Append(s4, e) = s5
  <2>1. Len(s5) = Len(s4) + 1 /\ s5[Len(s4) + 1] = e
    BY <1>4, <1>9
  <2>2. \A i \in 1..Len(s4) : s5[i] = s4[i]
    <3> SUFFICES ASSUME NEW i \in 1..Len(s4) PROVE s5[i] = s4[i]
      OBVIOUS
    <3>1. i = 1 \/ i = 2 \/ i = 3 \/ i = 4
      BY <1>4
    <3> QED BY <1>4, <1>9, <3>1
  <2> QED BY <1>4, <1>9, <1>5, <2>1, <2>2, AppendIs
<1> QED BY <1>1, <1>6, <1>7, <1>8, <1>10 DEF s1, s2, s3, s4, s5, TuplesAre

LEMMA Appended ==
  /\ \A a, b : Append(Append(None, a), b) = Pair(a, b)
  /\ \A a, b, c, d : Append(Append(Pair(a, b), c), d) = Quad(a, b, c, d)
<1>1. ASSUME NEW a, NEW b PROVE Append(Append(<< >>, a), b) = <<a, b>>
  <2>1. TuplesAre(a, b, a, a, a)
    BY Tuples
  <2> QED BY <2>1 DEF TuplesAre
<1>2. ASSUME NEW a, NEW b, NEW c, NEW d
      PROVE  Append(Append(<<a, b>>, c), d) = <<a, b, c, d>>
  <2>1. TuplesAre(a, b, c, d, a)
    BY Tuples
  <2> QED BY <2>1 DEF TuplesAre
<1>3. ASSUME NEW a, NEW b PROVE Append(Append(None, a), b) = Pair(a, b)
  BY <1>1 DEF None, Pair
<1>4. ASSUME NEW a, NEW b, NEW c, NEW d
      PROVE  Append(Append(Pair(a, b), c), d) = Quad(a, b, c, d)
  BY <1>2 DEF Pair, Quad
<1> QED BY <1>3, <1>4

\* Four fields in a row, read back and read.
Four(k1, k2, k3, k4, s) == Two(k3, k4, Two(k1, k2, Reader(None, s)))
Code4(k1, k2, k3, k4, a, b, c, d, t) ==
  Enc(k1, a) \o (Enc(k2, b) \o (Enc(k3, c) \o (Enc(k4, d) \o t)))

LEMMA FourReadBack ==
  ASSUME NEW k1, NEW k2, NEW k3, NEW k4, Good(k1), Good(k2), Good(k3), Good(k4),
         NEW a \in Of(k1), NEW b \in Of(k2), NEW c \in Of(k3), NEW d \in Of(k4),
         NEW t \in Stream
  PROVE  Four(k1, k2, k3, k4, Code4(k1, k2, k3, k4, a, b, c, d, t))
           = Reader(Quad(a, b, c, d), t)
<1> DEFINE p == Enc(k3, c)
           q == Enc(k4, d)
           u == p \o (q \o t)
           s == Enc(k1, a) \o (Enc(k2, b) \o u)
<1>1. u \in Stream
  <2>1. p \in Stream /\ q \in Stream
    BY DEF Good
  <2> DEFINE r == q \o t
  <2> HIDE DEF p, q
  <2>2. r \in Stream
    BY <2>1, Joins
  <2> HIDE DEF r
  <2>3. p \o r \in Stream
    BY <2>1, <2>2, Joins
  <2> QED BY <2>3 DEF r
<1>3. Two(k3, k4, Reader(Pair(a, b), u)) = Reader(Append(Append(Pair(a, b), c), d), t)
  BY TwoReadBack
<1>4. Append(Append(None, a), b) = Pair(a, b) /\ Append(Append(Pair(a, b), c), d) = Quad(a, b, c, d)
  BY Appended
<1> HIDE DEF u
<1>5. Two(k1, k2, Reader(None, s)) = Reader(Append(Append(None, a), b), u)
  BY <1>1, TwoReadBack
<1> HIDE DEF s
<1>6. Four(k1, k2, k3, k4, s) = Reader(Quad(a, b, c, d), t)
  BY <1>3, <1>4, <1>5 DEF Four
<1> QED BY <1>6 DEF s, u, Code4

LEMMA FourRead ==
  ASSUME NEW k1, NEW k2, NEW k3, NEW k4, Good(k1), Good(k2), Good(k3), Good(k4),
         NEW s \in Stream, Four(k1, k2, k3, k4, s) # Failed
  PROVE  \E a \in Of(k1), b \in Of(k2), c \in Of(k3), d \in Of(k4), t \in Stream :
           /\ s = Code4(k1, k2, k3, k4, a, b, c, d, t)
           /\ Four(k1, k2, k3, k4, s) = Reader(Quad(a, b, c, d), t)
<1> DEFINE r == Two(k1, k2, Reader(None, s))
<1>1. Two(k3, k4, r) # Failed /\ r # Failed
  BY TwoFail DEF Four
<1>2. PICK a \in Of(k1), b \in Of(k2), u \in Stream :
        /\ s = Enc(k1, a) \o (Enc(k2, b) \o u)
        /\ r = Reader(Append(Append(None, a), b), u)
  <2>1. TwoAre(k1, k2, None, s)
    BY <1>1, TwoRead
  <2> QED BY <2>1 DEF TwoAre
<1>3. r = Reader(Pair(a, b), u)
  BY <1>2, Appended
<1> DEFINE q == Two(k3, k4, Reader(Pair(a, b), u))
<1>4. q # Failed
  <2> HIDE DEF r
  <2> QED BY <1>1, <1>3
<1>5. PICK c \in Of(k3), d \in Of(k4), t \in Stream :
        /\ u = Enc(k3, c) \o (Enc(k4, d) \o t)
        /\ q = Reader(Append(Append(Pair(a, b), c), d), t)
  <2>1. TwoAre(k3, k4, Pair(a, b), u)
    BY <1>4, TwoRead
  <2> QED BY <2>1 DEF TwoAre
<1>6. q = Reader(Quad(a, b, c, d), t)
  BY <1>5, Appended
<1>7. Four(k1, k2, k3, k4, s) = q
  BY <1>3 DEF Four
<1> HIDE DEF q
<1>8. Four(k1, k2, k3, k4, s) = Reader(Quad(a, b, c, d), t)
  BY <1>6, <1>7
<1>9. s = Code4(k1, k2, k3, k4, a, b, c, d, t)
  BY <1>2, <1>5 DEF Code4
<1> QED BY <1>8, <1>9

Code4Of(k1, k2, k3, k4, a, b, c, d) ==
  ((Enc(k1, a) \o Enc(k2, b)) \o Enc(k3, c)) \o Enc(k4, d)

Coded4(k1, k2, k3, k4, a, b, c, d) ==
  /\ Code4Of(k1, k2, k3, k4, a, b, c, d) \in Stream
  /\ \A t \in Stream : /\ Code4Of(k1, k2, k3, k4, a, b, c, d) \o t
                            = Code4(k1, k2, k3, k4, a, b, c, d, t)
                       /\ Code4(k1, k2, k3, k4, a, b, c, d, t) \in Stream

LEMMA FourCode ==
  ASSUME NEW k1, NEW k2, NEW k3, NEW k4, Good(k1), Good(k2), Good(k3), Good(k4),
         NEW a \in Of(k1), NEW b \in Of(k2), NEW c \in Of(k3), NEW d \in Of(k4)
  PROVE  Coded4(k1, k2, k3, k4, a, b, c, d)
<1> DEFINE ea == Enc(k1, a)
           eb == Enc(k2, b)
           ec == Enc(k3, c)
           ed == Enc(k4, d)
<1>1. ea \in Stream /\ eb \in Stream /\ ec \in Stream /\ ed \in Stream
  BY DEF Good
<1> HIDE DEF ea, eb, ec, ed
<1>2. ASSUME NEW t \in Stream PROVE AllJoined(ea, eb, ec, ed, t)
  BY <1>1, FourJoined
<1>3. AllJoined(ea, eb, ec, ed, << >>)
  BY <1>2, JoinsNone
<1>4. Code4Of(k1, k2, k3, k4, a, b, c, d) = ((ea \o eb) \o ec) \o ed
  BY DEF Code4Of, ea, eb, ec, ed
<1>5. ASSUME NEW t
      PROVE  Code4(k1, k2, k3, k4, a, b, c, d, t) = ea \o (eb \o (ec \o (ed \o t)))
  BY DEF Code4, ea, eb, ec, ed
<1> QED BY <1>2, <1>3, <1>4, <1>5 DEF AllJoined, Coded4

\* A structure of four fields.
Fields4(k1, k2, k3, k4, l) ==
  /\ Of(l) = Of(k1) \X Of(k2) \X Of(k3) \X Of(k4)
  /\ \A a \in Of(k1), b \in Of(k2), c \in Of(k3), d \in Of(k4) :
       Enc(l, Quad(a, b, c, d)) = Code4Of(k1, k2, k3, k4, a, b, c, d)
LEMMA FourFields ==
  ASSUME NEW k1, NEW k2, NEW k3, NEW k4, Good(k1), Good(k2), Good(k3), Good(k4),
         NEW l, Fields4(k1, k2, k3, k4, l),
         \A s : Dec(l, s) = Four(k1, k2, k3, k4, s)
  PROVE  Good(l)
<1>1. ASSUME NEW a \in Of(k1), NEW b \in Of(k2), NEW c \in Of(k3), NEW d \in Of(k4)
      PROVE  /\ Quad(a, b, c, d) \in Of(l)
             /\ Enc(l, Quad(a, b, c, d)) \in Stream
             /\ \A t \in Stream : Enc(l, Quad(a, b, c, d)) \o t
                                    = Code4(k1, k2, k3, k4, a, b, c, d, t)
  <2>1. Quad(a, b, c, d) \in Of(l)
    BY DEF Quad, Fields4
  <2>2. Enc(l, Quad(a, b, c, d)) = Code4Of(k1, k2, k3, k4, a, b, c, d)
    BY DEF Fields4
  <2>3. Coded4(k1, k2, k3, k4, a, b, c, d)
    BY FourCode
  <2> QED BY <2>1, <2>2, <2>3 DEF Coded4
<1>2. \A v \in Of(l) : /\ v[1] \in Of(k1) /\ v[2] \in Of(k2) /\ v[3] \in Of(k3) /\ v[4] \in Of(k4)
                       /\ v = Quad(v[1], v[2], v[3], v[4])
  BY DEF Quad, Fields4
<1>3. \A v \in Of(l) : Enc(l, v) \in Stream
  BY <1>1, <1>2
<1>4. ASSUME NEW a \in Of(k1), NEW b \in Of(k2), NEW c \in Of(k3), NEW d \in Of(k4),
             NEW t \in Stream
      PROVE  Dec(l, Enc(l, Quad(a, b, c, d)) \o t) = Reader(Quad(a, b, c, d), t)
  <2> DEFINE s == Code4(k1, k2, k3, k4, a, b, c, d, t)
  <2>1. Four(k1, k2, k3, k4, s) = Reader(Quad(a, b, c, d), t)
    BY FourReadBack
  <2>2. Enc(l, Quad(a, b, c, d)) \o t = s
    BY <1>1
  <2> HIDE DEF s
  <2> QED BY <2>1, <2>2
<1>5. \A v \in Of(l), t \in Stream : Dec(l, Enc(l, v) \o t) = Reader(v, t)
  BY <1>2, <1>4
<1>6. ASSUME NEW s \in Stream PROVE ReadBy(l, s)
  <2>1. CASE Dec(l, s) = Failed
    BY <2>1 DEF ReadBy
  <2>2. CASE Dec(l, s) # Failed
    <3>1. Four(k1, k2, k3, k4, s) # Failed
      BY <2>2
    <3>2. PICK a \in Of(k1), b \in Of(k2), c \in Of(k3), d \in Of(k4), t \in Stream :
            /\ s = Code4(k1, k2, k3, k4, a, b, c, d, t)
            /\ Four(k1, k2, k3, k4, s) = Reader(Quad(a, b, c, d), t)
      BY <3>1, FourRead
    <3> DEFINE v == Quad(a, b, c, d)
    <3>3. v \in Of(l) /\ s = Enc(l, v) \o t
      BY <1>1, <3>2
    <3>4. Dec(l, s) = Reader(v, t)
      BY <3>2
    <3> HIDE DEF v
    <3> QED BY <3>3, <3>4 DEF ReadBy
  <2> QED BY <2>1, <2>2
<1> QED BY <1>3, <1>5, <1>6 DEF Good

\* And of two.
LEMMA TwoFields ==
  ASSUME NEW k1, NEW k2, Good(k1), Good(k2), NEW l, Of(l) = Of(k1) \X Of(k2),
         \A a \in Of(k1), b \in Of(k2) : Enc(l, Pair(a, b)) = Enc(k1, a) \o Enc(k2, b),
         \A s : Dec(l, s) = Two(k1, k2, Reader(None, s))
  PROVE  Good(l)
<1>1. ASSUME NEW a \in Of(k1), NEW b \in Of(k2)
      PROVE  /\ Pair(a, b) \in Of(l)
             /\ Enc(l, Pair(a, b)) \in Stream
             /\ \A t \in Stream : Enc(l, Pair(a, b)) \o t = Enc(k1, a) \o (Enc(k2, b) \o t)
  <2> DEFINE ea == Enc(k1, a)
             eb == Enc(k2, b)
  <2>1. Pair(a, b) \in Of(l)
    BY DEF Pair
  <2>2. Enc(l, Pair(a, b)) = ea \o eb
    OBVIOUS
  <2>3. ea \in Stream /\ eb \in Stream
    BY DEF Good
  <2> HIDE DEF ea, eb
  <2>4. ea \o eb \in Stream /\ \A t \in Stream : (ea \o eb) \o t = ea \o (eb \o t)
    BY <2>3, Joins, JoinsThree
  <2> QED BY <2>1, <2>2, <2>4 DEF ea, eb
<1>2. \A v \in Of(l) : v[1] \in Of(k1) /\ v[2] \in Of(k2) /\ v = Pair(v[1], v[2])
  BY DEF Pair
<1>3. \A v \in Of(l) : Enc(l, v) \in Stream
  BY <1>1, <1>2
<1>4. ASSUME NEW a \in Of(k1), NEW b \in Of(k2), NEW t \in Stream
      PROVE  Dec(l, Enc(l, Pair(a, b)) \o t) = Reader(Pair(a, b), t)
  <2> DEFINE s == Enc(k1, a) \o (Enc(k2, b) \o t)
  <2>1. Enc(l, Pair(a, b)) \o t = s
    BY <1>1
  <2>2. Two(k1, k2, Reader(None, s)) = Reader(Append(Append(None, a), b), t)
    BY TwoReadBack
  <2> HIDE DEF s
  <2> QED BY <2>1, <2>2, Appended
<1>5. \A v \in Of(l), t \in Stream : Dec(l, Enc(l, v) \o t) = Reader(v, t)
  BY <1>2, <1>4
<1>6. ASSUME NEW s \in Stream PROVE ReadBy(l, s)
  <2>1. CASE Dec(l, s) = Failed
    BY <2>1 DEF ReadBy
  <2>2. CASE Dec(l, s) # Failed
    <3>1. Two(k1, k2, Reader(None, s)) # Failed
      BY <2>2
    <3>2. PICK a \in Of(k1), b \in Of(k2), t \in Stream :
            /\ s = Enc(k1, a) \o (Enc(k2, b) \o t)
            /\ Two(k1, k2, Reader(None, s)) = Reader(Append(Append(None, a), b), t)
      <4>1. TwoAre(k1, k2, None, s)
        BY <3>1, TwoRead
      <4> QED BY <4>1 DEF TwoAre
    <3> DEFINE v == Pair(a, b)
    <3>3. v \in Of(l) /\ s = Enc(l, v) \o t
      BY <1>1, <3>2
    <3>4. Dec(l, s) = Reader(v, t)
      BY <3>2, Appended
    <3> HIDE DEF v
    <3> QED BY <3>3, <3>4 DEF ReadBy
  <2> QED BY <2>1, <2>2
<1> QED BY <1>3, <1>5, <1>6 DEF Good

LEMMA TxOutDec == ASSUME NEW s PROVE DecodeTxOut(s) = Two("word", "script", Reader(None, s))
<1> DEFINE W(r) == Then(r, DecodeWord)
           S(r) == Then(r, DecodeScript)
<1>1. DecodeTxOut(s) = S(W(Reader(None, s)))
  BY DEF DecodeTxOut, None
<1>2. \A r : W(r) = NextOf("word", r)
  BY DEF Then, NextOf, Dec
<1>3. \A r : S(r) = NextOf("script", r)
  BY DEF Then, NextOf, Dec
<1> HIDE DEF W, S
<1> QED BY <1>1, <1>2, <1>3 DEF Two

LEMMA TxInDec == ASSUME NEW s PROVE DecodeTxIn(s) = Four("word", "word", "script", "word", s)
<1> DEFINE W(r) == Then(r, DecodeWord)
           S(r) == Then(r, DecodeScript)
<1>1. DecodeTxIn(s) = W(S(W(W(Reader(None, s)))))
  BY DEF DecodeTxIn, None
<1>2. \A r : W(r) = NextOf("word", r)
  BY DEF Then, NextOf, Dec
<1>3. \A r : S(r) = NextOf("script", r)
  BY DEF Then, NextOf, Dec
<1> HIDE DEF W, S
<1> QED BY <1>1, <1>2, <1>3 DEF Two, Four

LEMMA TxDec == ASSUME NEW s PROVE DecodeTx(s) = Four("word", "ins", "outs", "word", s)
<1> DEFINE W(r) == Then(r, DecodeWord)
           I(r) == Then(r, LAMBDA rest : DecodeVec(rest, DecodeTxIn))
           O(r) == Then(r, LAMBDA rest : DecodeVec(rest, DecodeTxOut))
<1>1. DecodeTx(s) = W(O(I(W(Reader(None, s)))))
  BY DEF DecodeTx, None
<1>2. \A r : W(r) = NextOf("word", r)
  BY DEF Then, NextOf, Dec
<1>3. \A r : I(r) = NextOf("ins", r)
  BY DEF Then, NextOf, Dec
<1>4. \A r : O(r) = NextOf("outs", r)
  BY DEF Then, NextOf, Dec
<1> HIDE DEF W, I, O
<1> QED BY <1>1, <1>2, <1>3, <1>4 DEF Two, Four

LEMMA BranchDec == ASSUME NEW s PROVE DecodeBranch(s) = Two("script", "word", Reader(None, s))
<1> DEFINE W(r) == Then(r, DecodeWord)
           H(r) == Then(r, LAMBDA rest : DecodeVec(rest, DecodeWord))
<1>1. DecodeBranch(s) = W(H(Reader(None, s)))
  BY DEF DecodeBranch, None
<1>2. \A r : W(r) = NextOf("word", r)
  BY DEF Then, NextOf, Dec
<1>3. \A r : H(r) = NextOf("script", r)
  BY DEF Then, NextOf, Dec, DecodeScript
<1> HIDE DEF W, H
<1> QED BY <1>1, <1>2, <1>3 DEF Two

LEMMA MerkleDec ==
  ASSUME NEW s
  PROVE  DecodeMerkleTx(s) = NextOf("header", Four("tx", "word", "branch", "branch", s))
<1> DEFINE X(r) == Then(r, DecodeTx)
           W(r) == Then(r, DecodeWord)
           B(r) == Then(r, DecodeBranch)
           H(r) == Then(r, DecodeHeader)
<1>1. DecodeMerkleTx(s) = H(B(B(W(X(Reader(None, s))))))
  BY DEF DecodeMerkleTx, None
<1>2. \A r : X(r) = NextOf("tx", r)
  BY DEF Then, NextOf, Dec
<1>3. \A r : W(r) = NextOf("word", r)
  BY DEF Then, NextOf, Dec
<1>4. \A r : B(r) = NextOf("branch", r)
  BY DEF Then, NextOf, Dec
<1>5. \A r : H(r) = NextOf("header", r)
  BY DEF Then, NextOf, Dec
<1> HIDE DEF X, W, B, H
<1> QED BY <1>1, <1>2, <1>3, <1>4, <1>5 DEF Two, Four

LEMMA Longer ==
  ASSUME NEW s \in Stream, NEW t \in Stream, s # << >>
  PROVE  s \o t \in Stream /\ s \o t # << >>
<1>1. Len(s) \in Nat \ {0} /\ Len(t) \in Nat
  BY EmptySeq, LenProperties DEF Stream
<1>2. s \o t \in Stream /\ Len(s \o t) = Len(s) + Len(t)
  BY Joins
<1>3. Len(s \o t) # 0
  BY <1>1, <1>2
<1> QED BY <1>2, <1>3, JoinsNone

\* A structure that begins with something that is not empty is not empty.
LEMMA FourSolid ==
  ASSUME NEW k1, NEW k2, NEW k3, NEW k4, Good(k1), Good(k2), Good(k3), Good(k4),
         NEW l, Fields4(k1, k2, k3, k4, l), Solid(k1)
  PROVE  Solid(l)
<1>1. ASSUME NEW a \in Of(k1), NEW b \in Of(k2), NEW c \in Of(k3), NEW d \in Of(k4)
      PROVE  Enc(l, Quad(a, b, c, d)) # << >>
  <2> DEFINE ea == Enc(k1, a)
             eb == Enc(k2, b)
             ec == Enc(k3, c)
             ed == Enc(k4, d)
             ab == ea \o eb
             abc == ab \o ec
  <2>1. ea \in Stream /\ eb \in Stream /\ ec \in Stream /\ ed \in Stream /\ ea # << >>
    BY DEF Good, Solid
  <2>2. Enc(l, Quad(a, b, c, d)) = abc \o ed
    BY DEF Code4Of, Fields4
  <2> HIDE DEF ea, eb, ec, ed
  <2>3. ab \in Stream /\ ab # << >>
    BY <2>1, Longer
  <2> HIDE DEF ab
  <2>4. abc \in Stream /\ abc # << >>
    BY <2>1, <2>3, Longer
  <2> HIDE DEF abc
  <2>5. abc \o ed # << >>
    BY <2>1, <2>4, Longer
  <2> QED BY <2>2, <2>5
<1>2. \A v \in Of(l) : /\ v[1] \in Of(k1) /\ v[2] \in Of(k2) /\ v[3] \in Of(k3) /\ v[4] \in Of(k4)
                       /\ v = Quad(v[1], v[2], v[3], v[4])
  BY DEF Quad, Fields4
<1> QED BY <1>1, <1>2 DEF Solid

LEMMA TwoSolid ==
  ASSUME NEW k1, NEW k2, Good(k1), Good(k2), NEW l, Of(l) = Of(k1) \X Of(k2), Solid(k1),
         \A a \in Of(k1), b \in Of(k2) : Enc(l, Pair(a, b)) = Enc(k1, a) \o Enc(k2, b)
  PROVE  Solid(l)
<1>1. ASSUME NEW a \in Of(k1), NEW b \in Of(k2) PROVE Enc(l, Pair(a, b)) # << >>
  <2> DEFINE ea == Enc(k1, a)
             eb == Enc(k2, b)
  <2>1. ea \in Stream /\ eb \in Stream /\ ea # << >>
    BY DEF Good, Solid
  <2>2. Enc(l, Pair(a, b)) = ea \o eb
    OBVIOUS
  <2> HIDE DEF ea, eb
  <2>3. ea \o eb # << >>
    BY <2>1, Longer
  <2> QED BY <2>2, <2>3
<1>2. \A v \in Of(l) : v[1] \in Of(k1) /\ v[2] \in Of(k2) /\ v = Pair(v[1], v[2])
  BY DEF Pair
<1> QED BY <1>1, <1>2 DEF Solid

LEMMA ScriptGood == Good("script")
  BY WordGood, WordSolid, WordVectors

LEMMA TxInCode ==
  ASSUME NEW a \in Of("word"), NEW b \in Of("word"), NEW c \in Of("script"), NEW d \in Of("word")
  PROVE  Enc("in", Quad(a, b, c, d)) = Code4Of("word", "word", "script", "word", a, b, c, d)
<1> DEFINE sc == EncodeScript(c)
<1>1. Enc("in", Quad(a, b, c, d)) = (<<a, b>> \o sc) \o <<d>>
  BY DEF Enc, EncodeTxIn, Quad
<1>2. Code4Of("word", "word", "script", "word", a, b, c, d) = ((<<a>> \o <<b>>) \o sc) \o <<d>>
  BY DEF Code4Of, Enc, Word
<1>3. <<a>> \o <<b>> = <<a, b>>
  <2>1. TuplesAre(a, b, a, a, a)
    BY Tuples
  <2>2. Append(<<a>>, b) = <<a>> \o <<b>>
    <3> DEFINE S == {a, b}
               p == <<a>>
    <3>1. p \in Seq(S) /\ b \in S
      OBVIOUS
    <3> HIDE DEF p, S
    <3>2. Append(p, b) = p \o <<b>>
      BY <3>1, AppendIsConcat
    <3> QED BY <3>2 DEF p
  <2> QED BY <2>1, <2>2 DEF TuplesAre
<1> HIDE DEF sc
<1> QED BY <1>1, <1>2, <1>3

LEMMA TxInGood == Good("in") /\ Solid("in")
<1>1. Of("in") = Of("word") \X Of("word") \X Of("script") \X Of("word")
  BY DEF Of, TxIns
<1>2. \A s : Dec("in", s) = Four("word", "word", "script", "word", s)
  <2>1. \A s : Dec("in", s) = DecodeTxIn(s)
    BY DEF Dec
  <2> QED BY <2>1, TxInDec
<1>3. \A a \in Of("word"), b \in Of("word"), c \in Of("script"), d \in Of("word") :
        Enc("in", Quad(a, b, c, d)) = Code4Of("word", "word", "script", "word", a, b, c, d)
  BY TxInCode
<1>4. Fields4("word", "word", "script", "word", "in")
  BY <1>1, <1>3 DEF Fields4
<1> QED BY <1>2, <1>4, WordGood, WordSolid, ScriptGood, FourFields, FourSolid

LEMMA TxOutGood == Good("out") /\ Solid("out")
<1>1. Of("out") = Of("word") \X Of("script")
  BY DEF Of, TxOuts
<1>2. \A s : Dec("out", s) = Two("word", "script", Reader(None, s))
  <2>1. \A s : Dec("out", s) = DecodeTxOut(s)
    BY DEF Dec
  <2> QED BY <2>1, TxOutDec
<1>3. \A a \in Of("word"), b \in Of("script") :
        Enc("out", Pair(a, b)) = Enc("word", a) \o Enc("script", b)
  BY DEF Enc, Pair, EncodeTxOut, Word
<1>4. Good("out")
  BY <1>1, <1>2, <1>3, WordGood, ScriptGood, TwoFields
<1>5. Solid("out")
  BY <1>1, <1>3, WordGood, WordSolid, ScriptGood, TwoSolid
<1> QED BY <1>4, <1>5

LEMMA TxGood == Good("tx") /\ Solid("tx")
<1>1. Of("tx") = Of("word") \X Of("ins") \X Of("outs") \X Of("word")
  BY DEF Of, Transactions
<1>2. \A s : Dec("tx", s) = Four("word", "ins", "outs", "word", s)
  <2>1. \A s : Dec("tx", s) = DecodeTx(s)
    BY DEF Dec
  <2> QED BY <2>1, TxDec
<1>3. \A a \in Of("word"), b \in Of("ins"), c \in Of("outs"), d \in Of("word") :
        Enc("tx", Quad(a, b, c, d)) = Code4Of("word", "ins", "outs", "word", a, b, c, d)
  <2> SUFFICES ASSUME NEW a \in Of("word"), NEW b \in Of("ins"), NEW c \in Of("outs"),
                      NEW d \in Of("word")
      PROVE  Enc("tx", Quad(a, b, c, d)) = Code4Of("word", "ins", "outs", "word", a, b, c, d)
    OBVIOUS
  <2> DEFINE v == Quad(a, b, c, d)
  <2>1. v[1] = a /\ v[2] = b /\ v[3] = c /\ v[4] = d
    BY DEF Quad
  <2> HIDE DEF v
  <2>2. Enc("tx", v) = ((<<v[1]>> \o Enc("ins", v[2])) \o Enc("outs", v[3])) \o <<v[4]>>
    BY DEF Enc, EncodeTx
  <2>3. Code4Of("word", "ins", "outs", "word", a, b, c, d) =
          ((<<a>> \o Enc("ins", b)) \o Enc("outs", c)) \o <<d>>
    <3>1. Enc("word", a) = <<a>> /\ Enc("word", d) = <<d>>
      BY DEF Enc, Word
    <3> QED BY <3>1 DEF Code4Of
  <2> QED BY <2>1, <2>2, <2>3 DEF v
<1>4. Good("ins") /\ Good("outs")
  BY TxInGood, TxOutGood, TxInVectors, TxOutVectors
<1>5. Fields4("word", "ins", "outs", "word", "tx")
  BY <1>1, <1>3 DEF Fields4
<1> QED BY <1>2, <1>4, <1>5, WordGood, WordSolid, FourFields, FourSolid

LEMMA TxsGood == Good("txs")
  BY TxGood, TxVectors

LEMMA BranchGood == Good("branch")
<1>1. Of("branch") = Of("script") \X Of("word")
  BY DEF Of, Branches
<1>2. \A s : Dec("branch", s) = Two("script", "word", Reader(None, s))
  <2>1. \A s : Dec("branch", s) = DecodeBranch(s)
    BY DEF Dec
  <2> QED BY <2>1, BranchDec
<1>3. \A a \in Of("script"), b \in Of("word") :
        Enc("branch", Pair(a, b)) = Enc("script", a) \o Enc("word", b)
  <2> SUFFICES ASSUME NEW a, NEW b
               PROVE  Enc("branch", Pair(a, b)) = Enc("script", a) \o Enc("word", b)
    OBVIOUS
  <2> DEFINE v == Pair(a, b)
  <2>1. v[1] = a /\ v[2] = b
    BY DEF Pair
  <2> HIDE DEF v
  <2>2. Enc("branch", v) = Enc("script", v[1]) \o <<v[2]>>
    BY DEF Enc, EncodeBranch, EncodeScript
  <2>3. Enc("word", b) = <<b>>
    BY DEF Enc, Word
  <2> QED BY <2>1, <2>2, <2>3 DEF v
<1> QED BY <1>1, <1>2, <1>3, WordGood, ScriptGood, TwoFields

-----------------------------------------------------------------------------
(* Headers: six words *)

LEMMA FlatWords == ASSUME NEW v \in Stream PROVE Flat("word", v) = v
<1> DEFINE G == {m \in Nat : \A w \in Stream : Len(w) = m => Flat("word", w) = w}
<1>0. Of("word") = Nat /\ \A x : Enc("word", x) = <<x>>
  BY DEF Of, Enc, Word
<1>1. 0 \in G
  <2> SUFFICES ASSUME NEW w \in Stream, Len(w) = 0 PROVE Flat("word", w) = w
    OBVIOUS
  <2>1. w = << >>
    BY EmptySeq DEF Stream
  <2> QED BY <2>1, FlatNone
<1>2. ASSUME NEW m \in Nat, m \in G PROVE m + 1 \in G
  <2> SUFFICES ASSUME NEW w \in Stream, Len(w) = m + 1 PROVE Flat("word", w) = w
    OBVIOUS
  <2>1. w # << >>
    BY EmptySeq
  <2>2. PICK u \in Seq(Nat), x \in Nat : w = Append(u, x)
    BY <2>1, SequenceEmptyOrAppend DEF Stream
  <2>3. Len(u) = m
    <3>1. Len(w) = Len(u) + 1 /\ Len(u) \in Nat
      BY <2>2, AppendProperties, LenProperties
    <3> QED BY <3>1
  <2>4. Flat("word", u) = u /\ u \in Stream
    BY <1>2, <2>3 DEF Stream
  <2>5. Flat("word", w) = u \o <<x>>
    <3>1. u \in Seq(Of("word")) /\ x \in Of("word") /\ Flat("word", u) \in Stream
      BY <1>0, <2>4
    <3>2. Flat("word", Append(u, x)) = Flat("word", u) \o Enc("word", x)
      BY <3>1, WordGood, FlatAppend
    <3> QED BY <1>0, <2>2, <2>4, <3>2
  <2>6. Append(u, x) = u \o <<x>>
    BY AppendIsConcat
  <2> QED BY <2>2, <2>5, <2>6
<1>3. Len(v) \in G
  <2>1. Len(v) \in Nat
    BY LenProperties DEF Stream
  <2>2. \A i \in 1..Len(v) : i - 1 \in G => i \in G
    <3> SUFFICES ASSUME NEW i \in 1..Len(v), i - 1 \in G PROVE i \in G
      OBVIOUS
    <3>1. i - 1 \in Nat /\ (i - 1) + 1 = i
      BY <2>1
    <3> HIDE DEF G
    <3>2. (i - 1) + 1 \in G
      BY <1>2, <3>1
    <3> QED BY <3>1, <3>2
  <2> HIDE DEF G
  <2> QED BY <1>1, <2>1, <2>2, Climb
<1> QED BY <1>3

LEMMA HeadersAre ==
  /\ \A v \in Headers : v \in Stream /\ Len(v) = 6
  /\ \A v \in Stream : Len(v) = 6 => v \in Headers
<1>1. ASSUME NEW v \in Headers PROVE v \in Stream /\ Len(v) = 6
  <2> DEFINE w == <<v[1], v[2], v[3], v[4], v[5], v[6]>>
  <2>1. v = w /\ v[1] \in Nat /\ v[2] \in Nat /\ v[3] \in Nat /\ v[4] \in Nat /\ v[5] \in Nat
        /\ v[6] \in Nat
    BY DEF Headers
  <2>2. w \in Stream /\ Len(w) = 6
    BY <2>1 DEF Stream
  <2> HIDE DEF w
  <2> QED BY <2>1, <2>2
<1>2. ASSUME NEW v \in Stream, Len(v) = 6 PROVE v \in Headers
  <2> DEFINE w == <<v[1], v[2], v[3], v[4], v[5], v[6]>>
  <2>1. \A i \in 1..6 : v[i] \in Nat
    BY <1>2, ElementOfSeq DEF Stream
  <2>2. v[1] \in Nat /\ v[2] \in Nat /\ v[3] \in Nat /\ v[4] \in Nat /\ v[5] \in Nat /\ v[6] \in Nat
    BY <2>1
  <2>3. w \in Headers /\ w \in Stream /\ Len(w) = 6
    BY <2>2, SMTT(30) DEF Headers, Stream
  <2>4. /\ w[1] = v[1] /\ w[2] = v[2] /\ w[3] = v[3]
        /\ w[4] = v[4] /\ w[5] = v[5] /\ w[6] = v[6]
    OBVIOUS
  <2> HIDE DEF w
  <2>5. \A i \in 1..Len(v) : v[i] = w[i]
    <3> SUFFICES ASSUME NEW i \in 1..Len(v) PROVE v[i] = w[i]
      OBVIOUS
    <3>1. i = 1 \/ i = 2 \/ i = 3 \/ i = 4 \/ i = 5 \/ i = 6
      BY <1>2
    <3> QED BY <2>4, <3>1
  <2>6. v = w
    BY <1>2, <2>3, <2>5, SeqEqual DEF Stream
  <2> QED BY <2>3, <2>6
<1> QED BY <1>1, <1>2

LEMMA HeaderGood == Good("header")
<1>1. \A s : Dec("header", s) = Many("word", s, 6)
  <2>1. \A s : Dec("header", s) = DecodeHeader(s)
    BY DEF Dec
  <2>2. ASSUME NEW s PROVE DecodeHeader(s) = Many("word", s, 6)
    <3>1. DecodeHeader(s) = FoldLeft(LAMBDA r, i : Then(r, DecodeWord), Reader(<< >>, s),
                                     [i \in 1..6 |-> i])
      BY DEF DecodeHeader
    <3> QED BY <3>1, FoldWord
  <2> QED BY <2>1, <2>2
<1>2. Of("header") = Headers /\ \A v : Enc("header", v) = v
  BY DEF Of, Enc
<1>3. Seq(Of("word")) = Stream
  BY DEF Of, Stream
<1>4. ASSUME NEW v \in Headers, NEW t \in Stream PROVE Many("word", v \o t, 6) = Reader(v, t)
  <2>1. v \in Stream /\ Len(v) = 6
    BY HeadersAre
  <2>2. ReadsBack("word", v)
    BY <1>3, <2>1, WordGood, ManyReadsBack
  <2> QED BY <2>1, <2>2, FlatWords DEF ReadsBack
<1>5. ASSUME NEW s \in Stream, Many("word", s, 6) # Failed
      PROVE  \E v \in Headers, t \in Stream : s = v \o t /\ Many("word", s, 6) = Reader(v, t)
  <2>1. ManyBy("word", s, 6)
    BY WordGood, ManyReads
  <2>2. PICK v \in Stream, t \in Stream :
          /\ Len(v) = 6 /\ s = Flat("word", v) \o t
          /\ Many("word", s, 6) = Reader(v, t)
    BY <1>3, <1>5, <2>1 DEF ManyBy
  <2>3. s = v \o t
    BY <2>2, FlatWords
  <2> QED BY <2>2, <2>3, HeadersAre
<1>6. ASSUME NEW s \in Stream PROVE ReadBy("header", s)
  <2>1. CASE Many("word", s, 6) = Failed
    BY <1>1, <2>1 DEF ReadBy
  <2>2. CASE Many("word", s, 6) # Failed
    <3>1. PICK v \in Headers, t \in Stream : s = v \o t /\ Many("word", s, 6) = Reader(v, t)
      BY <1>5, <2>2
    <3>2. v \in Of("header") /\ s = Enc("header", v) \o t /\ Dec("header", s) = Reader(v, t)
      BY <1>1, <1>2, <3>1
    <3> QED BY <3>2 DEF ReadBy
  <2> QED BY <2>1, <2>2
<1>7. \A v \in Of("header") : Enc("header", v) \in Stream
  BY <1>2, HeadersAre
<1>8. \A v \in Of("header"), t \in Stream : Dec("header", Enc("header", v) \o t) = Reader(v, t)
  BY <1>1, <1>2, <1>4
<1> QED BY <1>6, <1>7, <1>8 DEF Good

-----------------------------------------------------------------------------
(* The auxpow and the block *)

\* Four fields and one more.
Quin(a, b, c, d, e) == <<a, b, c, d, e>>
MerkleCode(a, b, c, d, e) ==
  Code4Of("tx", "word", "branch", "branch", a, b, c, d) \o Enc("header", e)

LEMMA MerkleEnc ==
  ASSUME NEW a, NEW b, NEW c, NEW d, NEW e
  PROVE  Enc("merkle", Quin(a, b, c, d, e)) = MerkleCode(a, b, c, d, e)
<1> DEFINE v == Quin(a, b, c, d, e)
<1>1. v[1] = a /\ v[2] = b /\ v[3] = c /\ v[4] = d /\ v[5] = e
  BY DEF Quin
<1> HIDE DEF v
<1>2. Enc("merkle", v) =
        (((EncodeTx(v[1]) \o <<v[2]>>) \o EncodeBranch(v[3])) \o EncodeBranch(v[4])) \o v[5]
  BY DEF Enc, EncodeMerkleTx
<1>3. /\ Enc("tx", a) = EncodeTx(a) /\ Enc("word", b) = <<b>> /\ Enc("header", e) = e
      /\ Enc("branch", c) = EncodeBranch(c) /\ Enc("branch", d) = EncodeBranch(d)
  BY DEF Enc, Word
<1> QED BY <1>1, <1>2, <1>3 DEF v, MerkleCode, Code4Of

JoinedMerkle(a, b, c, d, e) ==
  /\ MerkleCode(a, b, c, d, e) \in Stream
  /\ \A t \in Stream :
       /\ Enc("header", e) \o t \in Stream
       /\ MerkleCode(a, b, c, d, e) \o t
            = Code4("tx", "word", "branch", "branch", a, b, c, d, Enc("header", e) \o t)

LEMMA MerkleJoined ==
  ASSUME NEW a \in Of("tx"), NEW b \in Of("word"), NEW c \in Of("branch"),
         NEW d \in Of("branch"), NEW e \in Of("header")
  PROVE  JoinedMerkle(a, b, c, d, e)
<1> DEFINE x == Code4Of("tx", "word", "branch", "branch", a, b, c, d)
           h == Enc("header", e)
<1>1. Coded4("tx", "word", "branch", "branch", a, b, c, d)
  BY TxGood, WordGood, BranchGood, FourCode
<1>2. x \in Stream /\ h \in Stream
  BY <1>1, HeaderGood DEF Coded4, Good
<1>3. ASSUME NEW t \in Stream
      PROVE  x \o t = Code4("tx", "word", "branch", "branch", a, b, c, d, t)
  BY <1>1 DEF Coded4
<1> HIDE DEF x, h
<1>4. x \o h \in Stream /\ \A t \in Stream : h \o t \in Stream /\ (x \o h) \o t = x \o (h \o t)
  BY <1>2, Joins, JoinsThree
<1>5. MerkleCode(a, b, c, d, e) = x \o h
  BY DEF MerkleCode, x, h
<1>6. ASSUME NEW t \in Stream
      PROVE  /\ h \o t \in Stream
             /\ (x \o h) \o t = Code4("tx", "word", "branch", "branch", a, b, c, d, h \o t)
  BY <1>3, <1>4
<1> QED BY <1>4, <1>5, <1>6 DEF h, JoinedMerkle

LEMMA MerkleOf ==
  /\ \A a \in Of("tx"), b \in Of("word"), c \in Of("branch"), d \in Of("branch"), e \in Of("header") :
       Quin(a, b, c, d, e) \in Of("merkle")
  /\ \A v \in Of("merkle") :
       /\ v[1] \in Of("tx") /\ v[2] \in Of("word") /\ v[3] \in Of("branch")
       /\ v[4] \in Of("branch") /\ v[5] \in Of("header")
       /\ v = Quin(v[1], v[2], v[3], v[4], v[5])
<1>1. Of("merkle") = Of("tx") \X Of("word") \X Of("branch") \X Of("branch") \X Of("header")
  BY DEF Of, MerkleTxs
<1> QED BY <1>1 DEF Quin

LEMMA QuadAppend ==
  ASSUME NEW a, NEW b, NEW c, NEW d, NEW e
  PROVE  Append(Quad(a, b, c, d), e) = Quin(a, b, c, d, e)
<1>1. TuplesAre(a, b, c, d, e)
  BY Tuples
<1> QED BY <1>1 DEF TuplesAre, Quad, Quin

LEMMA MerkleGood == Good("merkle")
<1> DEFINE F(s) == Four("tx", "word", "branch", "branch", s)
           C(a, b, c, d, t) == Code4("tx", "word", "branch", "branch", a, b, c, d, t)
<1>1. \A s : Dec("merkle", s) = NextOf("header", F(s))
  <2>1. \A s : Dec("merkle", s) = DecodeMerkleTx(s)
    BY DEF Dec
  <2> QED BY <2>1, MerkleDec
<1>2. ASSUME NEW a \in Of("tx"), NEW b \in Of("word"), NEW c \in Of("branch"),
             NEW d \in Of("branch"), NEW t \in Stream
      PROVE  F(C(a, b, c, d, t)) = Reader(Quad(a, b, c, d), t)
  BY TxGood, WordGood, BranchGood, FourReadBack
<1>3. ASSUME NEW s \in Stream, F(s) # Failed
      PROVE  \E a \in Of("tx"), b \in Of("word"), c \in Of("branch"), d \in Of("branch"),
                t \in Stream : s = C(a, b, c, d, t) /\ F(s) = Reader(Quad(a, b, c, d), t)
  BY <1>3, TxGood, WordGood, BranchGood, FourRead
<1> HIDE DEF F, C
<1>4. ASSUME NEW a \in Of("tx"), NEW b \in Of("word"), NEW c \in Of("branch"),
             NEW d \in Of("branch"), NEW e \in Of("header")
      PROVE  /\ Enc("merkle", Quin(a, b, c, d, e)) \in Stream
             /\ \A t \in Stream :
                  /\ Enc("header", e) \o t \in Stream
                  /\ Enc("merkle", Quin(a, b, c, d, e)) \o t = C(a, b, c, d, Enc("header", e) \o t)
  <2>1. Enc("merkle", Quin(a, b, c, d, e)) = MerkleCode(a, b, c, d, e)
    BY MerkleEnc
  <2>2. JoinedMerkle(a, b, c, d, e)
    BY MerkleJoined
  <2> QED BY <2>1, <2>2 DEF C, JoinedMerkle
<1>5. ASSUME NEW a \in Of("tx"), NEW b \in Of("word"), NEW c \in Of("branch"),
             NEW d \in Of("branch"), NEW e \in Of("header"), NEW t \in Stream
      PROVE  Dec("merkle", Enc("merkle", Quin(a, b, c, d, e)) \o t) = Reader(Quin(a, b, c, d, e), t)
  <2> DEFINE u == Enc("header", e) \o t
  <2>1. u \in Stream /\ Enc("merkle", Quin(a, b, c, d, e)) \o t = C(a, b, c, d, u)
    BY <1>4, SMTT(30)
  <2>2. NextOf("header", Reader(Quad(a, b, c, d), u)) = Reader(Append(Quad(a, b, c, d), e), t)
    BY HeaderGood, NextReadsBack
  <2> HIDE DEF u
  <2>3. F(C(a, b, c, d, u)) = Reader(Quad(a, b, c, d), u)
    BY <1>2, <2>1
  <2>4. Append(Quad(a, b, c, d), e) = Quin(a, b, c, d, e)
    BY QuadAppend
  <2> QED BY <1>1, <2>1, <2>2, <2>3, <2>4
<1>6. ASSUME NEW s \in Stream PROVE ReadBy("merkle", s)
  <2>1. CASE Dec("merkle", s) = Failed
    BY <2>1 DEF ReadBy
  <2>2. CASE Dec("merkle", s) # Failed
    <3>1. NextOf("header", F(s)) # Failed /\ F(s) # Failed
      BY <1>1, <2>2, NextFails
    <3>2. PICK a \in Of("tx"), b \in Of("word"), c \in Of("branch"), d \in Of("branch"),
             u \in Stream : s = C(a, b, c, d, u) /\ F(s) = Reader(Quad(a, b, c, d), u)
      BY <1>3, <3>1
    <3> DEFINE q == Quad(a, b, c, d)
               r == NextOf("header", Reader(q, u))
    <3>3. r # Failed /\ Dec("merkle", s) = r
      BY <1>1, <3>1, <3>2
    <3>4. PICK e \in Of("header"), t \in Stream :
            u = Enc("header", e) \o t /\ r = Reader(Append(q, e), t)
      <4> HIDE DEF q
      <4> QED BY <3>3, HeaderGood, FieldRead
    <3> DEFINE v == Quin(a, b, c, d, e)
    <3>5. Append(q, e) = v
      BY QuadAppend
    <3>6. v \in Of("merkle")
      BY MerkleOf
    <3>7. s = Enc("merkle", v) \o t
      <4>1. Enc("merkle", v) \o t = C(a, b, c, d, Enc("header", e) \o t)
        BY <1>4, SMTT(30)
      <4> HIDE DEF v
      <4> QED BY <3>2, <3>4, <4>1
    <3> HIDE DEF q, r, v
    <3> QED BY <3>3, <3>4, <3>5, <3>6, <3>7 DEF ReadBy
  <2> QED BY <2>1, <2>2
<1>7. \A v \in Of("merkle") : Enc("merkle", v) \in Stream
  BY <1>4, MerkleOf
<1>8. \A v \in Of("merkle"), t \in Stream : Dec("merkle", Enc("merkle", v) \o t) = Reader(v, t)
  BY <1>5, MerkleOf
<1> QED BY <1>6, <1>7, <1>8 DEF Good

\* The auxpow a header asks for.
One(m) == <<m>>
Triple(h, a, x) == <<h, a, x>>
Auxpows(h) == {a \in Seq(MerkleTxs) : Len(a) = IF IsAuxpow(h) THEN 1 ELSE 0}
AuxOf(s) == NextOf("merkle", Reader(None, s))

LEMMA AuxDec ==
  ASSUME NEW r
  PROVE  DecodeAuxpow(r) =
           IF r.ok /\ ~IsAuxpow(r.value[1]) THEN Reader(Append(r.value, None), r.rest)
           ELSE IF ~r.ok THEN Failed
           ELSE IF AuxOf(r.rest).ok
                THEN Reader(Append(r.value, AuxOf(r.rest).value), AuxOf(r.rest).rest)
                ELSE Failed
<1> DEFINE T(s) == Then(Reader(<< >>, s), DecodeMerkleTx)
<1>1. \A s : T(s) = AuxOf(s)
  BY DEF Then, NextOf, Dec, None, AuxOf
<1>2. DecodeAuxpow(r) =
        IF r.ok /\ ~IsAuxpow(r.value[1]) THEN Reader(Append(r.value, None), r.rest)
        ELSE IF ~r.ok THEN Failed
        ELSE IF T(r.rest).ok THEN Reader(Append(r.value, T(r.rest).value), T(r.rest).rest)
        ELSE Failed
  BY DEF DecodeAuxpow, Then, None
<1> HIDE DEF T
<1> QED BY <1>1, <1>2

LEMMA AuxAt ==
  ASSUME NEW h, NEW s
  PROVE  /\ ~IsAuxpow(h) => DecodeAuxpow(Reader(One(h), s)) = Reader(Pair(h, None), s)
         /\ IsAuxpow(h) => DecodeAuxpow(Reader(One(h), s)) =
              IF AuxOf(s).ok THEN Reader(Pair(h, AuxOf(s).value), AuxOf(s).rest) ELSE Failed
<1> DEFINE r == Reader(One(h), s)
<1>1. r.ok = TRUE /\ r.value = One(h) /\ r.rest = s
  BY DEF Reader
<1>2. One(h)[1] = h
  BY DEF One
<1>3. \A x : Append(One(h), x) = Pair(h, x)
  <2> SUFFICES ASSUME NEW x PROVE Append(One(h), x) = Pair(h, x)
    OBVIOUS
  <2>1. TuplesAre(h, x, h, h, h)
    BY Tuples
  <2> QED BY <2>1 DEF TuplesAre, One, Pair
<1> HIDE DEF r
<1>4. DecodeAuxpow(r) =
        IF r.ok /\ ~IsAuxpow(r.value[1]) THEN Reader(Append(r.value, None), r.rest)
        ELSE IF ~r.ok THEN Failed
        ELSE IF AuxOf(r.rest).ok
             THEN Reader(Append(r.value, AuxOf(r.rest).value), AuxOf(r.rest).rest)
             ELSE Failed
  BY AuxDec
<1>5. /\ ~IsAuxpow(h) => DecodeAuxpow(r) = Reader(Append(One(h), None), s)
      /\ IsAuxpow(h) => DecodeAuxpow(r) =
           IF AuxOf(s).ok THEN Reader(Append(One(h), AuxOf(s).value), AuxOf(s).rest) ELSE Failed
  BY <1>1, <1>2, <1>4
<1> QED BY <1>3, <1>5 DEF r

LEMMA AuxReads ==
  /\ \A m \in MerkleTxs, t \in Stream : AuxOf(Enc("merkle", m) \o t) = Reader(One(m), t)
  /\ \A s \in Stream : AuxOf(s) # Failed =>
       \E m \in MerkleTxs, t \in Stream :
         s = Enc("merkle", m) \o t /\ AuxOf(s) = Reader(One(m), t)
<1>0. Of("merkle") = MerkleTxs /\ \A m : Append(None, m) = One(m)
  BY DEF Of, None, One
<1>1. ASSUME NEW m \in MerkleTxs, NEW t \in Stream
      PROVE  AuxOf(Enc("merkle", m) \o t) = Reader(One(m), t)
  <2>1. NextOf("merkle", Reader(None, Enc("merkle", m) \o t)) = Reader(Append(None, m), t)
    BY <1>0, MerkleGood, NextReadsBack
  <2> QED BY <1>0, <2>1 DEF AuxOf
<1>2. ASSUME NEW s \in Stream, AuxOf(s) # Failed
      PROVE  \E m \in MerkleTxs, t \in Stream :
               s = Enc("merkle", m) \o t /\ AuxOf(s) = Reader(One(m), t)
  <2>1. NextOf("merkle", Reader(None, s)) # Failed
    BY <1>2 DEF AuxOf
  <2>2. PICK m \in MerkleTxs, t \in Stream :
          s = Enc("merkle", m) \o t /\ NextOf("merkle", Reader(None, s)) = Reader(Append(None, m), t)
    BY <1>0, <2>1, MerkleGood, FieldRead
  <2> QED BY <1>0, <2>2 DEF AuxOf
<1> QED BY <1>1, <1>2

LEMMA AuxCode ==
  /\ None \in Seq(MerkleTxs) /\ Len(None) = 0 /\ EncodeAuxpow(None) = << >>
  /\ \A m \in MerkleTxs : /\ One(m) \in Seq(MerkleTxs) /\ Len(One(m)) = 1
                          /\ EncodeAuxpow(One(m)) = Enc("merkle", m)
                          /\ Enc("merkle", m) \in Stream
<1>0. Of("merkle") = MerkleTxs /\ \A a : EncodeAuxpow(a) = Flat("merkle", a)
  BY DEF Of, EncodeAuxpow, Flat, Enc
<1>1. None \in Seq(MerkleTxs) /\ Len(None) = 0
  BY EmptySeq DEF None
<1>2. Flat("merkle", None) = << >>
  BY FlatNone DEF None
<1>3. ASSUME NEW m \in MerkleTxs
      PROVE  /\ One(m) \in Seq(MerkleTxs) /\ Len(One(m)) = 1
             /\ Flat("merkle", One(m)) = Enc("merkle", m)
             /\ Enc("merkle", m) \in Stream
  <2>1. One(m) \in Seq(MerkleTxs) /\ Len(One(m)) = 1 /\ Append(None, m) = One(m)
    BY DEF One, None
  <2>2. Enc("merkle", m) \in Stream
    BY <1>0, MerkleGood DEF Good
  <2>3. None \in Seq(Of("merkle")) /\ Flat("merkle", None) \in Stream
    BY <1>0, <1>1, <1>2, JoinsNone
  <2>4. Flat("merkle", Append(None, m)) = Flat("merkle", None) \o Enc("merkle", m)
    BY <1>0, <2>3, MerkleGood, FlatAppend
  <2>5. << >> \o Enc("merkle", m) = Enc("merkle", m)
    BY <2>2, JoinsNone
  <2> QED BY <1>2, <2>1, <2>2, <2>4, <2>5
<1> QED BY <1>0, <1>1, <1>2, <1>3

LEMMA AuxpowsAre ==
  ASSUME NEW h, NEW a \in Auxpows(h)
  PROVE  /\ IsAuxpow(h) => \E m \in MerkleTxs : a = One(m)
         /\ ~IsAuxpow(h) => a = None
<1>1. CASE IsAuxpow(h)
  <2>1. a \in Seq(MerkleTxs) /\ Len(a) = 1
    BY <1>1 DEF Auxpows
  <2> DEFINE m == a[1]
             w == One(m)
  <2>2. m \in MerkleTxs
    <3>1. 1 \in 1..Len(a)
      BY <2>1
    <3> QED BY <2>1, <3>1, ElementOfSeq
  <2>3. w \in Seq(MerkleTxs) /\ Len(w) = 1 /\ w[1] = m
    BY <2>2 DEF One
  <2> HIDE DEF w
  <2>4. \A i \in 1..Len(a) : a[i] = w[i]
    <3> SUFFICES ASSUME NEW i \in 1..Len(a) PROVE a[i] = w[i]
      OBVIOUS
    <3>1. i = 1
      BY <2>1
    <3> QED BY <2>3, <3>1
  <2>5. a = w
    BY <2>1, <2>3, <2>4, SeqEqual
  <2> QED BY <1>1, <2>2, <2>5 DEF w
<1>2. CASE ~IsAuxpow(h)
  <2>1. a \in Seq(MerkleTxs) /\ Len(a) = 0
    BY <1>2 DEF Auxpows
  <2> QED BY <1>2, <2>1, EmptySeq DEF None
<1> QED BY <1>1, <1>2

\* The auxpow is read back, and read, as a header asks for it.
AuxBack(h, a) ==
  /\ EncodeAuxpow(a) \in Stream
  /\ \A t \in Stream :
       DecodeAuxpow(Reader(One(h), EncodeAuxpow(a) \o t)) = Reader(Pair(h, a), t)
AuxRead(h, s) ==
  \/ DecodeAuxpow(Reader(One(h), s)) = Failed
  \/ \E a \in Auxpows(h), t \in Stream :
       s = EncodeAuxpow(a) \o t /\ DecodeAuxpow(Reader(One(h), s)) = Reader(Pair(h, a), t)

LEMMA AuxGood ==
  ASSUME NEW h
  PROVE  (\A a \in Auxpows(h) : AuxBack(h, a)) /\ (\A s \in Stream : AuxRead(h, s))
<1>1. ASSUME NEW a \in Auxpows(h) PROVE AuxBack(h, a)
  <2>1. CASE IsAuxpow(h)
    <3>1. PICK m \in MerkleTxs : a = One(m)
      BY <2>1, AuxpowsAre
    <3>2. EncodeAuxpow(a) = Enc("merkle", m) /\ Enc("merkle", m) \in Stream
      BY <3>1, AuxCode
    <3>3. ASSUME NEW t \in Stream
          PROVE  DecodeAuxpow(Reader(One(h), Enc("merkle", m) \o t)) = Reader(Pair(h, a), t)
      <4> DEFINE s == Enc("merkle", m) \o t
      <4>1. AuxOf(s) = Reader(a, t)
        BY <3>1, AuxReads
      <4> HIDE DEF s
      <4>2. AuxOf(s).ok = TRUE /\ AuxOf(s).value = a /\ AuxOf(s).rest = t
        BY <4>1 DEF Reader
      <4>3. DecodeAuxpow(Reader(One(h), s)) = Reader(Pair(h, a), t)
        BY <2>1, <4>2, AuxAt
      <4> QED BY <4>3 DEF s
    <3> QED BY <3>2, <3>3 DEF AuxBack
  <2>2. CASE ~IsAuxpow(h)
    <3>1. a = None /\ EncodeAuxpow(a) = << >>
      BY <2>2, AuxpowsAre, AuxCode
    <3>2. \A t \in Stream : DecodeAuxpow(Reader(One(h), t)) = Reader(Pair(h, a), t)
      BY <2>2, <3>1, AuxAt
    <3> QED BY <3>1, <3>2, JoinsNone DEF AuxBack
  <2> QED BY <2>1, <2>2
<1>2. ASSUME NEW s \in Stream PROVE AuxRead(h, s)
  <2> DEFINE d == DecodeAuxpow(Reader(One(h), s))
  <2>1. CASE IsAuxpow(h) /\ AuxOf(s) = Failed
    <3>1. AuxOf(s).ok = FALSE
      BY <2>1 DEF Failed
    <3>2. d = Failed
      BY <2>1, <3>1, AuxAt
    <3> QED BY <3>2 DEF AuxRead
  <2>2. CASE IsAuxpow(h) /\ AuxOf(s) # Failed
    <3>1. PICK m \in MerkleTxs, t \in Stream :
            s = Enc("merkle", m) \o t /\ AuxOf(s) = Reader(One(m), t)
      BY <2>2, AuxReads
    <3>2. AuxOf(s).ok = TRUE /\ AuxOf(s).value = One(m) /\ AuxOf(s).rest = t
      BY <3>1 DEF Reader
    <3>3. d = Reader(Pair(h, One(m)), t)
      BY <2>2, <3>2, AuxAt
    <3>4. One(m) \in Auxpows(h)
      BY <2>2, AuxCode DEF Auxpows
    <3>5. s = EncodeAuxpow(One(m)) \o t
      BY <3>1, AuxCode
    <3> HIDE DEF d
    <3> QED BY <3>3, <3>4, <3>5 DEF AuxRead, d
  <2>3. CASE ~IsAuxpow(h)
    <3>1. d = Reader(Pair(h, None), s)
      BY <2>3, AuxAt
    <3>2. None \in Auxpows(h)
      BY <2>3, AuxCode DEF Auxpows
    <3>3. s = EncodeAuxpow(None) \o s
      BY AuxCode, JoinsNone
    <3> HIDE DEF d
    <3> QED BY <3>1, <3>2, <3>3 DEF AuxRead, d
  <2> QED BY <2>1, <2>2, <2>3
<1> QED BY <1>1, <1>2

LEMMA BlockDec ==
  ASSUME NEW s
  PROVE  DecodeBlock(s) = NextOf("txs", DecodeAuxpow(NextOf("header", Reader(None, s))))
<1> DEFINE H(r) == Then(r, DecodeHeader)
           X(r) == Then(r, LAMBDA rest : DecodeVec(rest, DecodeTx))
<1>1. DecodeBlock(s) = X(DecodeAuxpow(H(Reader(None, s))))
  BY DEF DecodeBlock, None
<1>2. \A r : H(r) = NextOf("header", r)
  BY DEF Then, NextOf, Dec
<1>3. \A r : X(r) = NextOf("txs", r)
  BY DEF Then, NextOf, Dec
<1> HIDE DEF H, X
<1> QED BY <1>1, <1>2, <1>3

LEMMA BlocksAre ==
  /\ \A h \in Headers : \A a \in Auxpows(h), x \in Of("txs") : Triple(h, a, x) \in WellFormed
  /\ \A b \in WellFormed : /\ b[1] \in Headers /\ b[2] \in Auxpows(b[1]) /\ b[3] \in Of("txs")
                           /\ b = Triple(b[1], b[2], b[3])
<1>0. Of("txs") = Seq(Transactions)
  BY DEF Of
<1>1. ASSUME NEW h \in Headers, NEW a \in Auxpows(h), NEW x \in Of("txs")
      PROVE  Triple(h, a, x) \in WellFormed
  <2> DEFINE b == Triple(h, a, x)
  <2>1. b[1] = h /\ b[2] = a /\ b \in Headers \X Seq(MerkleTxs) \X Seq(Transactions)
    BY <1>0 DEF Auxpows, Triple
  <2> HIDE DEF b
  <2>2. b \in WellFormed
    BY <2>1 DEF Auxpows, WellFormed
  <2> QED BY <2>2 DEF b
<1>2. ASSUME NEW b \in WellFormed
      PROVE  /\ b[1] \in Headers /\ b[2] \in Auxpows(b[1]) /\ b[3] \in Of("txs")
             /\ b = Triple(b[1], b[2], b[3])
  BY <1>0 DEF WellFormed, Auxpows, Triple
<1> QED BY <1>1, <1>2

\* The code of a block and of what follows it.
BlockCode(h, a, x, t) == h \o (EncodeAuxpow(a) \o (Enc("txs", x) \o t))
BlockJoined(h, a, x) ==
  /\ EncodeBlock(Triple(h, a, x)) \in Stream
  /\ \A t \in Stream :
       /\ EncodeBlock(Triple(h, a, x)) \o t = BlockCode(h, a, x, t)
       /\ Enc("txs", x) \o t \in Stream
       /\ EncodeAuxpow(a) \o (Enc("txs", x) \o t) \in Stream

LEMMA BlockEnc ==
  ASSUME NEW h \in Headers, NEW a \in Auxpows(h), NEW x \in Of("txs")
  PROVE  BlockJoined(h, a, x)
<1> DEFINE ea == EncodeAuxpow(a)
           ex == Enc("txs", x)
           b == Triple(h, a, x)
<1>1. b[1] = h /\ b[2] = a /\ b[3] = x
  BY DEF Triple
<1>2. EncodeBlock(b) = (h \o ea) \o ex
  <2>1. Enc("txs", x) = EncodeVec(x, EncodeTx)
    BY DEF Enc
  <2> HIDE DEF b
  <2> QED BY <1>1, <2>1 DEF EncodeBlock
<1>3. h \in Stream /\ ea \in Stream /\ ex \in Stream
  <2>1. AuxBack(h, a)
    BY AuxGood
  <2>2. Enc("txs", x) \in Stream
    BY TxsGood DEF Good
  <2> QED BY <2>1, <2>2, HeadersAre DEF AuxBack
<1> HIDE DEF ea, ex, b
<1>4. h \o ea \in Stream
  BY <1>3, Joins
<1>5. (h \o ea) \o ex \in Stream
  <2> DEFINE p == h \o ea
  <2> HIDE DEF p
  <2>1. p \o ex \in Stream
    BY <1>3, <1>4, Joins DEF p
  <2> QED BY <2>1 DEF p
<1>6. ASSUME NEW t \in Stream
      PROVE  /\ ((h \o ea) \o ex) \o t = h \o (ea \o (ex \o t))
             /\ ex \o t \in Stream /\ ea \o (ex \o t) \in Stream
  <2> DEFINE q == ex \o t
  <2>1. q \in Stream
    BY <1>3, Joins
  <2>2. \A p \in Stream : (p \o ex) \o t = p \o q
    BY <1>3, JoinsThree, SMTT(60)
  <2>3. \A u \in Stream : ea \o u \in Stream /\ (h \o ea) \o u = h \o (ea \o u)
    BY <1>3, Joins, JoinsThree
  <2> HIDE DEF q
  <2>4. ((h \o ea) \o ex) \o t = (h \o ea) \o q
    BY <1>4, <2>2
  <2>5. (h \o ea) \o q = h \o (ea \o q) /\ ea \o q \in Stream
    BY <2>1, <2>3
  <2> QED BY <2>1, <2>4, <2>5 DEF q
<1>7. \A t : BlockCode(h, a, x, t) = h \o (ea \o (ex \o t))
  BY DEF BlockCode, ea, ex
<1>8. EncodeBlock(b) \in Stream
  BY <1>2, <1>5
<1>9. \A t \in Stream : EncodeBlock(b) \o t = BlockCode(h, a, x, t)
  <2> SUFFICES ASSUME NEW t \in Stream PROVE EncodeBlock(b) \o t = BlockCode(h, a, x, t)
    OBVIOUS
  <2>1. BlockCode(h, a, x, t) = h \o (ea \o (ex \o t))
    BY <1>7
  <2>2. EncodeBlock(b) \o t = ((h \o ea) \o ex) \o t
    BY <1>2
  <2>3. ((h \o ea) \o ex) \o t = h \o (ea \o (ex \o t))
    BY <1>6
  <2> QED BY <2>1, <2>2, <2>3
<1>10. \A t \in Stream : ex \o t \in Stream /\ ea \o (ex \o t) \in Stream
  BY <1>6
<1> QED BY <1>8, <1>9, <1>10 DEF BlockJoined, b, ea, ex

LEMMA Triples ==
  ASSUME NEW h, NEW a, NEW x
  PROVE  Append(None, h) = One(h) /\ Append(Pair(h, a), x) = Triple(h, a, x)
<1>1. TuplesAre(h, a, x, x, x)
  BY Tuples
<1> QED BY <1>1 DEF TuplesAre, None, One, Pair, Triple

\* Blocks are read back whatever follows them, and nothing else is read.
BlockBack(b) ==
  /\ EncodeBlock(b) \in Stream
  /\ \A t \in Stream : DecodeBlock(EncodeBlock(b) \o t) = Reader(b, t)
BlockRead(s) ==
  \/ DecodeBlock(s) = Failed
  \/ \E b \in WellFormed, t \in Stream : s = EncodeBlock(b) \o t /\ DecodeBlock(s) = Reader(b, t)

LEMMA HeaderRow ==
  /\ \A h \in Headers, u \in Stream : NextOf("header", Reader(None, h \o u)) = Reader(One(h), u)
  /\ \A s \in Stream : NextOf("header", Reader(None, s)) # Failed =>
       \E h \in Headers, u \in Stream :
         s = h \o u /\ NextOf("header", Reader(None, s)) = Reader(One(h), u)
<1>0. Of("header") = Headers /\ \A h : Enc("header", h) = h /\ Append(None, h) = One(h)
  BY Triples DEF Of, Enc
<1>1. ASSUME NEW h \in Headers, NEW u \in Stream
      PROVE  NextOf("header", Reader(None, h \o u)) = Reader(One(h), u)
  <2>1. NextOf("header", Reader(None, Enc("header", h) \o u)) = Reader(Append(None, h), u)
    BY <1>0, HeaderGood, NextReadsBack
  <2> QED BY <1>0, <2>1
<1>2. ASSUME NEW s \in Stream, NextOf("header", Reader(None, s)) # Failed
      PROVE  \E h \in Headers, u \in Stream :
               s = h \o u /\ NextOf("header", Reader(None, s)) = Reader(One(h), u)
  <2>1. PICK h \in Headers, u \in Stream :
          /\ s = Enc("header", h) \o u
          /\ NextOf("header", Reader(None, s)) = Reader(Append(None, h), u)
    BY <1>0, <1>2, HeaderGood, FieldRead
  <2> QED BY <1>0, <2>1
<1> QED BY <1>1, <1>2

LEMMA BlockReadBack == ASSUME NEW b \in WellFormed PROVE BlockBack(b)
<1>1. ASSUME NEW h \in Headers, NEW a \in Auxpows(h), NEW x \in Of("txs")
      PROVE  BlockBack(Triple(h, a, x))
  <2> DEFINE v == Triple(h, a, x)
  <2>1. BlockJoined(h, a, x) /\ AuxBack(h, a)
    BY BlockEnc, AuxGood
  <2>2. ASSUME NEW t \in Stream PROVE DecodeBlock(EncodeBlock(v) \o t) = Reader(v, t)
    <3> DEFINE w == Enc("txs", x) \o t
               u == EncodeAuxpow(a) \o w
               s == h \o u
    <3>1. EncodeBlock(v) \o t = s /\ w \in Stream /\ u \in Stream
      BY <2>1 DEF BlockJoined, BlockCode
    <3>2. NextOf("txs", Reader(Pair(h, a), w)) = Reader(v, t)
      <4>1. NextOf("txs", Reader(Pair(h, a), w)) = Reader(Append(Pair(h, a), x), t)
        BY TxsGood, NextReadsBack
      <4>2. Append(Pair(h, a), x) = v
        BY Triples
      <4> HIDE DEF v, w
      <4> QED BY <4>1, <4>2
    <3> HIDE DEF w
    <3>3. DecodeAuxpow(Reader(One(h), u)) = Reader(Pair(h, a), w)
      BY <2>1, <3>1 DEF AuxBack
    <3> HIDE DEF u
    <3>4. NextOf("header", Reader(None, s)) = Reader(One(h), u)
      BY <3>1, HeaderRow
    <3> HIDE DEF s, v
    <3> QED BY <3>1, <3>2, <3>3, <3>4, BlockDec
  <2>3. EncodeBlock(v) \in Stream
    BY <2>1 DEF BlockJoined
  <2> HIDE DEF v
  <2> QED BY <2>2, <2>3 DEF BlockBack, v
<1> QED BY <1>1, BlocksAre

LEMMA BlockReads == ASSUME NEW s \in Stream PROVE BlockRead(s)
<1> DEFINE r1 == NextOf("header", Reader(None, s))
           r2 == DecodeAuxpow(r1)
           r3 == NextOf("txs", r2)
<1>1. DecodeBlock(s) = r3
  BY BlockDec
<1>2. CASE r3 = Failed
  BY <1>1, <1>2 DEF BlockRead
<1>3. CASE r3 # Failed
  <2>1. r2 # Failed
    <3> HIDE DEF r2
    <3> QED BY <1>3, NextFails
  <2>2. r1 # Failed
    <3>1. DecodeAuxpow(Failed) = Failed
      <4>1. Failed.ok = FALSE
        BY DEF Failed
      <4> QED BY <4>1, AuxDec
    <3> HIDE DEF r1
    <3> QED BY <2>1, <3>1
  <2>3. PICK h \in Headers, u \in Stream : s = h \o u /\ r1 = Reader(One(h), u)
    BY <2>2, HeaderRow
  <2> DEFINE q2 == DecodeAuxpow(Reader(One(h), u))
  <2>4. r2 = q2
    BY <2>3
  <2>5. PICK a \in Auxpows(h), w \in Stream : u = EncodeAuxpow(a) \o w /\ q2 = Reader(Pair(h, a), w)
    <3>1. AuxRead(h, u)
      BY AuxGood
    <3> QED BY <2>1, <2>4, <3>1 DEF AuxRead
  <2> DEFINE q == Pair(h, a)
             q3 == NextOf("txs", Reader(q, w))
  <2>6. r3 = q3
    <3> HIDE DEF r2, q2, q
    <3> QED BY <2>4, <2>5 DEF q
  <2>7. q3 # Failed
    BY <1>3, <2>6
  <2>8. PICK x \in Of("txs"), t \in Stream :
          w = Enc("txs", x) \o t /\ q3 = Reader(Append(q, x), t)
    <3> HIDE DEF q
    <3> QED BY <2>7, TxsGood, FieldRead
  <2> DEFINE b == Triple(h, a, x)
  <2>9. b \in WellFormed /\ Append(q, x) = b
    BY BlocksAre, Triples
  <2>10. s = EncodeBlock(b) \o t
    <3>1. BlockJoined(h, a, x)
      BY BlockEnc
    <3>2. EncodeBlock(b) \o t = BlockCode(h, a, x, t)
      BY <3>1 DEF BlockJoined
    <3>3. s = BlockCode(h, a, x, t)
      BY <2>3, <2>5, <2>8 DEF BlockCode
    <3> HIDE DEF b
    <3> QED BY <3>2, <3>3
  <2> HIDE DEF b, q, q3, r3
  <2>11. DecodeBlock(s) = Reader(b, t)
    BY <1>1, <2>6, <2>8, <2>9
  <2> QED BY <2>9, <2>10, <2>11 DEF BlockRead
<1> QED BY <1>2, <1>3

-----------------------------------------------------------------------------
(* The answer to getblock *)

\* What a node sends is a block's code; what the way makes of it is a stream.
CodecInv ==
  /\ block \in WellFormed /\ stream \in Stream /\ noise \in Nat
  /\ reply \in [status : Nat, body : {"result", "error", "both", "null", "garbled"}]
  /\ noise = 0 => /\ stream = EncodeBlock(block)
                  /\ reply = [status |-> 200, body |-> "result"]

\* The invariant holds whatever goes wrong, as long as it leaves tokens.
LEMMA CodecInvariant == Spec => []CodecInv
<1>1. Init => CodecInv
  <2> SUFFICES ASSUME Init PROVE CodecInv
    OBVIOUS
  <2>1. block \in WellFormed
    BY CodecAssumption DEF Init
  <2>2. stream \in Stream
    BY <2>1, BlockReadBack DEF Init, BlockBack
  <2> QED BY <2>1, <2>2 DEF Init, CodecInv
<1>2. ASSUME CodecInv, [Next]_vars PROVE CodecInv'
  <2>1. CASE UNCHANGED vars
    BY <1>2, <2>1 DEF CodecInv, vars
  <2>2. ASSUME NEW s \in Stream, Disturb(s) PROVE CodecInv'
    <3>1. noise' \in Nat /\ noise' # 0
      BY <1>2, <2>2 DEF CodecInv, Disturb, Disturbed
    <3>2. block' = block /\ reply' = reply /\ stream' = s
      BY <2>2 DEF Disturb, Disturbed
    <3> QED BY <1>2, <3>1, <3>2 DEF CodecInv
  <2>3. CASE Truncate
    <3> DEFINE s == stream
    <3>1. s \in Seq(Nat) /\ s # << >> /\ Disturb(Front(s))
      BY <1>2, <2>3 DEF CodecInv, Stream, Truncate
    <3>2. Len(s) \in Nat \ {0} /\ \A i \in 1..(Len(s) - 1) : s[i] \in Nat
      BY <3>1, EmptySeq, LenProperties, ElementOfSeq
    <3> HIDE DEF s
    <3>3. SubSeq(s, 1, Len(s) - 1) \in Seq(Nat)
      BY <3>2, SubSeqProperties
    <3>4. Front(s) \in Stream
      BY <3>3 DEF Front, Stream
    <3> QED BY <2>2, <3>1, <3>4
  <2>4. CASE Extend
    <3>1. PICK w \in Tokens : Disturb(Append(stream, w))
      BY <2>4 DEF Extend
    <3>2. w \in Nat /\ stream \in Seq(Nat)
      BY <1>2, CodecAssumption DEF CodecInv, Stream
    <3>3. Append(stream, w) \in Stream
      BY <3>2, AppendProperties DEF Stream
    <3> QED BY <2>2, <3>1, <3>3
  <2>5. CASE Replace
    <3>1. PICK n \in DOMAIN stream, w \in Tokens : Disturb([stream EXCEPT ![n] = w])
      BY <2>5 DEF Replace
    <3>2. w \in Nat /\ stream \in Seq(Nat)
      BY <1>2, CodecAssumption DEF CodecInv, Stream
    <3>3. [stream EXCEPT ![n] = w] \in Stream
      <4>1. n \in 1..Len(stream)
        BY <3>2, LenProperties
      <4> QED BY <3>2, <4>1, ExceptSeq DEF Stream
    <3> QED BY <2>2, <3>1, <3>3
  <2>6. CASE Refuse
    <3>1. /\ noise' \in Nat /\ noise' # 0 /\ block' = block /\ stream' = stream
      BY <1>2, <2>6 DEF CodecInv, Refuse, Disturbed
    <3>2. reply' \in [status : Nat, body : {"result", "error", "both", "null", "garbled"}]
      BY <1>2, <2>6, CodecAssumption DEF CodecInv, Refuse
    <3> QED BY <1>2, <3>1, <3>2 DEF CodecInv
  <2> QED BY <1>2, <2>1, <2>3, <2>4, <2>5, <2>6 DEF Next
<1> QED BY <1>1, <1>2, PTL DEF Spec

\* What an answer is taken for.
LEMMA Taken ==
  ASSUME NEW s \in Stream
  PROVE  /\ ~CallResult(reply) => GetBlock(reply, s) = Failed
         /\ CallResult(reply) /\ GetBlock(reply, s) # Failed =>
              \E b \in WellFormed : s = EncodeBlock(b) /\ GetBlock(reply, s) = Reader(b, << >>)
         /\ \A b \in WellFormed : CallResult(reply) /\ s = EncodeBlock(b) =>
              GetBlock(reply, s) = Reader(b, << >>)
<1> DEFINE d == DecodeBlock(s)
           g == GetBlock(reply, s)
<1>1. g = IF CallResult(reply) /\ d.ok /\ d.rest = << >> THEN d ELSE Failed
  BY DEF GetBlock, Deserialize
<1>2. ASSUME CallResult(reply), g # Failed
      PROVE  \E b \in WellFormed : s = EncodeBlock(b) /\ g = Reader(b, << >>)
  <2>1. g = d /\ d.ok /\ d.rest = << >>
    <3> HIDE DEF d, g
    <3> QED BY <1>1, <1>2
  <2>2. d # Failed
    BY <1>2, <2>1
  <2>3. PICK b \in WellFormed, t \in Stream : s = EncodeBlock(b) \o t /\ d = Reader(b, t)
    <3>1. BlockRead(s)
      BY BlockReads
    <3> QED BY <2>2, <3>1 DEF BlockRead
  <2>4. t = << >>
    <3> HIDE DEF d, g
    <3> QED BY <2>1, <2>3 DEF Reader
  <2>5. s = EncodeBlock(b)
    <3>1. EncodeBlock(b) \in Stream
      BY BlockReadBack DEF BlockBack
    <3> QED BY <2>3, <2>4, <3>1, JoinsNone
  <2>6. g = Reader(b, << >>)
    <3> HIDE DEF d, g
    <3> QED BY <2>1, <2>3, <2>4
  <2> QED BY <2>5, <2>6
<1>3. ASSUME NEW b \in WellFormed, CallResult(reply), s = EncodeBlock(b)
      PROVE  g = Reader(b, << >>)
  <2>1. BlockBack(b) /\ << >> \in Stream
    BY BlockReadBack, JoinsNone
  <2>2. EncodeBlock(b) \o << >> = s
    BY <1>3, JoinsNone
  <2>3. d = Reader(b, << >>)
    BY <2>1, <2>2 DEF BlockBack
  <2>4. d.ok = TRUE /\ d.rest = << >>
    <3> HIDE DEF d
    <3> QED BY <2>3 DEF Reader
  <2> HIDE DEF d, g
  <2> QED BY <1>1, <1>3, <2>3, <2>4
<1>4. ~CallResult(reply) => g = Failed
  <2> HIDE DEF d, g
  <2> QED BY <1>1
<1> HIDE DEF g
<1> QED BY <1>2, <1>3, <1>4 DEF g

\* An encoded block is read back as it was (deserialize_hex over encode:
\* block.rs, transaction.rs), for every block the types can hold.
THEOREM BlocksRoundTrip == Spec => []RoundTrip
<1>1. CodecInv => RoundTrip
  <2> SUFFICES ASSUME CodecInv, noise = 0 PROVE GetBlock(reply, stream) = Reader(block, << >>)
    BY DEF RoundTrip
  <2>1. stream = EncodeBlock(block) /\ block \in WellFormed /\ stream \in Stream
    BY DEF CodecInv
  <2>2. CallResult(reply)
    BY DEF CodecInv, CallResult, Post
  <2> QED BY <2>1, <2>2, Taken
<1> QED BY <1>1, CodecInvariant, PTL

\* Whatever a stream is read as, it is the encoding of that, with an auxpow
\* exactly when the version of the header says so (Block::consensus_decode).
THEOREM DecodingCanonical == Spec => []Canonical
<1>1. CodecInv => Canonical
  <2> DEFINE r == DecodeBlock(stream)
  <2> SUFFICES ASSUME CodecInv, r.ok
               PROVE  /\ EncodeBlock(r.value) \o r.rest = stream
                      /\ r.value[2] # << >> <=> IsAuxpow(r.value[1])
    BY DEF Canonical
  <2>1. r # Failed
    <3>1. Failed.ok = FALSE
      BY DEF Failed
    <3> HIDE DEF r
    <3> QED BY <3>1
  <2>2. PICK b \in WellFormed, t \in Stream : stream = EncodeBlock(b) \o t /\ r = Reader(b, t)
    <3>1. BlockRead(stream)
      BY BlockReads DEF CodecInv
    <3> QED BY <2>1, <3>1 DEF BlockRead
  <2> HIDE DEF r
  <2>3. r.value = b /\ r.rest = t
    BY <2>2 DEF Reader
  <2>4. b[2] # << >> <=> IsAuxpow(b[1])
    <3>1. b[2] \in Seq(MerkleTxs) /\ Len(b[2]) = IF IsAuxpow(b[1]) THEN 1 ELSE 0
      BY DEF WellFormed
    <3> QED BY <3>1, EmptySeq
  <2> QED BY <2>2, <2>3, <2>4
<1> QED BY <1>1, CodecInvariant, PTL

LEMMA Cut ==
  ASSUME NEW s \in Stream, NEW t \in Stream, IsPrefix(s, t)
  PROVE  \E u \in Stream : t = s \o u
<1> DEFINE n == Len(s)
           m == Len(t)
           u == SubSeq(t, n + 1, m)
<1>1. n \in Nat /\ m \in Nat /\ n <= m /\ SubSeq(s, 1, n) = SubSeq(t, 1, n)
  BY LenProperties DEF Stream, IsPrefix
<1>2. SubSeq(s, 1, n) = s /\ SubSeq(t, 1, m) = t
  BY SubSeqFull DEF Stream
<1>3. \A i \in 1..m : t[i] \in Nat
  BY ElementOfSeq DEF Stream
<1> HIDE DEF n, m
<1>4. u \in Stream
  <2>1. \A i \in (n + 1)..m : t[i] \in Nat
    BY <1>1, <1>3
  <2>2. n + 1 \in Int /\ m \in Int
    BY <1>1
  <2>3. u \in Seq(Nat)
    BY <2>1, <2>2, SubSeqProperties
  <2> QED BY <2>3 DEF Stream
<1>5. SubSeq(t, 1, n) \o u = SubSeq(t, 1, m)
  <2>1. 1 \in 1..Len(t) + 1 /\ n \in (1 - 1)..Len(t) /\ m \in n..Len(t) /\ t \in Seq(Nat)
    BY <1>1 DEF m, Stream
  <2> QED BY <2>1, ConcatAdjacentSubSeq
<1> QED BY <1>1, <1>2, <1>4, <1>5

\* No code of a block is the beginning of another's.
LEMMA PrefixFree ==
  ASSUME NEW b \in WellFormed, NEW c \in WellFormed,
         IsPrefix(EncodeBlock(b), EncodeBlock(c))
  PROVE  b = c
<1> DEFINE eb == EncodeBlock(b)
           ec == EncodeBlock(c)
<1>1. /\ eb \in Stream /\ \A t \in Stream : DecodeBlock(eb \o t) = Reader(b, t)
      /\ ec \in Stream /\ \A t \in Stream : DecodeBlock(ec \o t) = Reader(c, t)
  BY BlockReadBack DEF BlockBack
<1> HIDE DEF eb, ec
<1>2. PICK u \in Stream : ec = eb \o u
  BY <1>1, Cut DEF eb, ec
<1>3. << >> \in Stream /\ ec \o << >> = ec
  BY <1>1, JoinsNone
<1>4. Reader(b, u) = Reader(c, << >>)
  BY <1>1, <1>2, <1>3
<1> QED BY <1>4 DEF Reader

\* An answer that is cut short, has bytes left over or is no success is
\* refused, and no other (deserialize_hex; post and call of jsonrpc.rs).
THEOREM AnswersWhole == Spec => []WholeOrNothing
<1>1. CodecInv => WholeOrNothing
  <2> DEFINE sent == EncodeBlock(block)
             clean == reply.body = "result" /\ reply.status \div 100 = 2
             g == GetBlock(reply, stream)
  <2> SUFFICES ASSUME CodecInv, IsPrefix(stream, sent) \/ IsPrefix(sent, stream)
               PROVE  g.ok <=> stream = sent /\ clean
    BY DEF WholeOrNothing
  <2>1. block \in WellFormed /\ stream \in Stream
    BY DEF CodecInv
  <2>2. clean <=> CallResult(reply)
    <3> DEFINE c == reply.status
    <3>1. c \in Nat
      BY DEF CodecInv
    <3>2. CallResult(reply) <=> c \in 200..299 /\ reply.body = "result"
      BY DEF CallResult, Post
    <3> HIDE DEF c
    <3>3. c \div 100 = 2 <=> c \in 200..299
      BY <3>1
    <3> QED BY <3>2, <3>3 DEF c
  <2>3. ASSUME stream = sent, clean PROVE g.ok
    <3>1. g = Reader(block, << >>)
      BY <2>1, <2>2, <2>3, Taken
    <3> HIDE DEF g
    <3> QED BY <3>1 DEF Reader
  <2>4. ASSUME g.ok PROVE stream = sent /\ clean
    <3>1. g # Failed
      <4>1. Failed.ok = FALSE
        BY DEF Failed
      <4> HIDE DEF g
      <4> QED BY <2>4, <4>1
    <3>2. CallResult(reply)
      BY <2>1, <3>1, Taken
    <3>3. PICK b \in WellFormed : stream = EncodeBlock(b)
      BY <2>1, <3>1, <3>2, Taken
    <3>4. b = block
      BY <2>1, <3>3, PrefixFree
    <3> QED BY <2>2, <3>2, <3>3, <3>4
  <2> HIDE DEF g, sent, clean
  <2> QED BY <2>3, <2>4
<1> QED BY <1>1, CodecInvariant, PTL
=============================================================================
