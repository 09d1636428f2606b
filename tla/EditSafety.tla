----------------------------- MODULE EditSafety -----------------------------
(***************************************************************************)
(* Proofs about SighashEdits: what a signature protects, for every         *)
(* transaction, input, type of hash and sequence of edits.                 *)
(***************************************************************************)
EXTENDS SighashEdits, SequenceTheorems, TLAPS

-----------------------------------------------------------------------------
(* Transactions *)

Txs(P, S, Q, V) == [version : Int, lock_time : Int,
                    input  : Seq([prevout : P, script : S, sequence : Q]),
                    output : Seq([value : V, script : S])]
TxsOver(S) == Txs(Prevouts, S, Sequences, Values)
Types      == [base : Bases, any : BOOLEAN]

LEMMA HashesInputs ==
  ASSUME NEW S, NEW a \in TxsOver(S), NEW b \in TxsOver(S),
         index \in DOMAIN a.input, index \in DOMAIN b.input, type \in Types
  PROVE  SignedInputs(a, index, Key, type) = SignedInputs(b, index, Key, type)
           <=> SameInputs(a, b)
<1> DEFINE In(t, n) == SignedInput(t.input[n], n = index, Key, type)
<1>1. /\ DOMAIN a.input = 1..Len(a.input) /\ Len(a.input) \in Nat
      /\ DOMAIN b.input = 1..Len(b.input) /\ Len(b.input) \in Nat
  BY DEF TxsOver, Txs
<1>2. In(a, index) = In(b, index) <=>
        /\ a.input[index].prevout = b.input[index].prevout
        /\ a.input[index].sequence = b.input[index].sequence
  BY DEF SignedInput
<1>3. ASSUME NEW n \in DOMAIN a.input, n \in DOMAIN b.input, n # index
      PROVE  In(a, n) = In(b, n) <=>
               /\ a.input[n].prevout = b.input[n].prevout
               /\ type.base = "All" => a.input[n].sequence = b.input[n].sequence
  BY <1>3 DEF SignedInput
<1>4. CASE type.any
  <2>1. SignedInputs(a, index, Key, type) = << In(a, index) >>
        /\ SignedInputs(b, index, Key, type) = << In(b, index) >>
    BY <1>4 DEF SignedInputs
  <2>2. type # AllType
    BY <1>4 DEF AllType
  <2> HIDE DEF In
  <2> QED BY <1>2, <1>4, <2>1, <2>2 DEF SameInputs
<1>5. CASE ~type.any
  <2>1. /\ SignedInputs(a, index, Key, type) = [n \in DOMAIN a.input |-> In(a, n)]
        /\ SignedInputs(b, index, Key, type) = [n \in DOMAIN b.input |-> In(b, n)]
    BY <1>5 DEF SignedInputs
  <2>2. type = AllType <=> type.base = "All"
    BY <1>5 DEF AllType, Types
  <2> HIDE DEF In
  <2>3. SignedInputs(a, index, Key, type) = SignedInputs(b, index, Key, type)
          <=> /\ DOMAIN a.input = DOMAIN b.input
              /\ \A n \in DOMAIN a.input : In(a, n) = In(b, n)
    BY <2>1
  <2>4. DOMAIN a.input = DOMAIN b.input <=> Len(a.input) = Len(b.input)
    BY <1>1
  <2>5. ASSUME DOMAIN a.input = DOMAIN b.input
        PROVE  (\A n \in DOMAIN a.input : In(a, n) = In(b, n)) <=>
                 /\ a.input[index].prevout = b.input[index].prevout
                 /\ a.input[index].sequence = b.input[index].sequence
                 /\ \A n \in DOMAIN a.input : a.input[n].prevout = b.input[n].prevout
                 /\ type.base = "All" => \A n \in DOMAIN a.input :
                      a.input[n].sequence = b.input[n].sequence
    BY <1>2, <1>3, <2>5
  <2> QED BY <1>5, <2>2, <2>3, <2>4, <2>5 DEF SameInputs
<1> QED BY <1>4, <1>5

LEMMA HashesOutputs ==
  ASSUME NEW S, NEW a \in TxsOver(S), NEW b \in TxsOver(S), index \in Nat \ {0}, type \in Types,
         type.base = "Single" /\ ~type.any => HasOutput(a) /\ HasOutput(b)
  PROVE  SignedOutputs(a, index, type) = SignedOutputs(b, index, type)
           <=> SameOutputs(a, b)
<1>1. /\ DOMAIN a.output = 1..Len(a.output) /\ Len(a.output) \in Nat
      /\ DOMAIN b.output = 1..Len(b.output) /\ Len(b.output) \in Nat
  BY DEF TxsOver, Txs
<1>2. type.base \in {"All", "None", "Single"}
  BY DEF Types, Bases
<1>3. CASE type.base = "All"
  BY <1>3 DEF SignedOutputs, SameOutputs
<1>4. CASE type.base = "None"
  BY <1>4 DEF SignedOutputs, SameOutputs
<1>5. CASE type.base = "Single"
  <2> DEFINE D(t) == {m \in DOMAIN t.output : m <= index}
             Out(t, n) == IF n = index THEN t.output[n] ELSE NullOut
  <2>1. /\ SignedOutputs(a, index, type) = [n \in D(a) |-> Out(a, n)]
        /\ SignedOutputs(b, index, type) = [n \in D(b) |-> Out(b, n)]
    BY <1>5 DEF SignedOutputs
  <2>2. SignedOutputs(a, index, type) = SignedOutputs(b, index, type)
          <=> D(a) = D(b) /\ \A n \in D(a) : Out(a, n) = Out(b, n)
    <3> HIDE DEF D, Out
    <3> QED BY <2>1
  <2>3. CASE HasOutput(a) /\ HasOutput(b)
    <3>1. D(a) = 1..index /\ D(b) = 1..index
      BY <1>1, <2>3 DEF HasOutput
    <3>2. (\A n \in D(a) : Out(a, n) = Out(b, n)) <=> a.output[index] = b.output[index]
      BY <3>1
    <3> QED BY <1>5, <2>2, <2>3, <3>1, <3>2 DEF SameOutputs
  <2>4. CASE ~HasOutput(a) /\ ~HasOutput(b)
    <3>1. D(a) = 1..Len(a.output) /\ D(b) = 1..Len(b.output)
      BY <1>1, <2>4 DEF HasOutput
    <3>2. \A n \in D(a) : n # index /\ Out(a, n) = Out(b, n)
      BY <1>1, <2>4 DEF HasOutput
    <3>3. D(a) = D(b) <=> Len(a.output) = Len(b.output)
      BY <1>1, <3>1
    <3> HIDE DEF D, Out
    <3> QED BY <1>5, <2>2, <2>4, <3>2, <3>3 DEF SameOutputs
  <2>5. CASE ~(HasOutput(a) <=> HasOutput(b))
    <3>1. index \in D(a) <=> HasOutput(a)
      BY DEF HasOutput
    <3>2. index \in D(b) <=> HasOutput(b)
      BY DEF HasOutput
    <3>3. D(a) # D(b)
      <4> HIDE DEF D
      <4> QED BY <2>5, <3>1, <3>2
    <3>4. ~SameOutputs(a, b)
      BY <1>5, <2>5 DEF SameOutputs
    <3> HIDE DEF D, Out
    <3> QED BY <2>2, <3>3, <3>4
  <2> QED BY <2>3, <2>4, <2>5 DEF HasOutput
<1> QED BY <1>2, <1>3, <1>4, <1>5

\* The hash of an input is the same exactly when nothing its type protects
\* has changed.
LEMMA HashMeans ==
  ASSUME NEW S, NEW a \in TxsOver(S), NEW b \in TxsOver(S),
         index \in DOMAIN a.input, index \in DOMAIN b.input, type \in Types
  PROVE  SignatureHash(a, index, Key, type) = SignatureHash(b, index, Key, type)
           <=> Protected(a, b)
<1> DEFINE Rec(t) == [version   |-> t.version,
                      lock_time |-> t.lock_time,
                      input     |-> SignedInputs(t, index, Key, type),
                      output    |-> SignedOutputs(t, index, type),
                      type      |-> type]
           Bad(t) == InvalidSingle(type, index, Len(t.output))
           Hash(t) == SignatureHash(t, index, Key, type)
<1>0. /\ index \in Nat \ {0}
      /\ DOMAIN a.output = 1..Len(a.output) /\ Len(a.output) \in Nat
      /\ DOMAIN b.output = 1..Len(b.output) /\ Len(b.output) \in Nat
  BY DEF TxsOver, Txs
<1>1. /\ Bad(a) <=> type.base = "Single" /\ ~type.any /\ ~HasOutput(a)
      /\ Bad(b) <=> type.base = "Single" /\ ~type.any /\ ~HasOutput(b)
  BY <1>0 DEF InvalidSingle, HasOutput, Types
<1> HIDE DEF Bad
<1>2. /\ Hash(a) = IF Bad(a) THEN One ELSE Rec(a)
      /\ Hash(b) = IF Bad(b) THEN One ELSE Rec(b)
  BY DEF SignatureHash, Bad
<1>3. Rec(a) # One /\ Rec(b) # One
  <2>1. "version" \in DOMAIN Rec(a) /\ "version" \in DOMAIN Rec(b)
    OBVIOUS
  <2>2. "version" \notin DOMAIN One
    BY DEF One
  <2> HIDE DEF Rec
  <2> QED BY <2>1, <2>2
<1>4. CASE Bad(a) \/ Bad(b)
  <2> HIDE DEF Rec, Hash
  <2>1. Hash(a) = Hash(b) <=> Bad(a) /\ Bad(b)
    BY <1>2, <1>3, <1>4
  <2>2. Protected(a, b) <=> Bad(a) /\ Bad(b)
    BY <1>1, <1>4 DEF Protected
  <2>3. Hash(a) = Hash(b) <=> Protected(a, b)
    BY <2>1, <2>2
  <2> QED BY <2>3 DEF Hash
<1>5. CASE ~Bad(a) /\ ~Bad(b)
  <2>1. Hash(a) = Hash(b) <=> Rec(a) = Rec(b)
    BY <1>2, <1>5
  <2>2. Rec(a) = Rec(b) <=>
          /\ a.version = b.version
          /\ a.lock_time = b.lock_time
          /\ SignedInputs(a, index, Key, type) = SignedInputs(b, index, Key, type)
          /\ SignedOutputs(a, index, type) = SignedOutputs(b, index, type)
    OBVIOUS
  <2>3. SignedInputs(a, index, Key, type) = SignedInputs(b, index, Key, type)
          <=> SameInputs(a, b)
    BY HashesInputs
  <2>4. SignedOutputs(a, index, type) = SignedOutputs(b, index, type)
          <=> SameOutputs(a, b)
    BY <1>0, <1>1, <1>5, HashesOutputs
  <2>5. Protected(a, b) <=> /\ a.version = b.version
                                  /\ a.lock_time = b.lock_time
                                  /\ SameInputs(a, b)
                                  /\ SameOutputs(a, b)
    BY <1>1, <1>5 DEF Protected
  <2> HIDE DEF Rec, Hash
  <2>6. Hash(a) = Hash(b) <=> Protected(a, b)
    BY <2>1, <2>2, <2>3, <2>4, <2>5
  <2> QED BY <2>6 DEF Hash
<1> QED BY <1>4, <1>5

\* Scripts of inputs are not hashed.
LEMMA ScriptsNotHashed ==
  ASSUME NEW P, NEW S, NEW Q, NEW V, NEW t \in Txs(P, S, Q, V), NEW i \in DOMAIN t.input,
         NEW sig, NEW pub, NEW n, NEW ty, NEW script
  PROVE  SignatureHash(SetInputScript(t, i, sig, pub), n, script, ty)
           = SignatureHash(t, n, script, ty)
<1> DEFINE u == SetInputScript(t, i, sig, pub)
<1>1. /\ DOMAIN u.input = DOMAIN t.input
      /\ u.version = t.version /\ u.lock_time = t.lock_time /\ u.output = t.output
      /\ \A m \in DOMAIN t.input : /\ u.input[m].prevout = t.input[m].prevout
                                   /\ u.input[m].sequence = t.input[m].sequence
  BY DEF SetInputScript, Txs
<1> HIDE DEF u
<1>2. \A m \in DOMAIN t.input, own \in BOOLEAN :
        SignedInput(u.input[m], own, script, ty) = SignedInput(t.input[m], own, script, ty)
  BY <1>1 DEF SignedInput
<1>3. n \in DOMAIN t.input => SignedInputs(u, n, script, ty) = SignedInputs(t, n, script, ty)
  BY <1>1, <1>2 DEF SignedInputs
<1>4. SignedOutputs(u, n, ty) = SignedOutputs(t, n, ty)
  BY <1>1 DEF SignedOutputs
<1>5. SignatureHash(u, n, script, ty) = SignatureHash(t, n, script, ty)
  BY <1>1, <1>3, <1>4 DEF SignatureHash
<1> QED BY <1>5 DEF u

\* A script put into an input changes nothing else.
LEMMA ScriptKeeps ==
  ASSUME NEW P, NEW S, NEW Q, NEW V, NEW t \in Txs(P, S, Q, V), NEW i \in DOMAIN t.input,
         NEW sig, NEW pub, [signature |-> sig, pubkey |-> pub] \in S,
         NEW u, u = SetInputScript(t, i, sig, pub)
  PROVE  /\ u \in Txs(P, S, Q, V)
         /\ Len(u.input) = Len(t.input)
         /\ u.output = t.output
         /\ u.input[i].script = [signature |-> sig, pubkey |-> pub]
         /\ \A n \in DOMAIN t.input \ {i} : u.input[n] = t.input[n]
         /\ \A n \in DOMAIN t.input : u.input[n].prevout = t.input[n].prevout
<1> DEFINE T  == [prevout : P, script : S, sequence : Q]
           in == [t.input[i] EXCEPT !.script = [signature |-> sig, pubkey |-> pub]]
<1>0. t.input \in Seq(T)
  BY DEF Txs
<1>1. t.input \in Seq(T) /\ i \in 1..Len(t.input) /\ t.input[i] \in T
  <2> HIDE DEF T
  <2> QED BY <1>0, LenProperties, ElementOfSeq
<1>2. in \in T /\ in.script = [signature |-> sig, pubkey |-> pub]
      /\ in.prevout = t.input[i].prevout
  BY <1>1
<1>3. u = [t EXCEPT !.input = [t.input EXCEPT ![i] = in]]
  BY DEF SetInputScript, Txs
<1> HIDE DEF T, in
<1>4. /\ [t.input EXCEPT ![i] = in] \in Seq(T)
      /\ Len([t.input EXCEPT ![i] = in]) = Len(t.input)
      /\ \A n \in 1..Len(t.input) :
           [t.input EXCEPT ![i] = in][n] = IF n = i THEN in ELSE t.input[n]
  BY <1>1, <1>2, ExceptSeq
<1>5. /\ u.input = [t.input EXCEPT ![i] = in]
      /\ u.version = t.version /\ u.lock_time = t.lock_time /\ u.output = t.output
      /\ u = [version |-> u.version, lock_time |-> u.lock_time,
              input |-> u.input, output |-> u.output]
  BY <1>3 DEF Txs
<1>6. u \in Txs(P, S, Q, V)
  BY <1>4, <1>5 DEF Txs, T
<1> QED BY <1>1, <1>2, <1>4, <1>5, <1>6

-----------------------------------------------------------------------------
(* Every edit leaves the signed input its script *)

Hashes(S) == {SignatureHash(t, i, Key, ty) : t \in TxsOver(S), i \in Nat, ty \in Types}
                \cup {One}
Signatures(S) == [signature : {Sign(Key, h) : h \in Hashes(S)}, pubkey : {Key}]
WithSignatures(S) == S \cup {NoScript, Key} \cup Signatures(S)

SignedAs(t) ==
  /\ index \in DOMAIN t.input
  /\ t.input[index].script =
       [signature |-> Sign(Key, SignatureHash(original, index, Key, type)),
        pubkey    |-> Key]
EditInv(S) ==
  /\ original \in TxsOver(S)
  /\ edited \in TxsOver(S)
  /\ type \in Types
  /\ SignedAs(original)
  /\ SignedAs(edited)

LEMMA FrontIsSeq ==
  ASSUME NEW S, NEW s \in Seq(S), s # << >>
  PROVE  /\ Front(s) \in Seq(S)
         /\ Len(Front(s)) = Len(s) - 1
         /\ \A n \in 1..Len(s) - 1 : Front(s)[n] = s[n]
<1>0. Len(s) \in Nat /\ Len(s) # 0 /\ \A n \in 1..Len(s) - 1 : s[n] \in S
  BY EmptySeq, LenProperties, ElementOfSeq
<1>1. /\ SubSeq(s, 1, Len(s) - 1) \in Seq(S)
      /\ Len(SubSeq(s, 1, Len(s) - 1)) = IF 1 <= Len(s) - 1 THEN Len(s) - 1 - 1 + 1 ELSE 0
      /\ \A n \in 1..Len(s) - 1 - 1 + 1 : SubSeq(s, 1, Len(s) - 1)[n] = s[1 + n - 1]
  BY <1>0, SubSeqProperties
<1>2. \A n \in 1..Len(s) - 1 : n \in 1..Len(s) - 1 - 1 + 1 /\ 1 + n - 1 = n
  BY <1>0
<1>3. \A n \in 1..Len(s) - 1 : SubSeq(s, 1, Len(s) - 1)[n] = s[n]
  BY <1>1, <1>2
<1>4. Len(SubSeq(s, 1, Len(s) - 1)) = Len(s) - 1
  <2> DEFINE k == Len(s)
             m == Len(SubSeq(s, 1, k - 1))
  <2>1. k \in Nat /\ k # 0 /\ m = IF 1 <= k - 1 THEN k - 1 - 1 + 1 ELSE 0
    BY <1>0, <1>1
  <2> HIDE DEF k, m
  <2>2. m = k - 1
    BY <2>1
  <2> QED BY <2>2 DEF k, m
<1> QED BY <1>1, <1>3, <1>4 DEF Front

LEMMA TxsGrow ==
  ASSUME NEW S, NEW R, S \subseteq R PROVE TxsOver(S) \subseteq TxsOver(R)
<1> DEFINE In(X)  == [prevout : Prevouts, script : X, sequence : Sequences]
           Out(X) == [value : Values, script : X]
<1>1. In(S) \subseteq In(R) /\ Out(S) \subseteq Out(R)
  OBVIOUS
<1>2. Seq(In(S)) \subseteq Seq(In(R)) /\ Seq(Out(S)) \subseteq Seq(Out(R))
  <2> HIDE DEF In, Out
  <2> QED BY <1>1, SeqMonotonic
<1> QED BY <1>2 DEF TxsOver, Txs

LEMMA EditInit ==
  ASSUME NEW S, Unsigned \subseteq TxsOver(S), Init
  PROVE  EditInv(WithSignatures(S))
<1> DEFINE R == WithSignatures(S)
<1>1. PICK t \in Unsigned, ty \in HashTypes : \E i \in DOMAIN t.input :
        /\ original = SetInputScript(t, i,
                        Sign(Key, SignatureHash(t, i, Key, ty)), Key)
        /\ edited = original
        /\ index = i
        /\ type = ty
  BY DEF Init
<1> DEFINE sig == Sign(Key, SignatureHash(t, index, Key, ty))
<1>2. /\ index \in DOMAIN t.input
      /\ original = SetInputScript(t, index, sig, Key)
      /\ edited = original /\ type = ty
  BY <1>1
<1>3. t \in TxsOver(S) /\ ty \in Types /\ index \in Nat
  <2>1. DOMAIN t.input = 1..Len(t.input) /\ Len(t.input) \in Nat
    BY DEF TxsOver, Txs
  <2>2. t \in TxsOver(S)
    OBVIOUS
  <2> QED BY <1>2, <2>1, <2>2, HashTypesAssumption DEF Types
<1>4. [signature |-> sig, pubkey |-> Key] \in R /\ S \subseteq R
  BY <1>3 DEF WithSignatures, Signatures, Hashes
<1>5. SignatureHash(original, index, Key, type) = SignatureHash(t, index, Key, ty)
  <2>1. t \in Txs(Prevouts, S, Sequences, Values)
    BY <1>3 DEF TxsOver
  <2> HIDE DEF sig
  <2>2. SignatureHash(SetInputScript(t, index, sig, Key), index, Key, ty)
          = SignatureHash(t, index, Key, ty)
    BY <1>2, <2>1, ScriptsNotHashed
  <2> QED BY <1>2, <2>2
<1> HIDE DEF R
<1>6. t \in Txs(Prevouts, R, Sequences, Values)
  BY <1>3, <1>4, TxsGrow DEF TxsOver
<1> HIDE DEF sig
<1>7. /\ original \in Txs(Prevouts, R, Sequences, Values)
      /\ Len(original.input) = Len(t.input)
      /\ original.input[index].script = [signature |-> sig, pubkey |-> Key]
  BY <1>2, <1>4, <1>6, ScriptKeeps
<1>8. index \in DOMAIN original.input
  BY <1>2, <1>6, <1>7 DEF Txs
<1>9. EditInv(R)
  BY <1>2, <1>3, <1>5, <1>7, <1>8 DEF EditInv, SignedAs, TxsOver, sig
<1> QED BY <1>9 DEF R

LEMMA EditKeeps ==
  ASSUME NEW CONSTANT S, EditInv(S), NEW t \in TxsOver(S), Edit(t),
         index \in DOMAIN t.input, t.input[index].script = edited.input[index].script
  PROVE  EditInv(S)'
<1>1. edited' = t /\ original' = original /\ index' = index /\ type' = type
  BY DEF Edit
<1> QED BY <1>1 DEF EditInv, SignedAs

LEMMA EditStep ==
  ASSUME NEW CONSTANT S, {NoScript, Key} \subseteq S,
         [signature |-> Sign(Key, One), pubkey |-> Key] \in S,
         EditInv(S), Next
  PROVE  EditInv(S)'
<1> DEFINE In  == [prevout : Prevouts, script : S, sequence : Sequences]
           Out == [value : Values, script : S]
<1>0. /\ edited.version \in Int /\ edited.lock_time \in Int
      /\ edited.input \in Seq(In) /\ edited.output \in Seq(Out)
      /\ edited = [version |-> edited.version, lock_time |-> edited.lock_time,
                   input |-> edited.input, output |-> edited.output]
  BY DEF EditInv, TxsOver, Txs
<1>1. index \in 1..Len(edited.input) /\ Len(edited.input) \in Nat
  BY <1>0 DEF EditInv, SignedAs
<1>2. /\ \A out \in Seq(Out) : /\ [edited EXCEPT !.output = out] \in TxsOver(S)
                               /\ [edited EXCEPT !.output = out].input = edited.input
      /\ \A in \in Seq(In) : /\ [edited EXCEPT !.input = in] \in TxsOver(S)
                             /\ [edited EXCEPT !.input = in].input = in
      /\ \A n \in Int : /\ [edited EXCEPT !.lock_time = n] \in TxsOver(S)
                        /\ [edited EXCEPT !.lock_time = n].input = edited.input
  BY <1>0 DEF TxsOver, Txs
<1>3. \A out \in Seq(Out) : Edit([edited EXCEPT !.output = out]) => EditInv(S)'
  <2> SUFFICES ASSUME NEW out \in Seq(Out), Edit([edited EXCEPT !.output = out])
               PROVE  EditInv(S)'
    OBVIOUS
  <2> DEFINE t == [edited EXCEPT !.output = out]
  <2>1. t \in TxsOver(S) /\ t.input = edited.input /\ Edit(t)
    BY <1>2
  <2>2. index \in DOMAIN edited.input
    BY <1>0, <1>1
  <2> HIDE DEF t
  <2> QED BY <2>1, <2>2, EditKeeps
<1>4. \A in \in Seq(In) :
        /\ Edit([edited EXCEPT !.input = in])
        /\ index \in 1..Len(in)
        /\ in[index].script = edited.input[index].script
        => EditInv(S)'
  <2> HIDE DEF In
  <2> SUFFICES ASSUME NEW in \in Seq(In),
                      Edit([edited EXCEPT !.input = in]),
                      index \in 1..Len(in),
                      in[index].script = edited.input[index].script
               PROVE  EditInv(S)'
    OBVIOUS
  <2> DEFINE t == [edited EXCEPT !.input = in]
  <2>1. t \in TxsOver(S) /\ t.input = in /\ Edit(t)
    BY <1>2
  <2> HIDE DEF t
  <2>2. index \in DOMAIN t.input
    BY <2>1
  <2> QED BY <2>1, <2>2, EditKeeps
<1>5. CASE EditOutput
  <2>1. PICK n \in DOMAIN edited.output, v \in Values :
          Edit([edited EXCEPT !.output[n].value = v])
    BY <1>5 DEF EditOutput
  <2> DEFINE out == [edited.output[n] EXCEPT !.value = v]
  <2>2. [edited EXCEPT !.output[n].value = v]
          = [edited EXCEPT !.output = [edited.output EXCEPT ![n] = out]]
    BY <1>0
  <2>3. edited.output[n] \in Out
    <3> HIDE DEF Out
    <3> QED BY <1>0
  <2>4. out \in Out
    BY <2>3
  <2>5. n \in 1..Len(edited.output)
    BY <1>0
  <2> HIDE DEF Out, out
  <2>6. [edited.output EXCEPT ![n] = out] \in Seq(Out)
    BY <1>0, <2>4, <2>5, ExceptSeq
  <2> QED BY <1>3, <2>1, <2>2, <2>6
<1>6. CASE AddOutput
  <2>1. PICK v \in Values :
          Edit([edited EXCEPT !.output = Append(@, [value |-> v, script |-> Key])])
    BY <1>6 DEF AddOutput
  <2>2. Append(edited.output, [value |-> v, script |-> Key]) \in Seq(Out)
    BY <1>0
  <2> QED BY <1>3, <2>1, <2>2
<1>7. CASE DropOutput
  <2>1. Edit([edited EXCEPT !.output = Front(@)]) /\ edited.output # << >>
    BY <1>7 DEF DropOutput, Front
  <2>2. Front(edited.output) \in Seq(Out)
    <3> HIDE DEF Out
    <3> QED BY <1>0, <2>1, FrontIsSeq
  <2> QED BY <1>3, <2>1, <2>2
<1>8. CASE EditPrevout \/ EditSequence
  <2>1. PICK n \in DOMAIN edited.input, p \in Prevouts, q \in Sequences :
          \/ Edit([edited EXCEPT !.input[n].prevout = p])
          \/ Edit([edited EXCEPT !.input[n].sequence = q])
    <3>0. edited.input[index] \in In
      <4> HIDE DEF In
      <4> QED BY <1>0, <1>1
    <3>1. edited.input[index].prevout \in Prevouts /\ edited.input[index].sequence \in Sequences
      BY <3>0
    <3> QED BY <1>8, <3>1 DEF EditPrevout, EditSequence
  <2>2. PICK in \in In : /\ in.script = edited.input[n].script
                         /\ Edit([edited EXCEPT !.input = [edited.input EXCEPT ![n] = in]])
    <3> DEFINE in1 == [edited.input[n] EXCEPT !.prevout = p]
               in2 == [edited.input[n] EXCEPT !.sequence = q]
    <3>1. /\ [edited EXCEPT !.input[n].prevout = p]
               = [edited EXCEPT !.input = [edited.input EXCEPT ![n] = in1]]
          /\ [edited EXCEPT !.input[n].sequence = q]
               = [edited EXCEPT !.input = [edited.input EXCEPT ![n] = in2]]
      BY <1>0
    <3>2. edited.input[n] \in In
      <4> HIDE DEF In
      <4> QED BY <1>0
    <3>3. in1 \in In /\ in2 \in In
      BY <3>2
    <3>4. in1.script = edited.input[n].script /\ in2.script = edited.input[n].script
      BY <3>2
    <3> HIDE DEF in1, in2, In
    <3> QED BY <2>1, <3>1, <3>3, <3>4
  <2>3. n \in 1..Len(edited.input)
    BY <1>0
  <2> HIDE DEF In
  <2>4. /\ [edited.input EXCEPT ![n] = in] \in Seq(In)
        /\ Len([edited.input EXCEPT ![n] = in]) = Len(edited.input)
        /\ [edited.input EXCEPT ![n] = in][index]
             = IF index = n THEN in ELSE edited.input[index]
    BY <1>0, <1>1, <2>3, ExceptSeq
  <2> QED BY <1>1, <1>4, <2>2, <2>4
<1>9. CASE EditScript
  <2>1. PICK n \in DOMAIN edited.input \ {index} :
          Edit(SetInputScript(edited, n, Sign(Key, One), Key))
    BY <1>9 DEF EditScript
  <2> DEFINE t == SetInputScript(edited, n, Sign(Key, One), Key)
  <2>2. t = SetInputScript(edited, n, Sign(Key, One), Key)
    OBVIOUS
  <2>3. edited \in Txs(Prevouts, S, Sequences, Values)
    BY DEF EditInv, TxsOver
  <2> HIDE DEF t
  <2>4. /\ t \in Txs(Prevouts, S, Sequences, Values)
        /\ Len(t.input) = Len(edited.input)
        /\ t.input[index] = edited.input[index]
    BY <1>0, <1>1, <2>1, <2>2, <2>3, ScriptKeeps
  <2>5. index \in DOMAIN t.input
    BY <1>1, <2>4 DEF Txs
  <2> QED BY <2>1, <2>4, <2>5, EditKeeps DEF t, TxsOver
<1>10. CASE AddInput
  <2>1. PICK p \in Prevouts, q \in Sequences :
          Edit([edited EXCEPT !.input =
            Append(@, [prevout |-> p, script |-> NoScript, sequence |-> q])])
    BY <1>10 DEF AddInput
  <2> DEFINE in == [prevout |-> p, script |-> NoScript, sequence |-> q]
  <2>2. in \in In
    OBVIOUS
  <2> HIDE DEF In, in
  <2>3. /\ Append(edited.input, in) \in Seq(In)
        /\ index \in 1..Len(Append(edited.input, in))
        /\ Append(edited.input, in)[index] = edited.input[index]
    BY <1>0, <1>1, <2>2
  <2> QED BY <1>4, <2>1, <2>3 DEF in
<1>11. CASE DropInput
  <2>1. Edit([edited EXCEPT !.input = Front(@)]) /\ Len(edited.input) > index
    BY <1>11 DEF DropInput, Front
  <2> HIDE DEF In
  <2>2. /\ Front(edited.input) \in Seq(In)
        /\ Len(Front(edited.input)) = Len(edited.input) - 1
        /\ \A n \in 1..Len(edited.input) - 1 : Front(edited.input)[n] = edited.input[n]
    BY <1>0, <1>1, <2>1, FrontIsSeq
  <2> QED BY <1>1, <1>4, <2>1, <2>2
<1>12. CASE EditLockTime
  <2>1. Edit([edited EXCEPT !.lock_time = 1 - @])
    BY <1>12 DEF EditLockTime
  <2>2. 1 - edited.lock_time \in Int
    BY <1>0
  <2> DEFINE t == [edited EXCEPT !.lock_time = 1 - edited.lock_time]
  <2>3. t \in TxsOver(S) /\ t.input = edited.input
    BY <1>2, <2>2
  <2>4. Edit(t)
    BY <2>1
  <2> HIDE DEF t
  <2> QED BY <1>0, <1>1, <2>3, <2>4, EditKeeps
<1> QED BY <1>5, <1>6, <1>7, <1>8, <1>9, <1>10, <1>11, <1>12 DEF Next

\* Every edit is one the invariant survives, from any transactions.
LEMMA EditAlways ==
  ASSUME NEW CONSTANT S, Unsigned \subseteq TxsOver(S)
  PROVE  /\ Init => EditInv(WithSignatures(S))
         /\ EditInv(WithSignatures(S)) /\ [Next]_(vars)
              => EditInv(WithSignatures(S))'
<1> DEFINE R == WithSignatures(S)
<1>1. Init => EditInv(R)
  BY EditInit
<1>2. /\ {NoScript, Key} \subseteq R
      /\ [signature |-> Sign(Key, One), pubkey |-> Key] \in R
  BY DEF WithSignatures, Signatures, Hashes
<1> HIDE DEF R
<1>3. EditInv(R) /\ Next => EditInv(R)'
  BY <1>2, EditStep
<1>4. EditInv(R) /\ UNCHANGED vars => EditInv(R)'
  BY DEF vars, EditInv, SignedAs
<1>5. EditInv(R) /\ [Next]_(vars) => EditInv(R)'
  BY <1>3, <1>4
<1> QED BY <1>1, <1>5 DEF R

LEMMA HoldsIfProtected ==
  ASSUME NEW S, EditInv(S)
  PROVE  Verifies(edited, index, Key, type) <=> Protected(original, edited)
<1> DEFINE Hash(t) == SignatureHash(t, index, Key, type)
<1>1. Hash(edited) = Hash(original) <=> Protected(original, edited)
  BY HashMeans DEF EditInv, SignedAs
<1> HIDE DEF Hash
<1>2. edited.input[index].script =
        [signature |-> Sign(Key, Hash(original)), pubkey |-> Key]
  BY DEF EditInv, SignedAs, Hash
<1>3. Verifies(edited, index, Key, type) <=>
        edited.input[index].script =
          [signature |-> Sign(Key, Hash(edited)), pubkey |-> Key]
  BY DEF EditInv, SignedAs, Hash, Verifies
<1>4. Verifies(edited, index, Key, type) <=> Hash(edited) = Hash(original)
  BY <1>2, <1>3 DEF Sign
<1> QED BY <1>1, <1>4

\* sighash.rs: whatever is signed, with whatever type of hash, and however
\* it is edited, the signature holds exactly as long as nothing that its
\* type protects has changed.
THEOREM SignatureCommits ==
  ASSUME NEW CONSTANT Scripts, Unsigned \subseteq TxsOver(Scripts)
  PROVE  Spec => []CommitsToType
<1> DEFINE R == WithSignatures(Scripts)
<1>0. /\ Init => EditInv(R)
      /\ EditInv(R) /\ [Next]_(vars) => EditInv(R)'
  BY EditAlways
<1> HIDE DEF R
<1>1. Spec => []EditInv(R)
  BY <1>0, PTL DEF Spec
<1>2. EditInv(R) => CommitsToType
  BY HoldsIfProtected DEF CommitsToType
<1> QED BY <1>1, <1>2, PTL

\* With SIGHASH_ALL, the type the canisters sign with, a signature that
\* still holds fixes what is spent and what is paid.
THEOREM PaymentFixed ==
  ASSUME NEW CONSTANT Scripts, Unsigned \subseteq TxsOver(Scripts)
  PROVE  Spec => []AllFixesPayment
<1> DEFINE R == WithSignatures(Scripts)
<1>0. /\ Init => EditInv(R)
      /\ EditInv(R) /\ [Next]_(vars) => EditInv(R)'
  BY EditAlways
<1> HIDE DEF R
<1>1. Spec => []EditInv(R)
  BY <1>0, PTL DEF Spec
<1>2. EditInv(R) => AllFixesPayment
  <2> SUFFICES ASSUME EditInv(R), type = AllType, Verifies(edited, index, Key, type)
               PROVE  /\ edited.output = original.output
                      /\ [n \in DOMAIN edited.input |-> edited.input[n].prevout]
                           = [n \in DOMAIN original.input |-> original.input[n].prevout]
    BY DEF AllFixesPayment
  <2>1. /\ SameInputs(original, edited)
        /\ SameOutputs(original, edited)
    BY HoldsIfProtected DEF Protected, AllType
  <2>2. original.output = edited.output
    BY <2>1 DEF SameOutputs, AllType
  <2>3. /\ Len(original.input) = Len(edited.input)
        /\ \A n \in DOMAIN original.input : original.input[n].prevout = edited.input[n].prevout
    BY <2>1 DEF SameInputs, AllType
  <2>4. DOMAIN original.input = DOMAIN edited.input
    BY <2>3 DEF EditInv, TxsOver, Txs
  <2> QED BY <2>2, <2>3, <2>4
<1> QED BY <1>1, <1>2, PTL
=============================================================================
