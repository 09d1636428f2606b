---------------------------- MODULE PayoutSafety ----------------------------
(***************************************************************************)
(* Proofs about the calls of PayoutTx: the signatures made so far stand,   *)
(* they are the owners', the network accepts the minter's payout, it costs *)
(* the burned amount and no more than the dust, and fees are what is       *)
(* reported and cover the rate.                                            *)
(***************************************************************************)
EXTENDS PayoutTx, Sums, SequenceTheorems

\* EditSafety has the facts about hashing and setting a script; they hold of
\* any transaction, so its own state is of no account here.
Hashing == INSTANCE EditSafety
  WITH Unsigned <- {}, Key <- NoScript, Values <- {}, Prevouts <- {}, Sequences <- {},
       MaxEdits <- 0, original <- tx, edited <- tx, index <- signed, type <- AllType,
       edits <- 0

\* The operators of Sighash, as EditSafety knows them.
LEMMA SameOperators ==
  ASSUME NEW t, NEW i, NEW sig, NEW pub, NEW ty
  PROVE  /\ Hashing!SetInputScript(t, i, sig, pub) = SetInputScript(t, i, sig, pub)
         /\ Hashing!SignatureHash(t, i, pub, ty) = SignatureHash(t, i, pub, ty)
<1>1. Hashing!SetInputScript(t, i, sig, pub) = SetInputScript(t, i, sig, pub)
  BY DEF Hashing!SetInputScript, SetInputScript
<1>2. Hashing!SignedOutputs(t, i, ty) = SignedOutputs(t, i, ty)
  BY DEF Hashing!SignedOutputs, SignedOutputs, Hashing!NullOut, NullOut
<1>3. Hashing!SignedInputs(t, i, pub, ty) = SignedInputs(t, i, pub, ty)
  BY DEF Hashing!SignedInputs, SignedInputs, Hashing!SignedInput, SignedInput
<1>4. Hashing!SignatureHash(t, i, pub, ty) = SignatureHash(t, i, pub, ty)
  BY <1>2, <1>3 DEF Hashing!SignatureHash, SignatureHash, Hashing!InvalidSingle, InvalidSingle,
     Hashing!One, One, Hashing!ErrIndex, ErrIndex
<1> QED BY <1>1, <1>4

LEMMA SameTypes == HashTypes \subseteq [base : Hashing!Bases, any : BOOLEAN]
  BY HashTypesAssumption DEF Bases, Hashing!Bases

-----------------------------------------------------------------------------
(* The signatures made so far stand *)

IsTx(t) == \E S, V : t \in Hashing!Txs(Utxos, S, {MaxValue}, V)

SignInv ==
  /\ IsTx(tx)
  /\ call.utxos \in Seq(Utxos)
  /\ signed \in 0..Len(tx.input)
  /\ pc \in {"idle", "created", "refused"} => signed = 0
  /\ pc = "sent" => signed = Len(tx.input)
  /\ SignaturesStand

IsOuts(outs) == \E S, V : outs \in Seq([value : V, script : S])
LEMMA UnsignedIsTx ==
  ASSUME NEW us \in Seq(Utxos), NEW outs, IsOuts(outs)
  PROVE  /\ IsTx(UnsignedTx(us, outs))
         /\ UnsignedTx(us, outs).output = outs
         /\ DOMAIN UnsignedTx(us, outs).input = DOMAIN us
         /\ Len(UnsignedTx(us, outs).input) = Len(us)
         /\ \A n \in DOMAIN us : UnsignedTx(us, outs).input[n].prevout = us[n]
<1>a. PICK S, V : outs \in Seq([value : V, script : S])
  BY DEF IsOuts
<1> DEFINE R     == S \cup {NoScript}
           In(n) == [prevout |-> us[n], script |-> NoScript, sequence |-> MaxValue]
           T     == [prevout : Utxos, script : R, sequence : {MaxValue}]
           Out(X) == [value : V, script : X]
<1>0. DOMAIN us = 1..Len(us) /\ Len(us) \in Nat
  BY LenProperties
<1>1. outs \in Seq(Out(R))
  <2>1. Out(S) \subseteq Out(R)
    OBVIOUS
  <2>2. outs \in Seq(Out(S))
    BY <1>a
  <2> HIDE DEF Out
  <2> QED BY <2>1, <2>2, SeqMonotonic
<1>2. \A n \in 1..Len(us) : In(n) \in T
  BY <1>0
<1>3. [n \in DOMAIN us |-> In(n)] \in Seq(T) /\ Len([n \in DOMAIN us |-> In(n)]) = Len(us)
  <2> HIDE DEF In, T
  <2> QED BY <1>0, <1>2
<1>4. UnsignedTx(us, outs) = [version |-> 1, lock_time |-> 0,
                              input |-> [n \in DOMAIN us |-> In(n)], output |-> outs]
  BY DEF UnsignedTx
<1>5. UnsignedTx(us, outs) \in Hashing!Txs(Utxos, R, {MaxValue}, V)
  <2> HIDE DEF In
  <2> QED BY <1>1, <1>3, <1>4 DEF Hashing!Txs
<1>6. IsTx(UnsignedTx(us, outs))
  BY <1>5 DEF IsTx
<1> HIDE DEF R
<1> QED BY <1>3, <1>4, <1>6

LEMMA CallTypes ==
  ASSUME NEW B, NEW c \in Calls(B)
  PROVE  c.by \in B /\ c.utxos \in Seq(Utxos) /\ c.utxos # << >> /\ c.amount \in Amounts
           /\ c.rate \in FeeRates /\ c.utxos \in SeqOf(Utxos, MaxInputs)
<1>1. c.utxos \in SeqOf(Utxos, MaxInputs) /\ c.utxos # << >>
  BY DEF Calls
<1>2. c.utxos \in Seq(Utxos)
  <2>1. PICK m \in 0..MaxInputs : c.utxos \in [1..m -> Utxos]
    BY <1>1 DEF SeqOf
  <2>2. m \in Nat
    BY PayoutAssumption
  <2> QED BY <2>1, <2>2
<1> QED BY <1>1, <1>2 DEF Calls

LEMMA TwoOutputs ==
  ASSUME NEW v, NEW w, NEW a, NEW b
  PROVE  IsOuts(<< Pay(v, a) >>) /\ IsOuts(<< Pay(v, a), Pay(w, b) >>)
<1> DEFINE O == [value : {v, w}, script : {a, b}]
<1>1. Pay(v, a) \in O /\ Pay(w, b) \in O
  BY DEF Pay
<1>2. << Pay(v, a) >> \in Seq(O) /\ << Pay(v, a), Pay(w, b) >> \in Seq(O)
  <2> HIDE DEF O
  <2> QED BY <1>1
<1> QED BY <1>2 DEF IsOuts

\* What create_tx and burn_utxos build spends the outputs they were given.
LEMMA Built ==
  ASSUME NEW c, c.utxos \in Seq(Utxos), NEW t, t \in {CreatedTx(c), BurnTx(c)}
  PROVE  /\ IsTx(t)
         /\ DOMAIN t.input = DOMAIN c.utxos
         /\ Len(t.input) = Len(c.utxos)
         /\ \A n \in DOMAIN c.utxos : t.input[n].prevout = c.utxos[n]
<1>1. \E v, w, a, b : \/ t = UnsignedTx(c.utxos, << Pay(v, a) >>)
                     \/ t = UnsignedTx(c.utxos, << Pay(v, a), Pay(w, b) >>)
  <2>1. CASE t = CreatedTx(c)
    BY <2>1 DEF CreatedTx, DraftTx
  <2>2. CASE t = BurnTx(c)
    <3>1. BurnDraft(c).output[2] = Pay(Monus(Total(c.utxos), c.amount), Minter)
      BY DEF BurnDraft, UnsignedTx
    <3> QED BY <2>2, <3>1 DEF BurnTx
  <2> QED BY <2>1, <2>2
<1>2. PICK v, w, a, b : \/ t = UnsignedTx(c.utxos, << Pay(v, a) >>)
                        \/ t = UnsignedTx(c.utxos, << Pay(v, a), Pay(w, b) >>)
  BY <1>1
<1>3. IsOuts(<< Pay(v, a) >>) /\ IsOuts(<< Pay(v, a), Pay(w, b) >>)
  BY TwoOutputs
<1>4. CASE t = UnsignedTx(c.utxos, << Pay(v, a) >>)
  BY <1>3, <1>4, UnsignedIsTx
<1>5. CASE t = UnsignedTx(c.utxos, << Pay(v, a), Pay(w, b) >>)
  BY <1>3, <1>5, UnsignedIsTx
<1> QED BY <1>2, <1>4, <1>5

\* One turn of the signing loop.
LEMMA SignInputKeeps ==
  ASSUME SignInv, SignInput
  PROVE  /\ SignInv'
         /\ Len(tx'.input) = Len(tx.input)
         /\ tx'.output = tx.output
         /\ \A n \in DOMAIN tx.input : tx'.input[n].prevout = tx.input[n].prevout
<1> DEFINE i   == signed + 1
           key == signer[i]
           sig == Sign(key, SignatureHash(tx, i, key, AllType))
<1>1. PICK S, V : tx \in Hashing!Txs(Utxos, S, {MaxValue}, V)
  BY DEF SignInv, IsTx
<1> DEFINE R == S \cup {[signature |-> sig, pubkey |-> key]}
<1>2. tx \in Hashing!Txs(Utxos, R, {MaxValue}, V)
  <2> DEFINE In(X)  == [prevout : Utxos, script : X, sequence : {MaxValue}]
             Out(X) == [value : V, script : X]
  <2>1. In(S) \subseteq In(R) /\ Out(S) \subseteq Out(R)
    OBVIOUS
  <2>2. Seq(In(S)) \subseteq Seq(In(R)) /\ Seq(Out(S)) \subseteq Seq(Out(R))
    <3> HIDE DEF In, Out
    <3> QED BY <2>1, SeqMonotonic
  <2> QED BY <1>1, <2>2 DEF Hashing!Txs
<1>3. /\ DOMAIN tx.input = 1..Len(tx.input) /\ Len(tx.input) \in Nat
      /\ signed \in Nat /\ signed < Len(tx.input) /\ signed <= Len(tx.input)
  BY <1>1 DEF SignInv, SignInput, Hashing!Txs
<1>4. i \in DOMAIN tx.input
  BY <1>3
<1>5. tx' = SetInputScript(tx, i, sig, key) /\ signed' = i /\ pc' = "signing"
      /\ signer' = signer /\ call' = call
  BY DEF SignInput
<1>6. [signature |-> sig, pubkey |-> key] \in R
  OBVIOUS
<1> HIDE DEF R
<1>7. /\ tx' \in Hashing!Txs(Utxos, R, {MaxValue}, V)
      /\ Len(tx'.input) = Len(tx.input)
      /\ tx'.output = tx.output
      /\ tx'.input[i].script = [signature |-> sig, pubkey |-> key]
      /\ \A n \in DOMAIN tx.input \ {i} : tx'.input[n] = tx.input[n]
      /\ \A n \in DOMAIN tx.input : tx'.input[n].prevout = tx.input[n].prevout
  <2> HIDE DEF sig, key, i
  <2>1. tx' = Hashing!SetInputScript(tx, i, sig, key)
    BY <1>5, SameOperators
  <2> QED BY <1>2, <1>4, <1>6, <2>1, Hashing!ScriptKeeps, SameTypes
<1>8. \A n, k : SignatureHash(tx', n, k, AllType) = SignatureHash(tx, n, k, AllType)
  <2> HIDE DEF sig, key, i
  <2>1. \A n, k : Hashing!SignatureHash(Hashing!SetInputScript(tx, i, sig, key), n, k, AllType)
                    = Hashing!SignatureHash(tx, n, k, AllType)
    BY <1>2, <1>4, Hashing!ScriptsNotHashed, SameTypes
  <2> QED BY <1>5, <2>1, SameOperators
<1>9. DOMAIN tx'.input = 1..Len(tx.input)
  BY <1>7 DEF Hashing!Txs
<1>10. ASSUME NEW n \in 1..i PROVE Verifies(tx', n, signer[n], AllType)
  <2>1. CASE n = i
    BY <1>3, <1>7, <1>8, <1>9, <2>1 DEF Verifies
  <2>2. CASE n # i
    <3>1. n \in 1..signed /\ n \in DOMAIN tx.input \ {i}
      BY <1>3, <2>2
    <3>2. Verifies(tx, n, signer[n], AllType)
      BY <3>1 DEF SignInv, SignaturesStand
    <3>3. tx'.input[n] = tx.input[n]
      BY <1>7, <3>1
    <3> QED BY <1>3, <1>8, <1>9, <3>1, <3>2, <3>3 DEF Verifies
  <2> QED BY <2>1, <2>2
<1>11. SignaturesStand'
  BY <1>5, <1>10 DEF SignaturesStand
<1>12. IsTx(tx')
  BY <1>7 DEF IsTx
<1>13. signed' \in 0..Len(tx'.input)
  BY <1>3, <1>5, <1>7
<1> QED BY <1>5, <1>7, <1>11, <1>12, <1>13 DEF SignInv

LEMMA SignStep ==
  ASSUME SignInv, [Next]_vars PROVE SignInv'
<1>0. Len(tx.input) \in Nat
  BY DEF SignInv, IsTx, Hashing!Txs
<1>1. CASE CreateTx
  <2>1. PICK c \in Calls(Users) :
          /\ call' = c
          /\ \/ pc' = "refused" /\ UNCHANGED <<tx, fee>>
             \/ pc' = "created" /\ tx' = CreatedTx(c)
    BY <1>1 DEF CreateTx
  <2>2. c.utxos \in Seq(Utxos)
    BY CallTypes
  <2>3. pc = "idle" /\ signed' = signed /\ signed = 0
    BY <1>1 DEF CreateTx, SignInv
  <2>4. IsTx(tx') /\ Len(tx'.input) \in Nat
    <3>1. CASE tx' = tx
      BY <1>0, <3>1 DEF SignInv
    <3>2. CASE tx' = CreatedTx(c)
      BY <2>2, <3>2, Built
    <3> QED BY <2>1, <3>1, <3>2
  <2>5. SignaturesStand'
    BY <2>3 DEF SignaturesStand
  <2> QED BY <2>1, <2>2, <2>3, <2>4, <2>5 DEF SignInv
<1>2. CASE SignTx
  <2>1. signed' = 0 /\ pc' = "signing" /\ tx' = tx /\ call'.utxos = call.utxos
    <3>1. call'.utxos = call.utxos
      BY <1>2 DEF SignTx
    <3> QED BY <1>2, <3>1 DEF SignTx
  <2>2. SignaturesStand'
    BY <2>1 DEF SignaturesStand
  <2> QED BY <1>0, <2>1, <2>2 DEF SignInv
<1>3. CASE Burn
  <2>1. PICK c \in Calls({Minter}) : call' = c /\ tx' = BurnTx(c)
    BY <1>3 DEF Burn
  <2>2. c.utxos \in Seq(Utxos)
    BY CallTypes
  <2>3. signed' = 0 /\ pc' = "signing"
    BY <1>3 DEF Burn
  <2>4. IsTx(tx') /\ Len(tx'.input) \in Nat
    BY <2>1, <2>2, Built
  <2>5. SignaturesStand'
    BY <2>3 DEF SignaturesStand
  <2> QED BY <2>1, <2>2, <2>3, <2>4, <2>5 DEF SignInv
<1>4. CASE SignInput
  BY <1>4, SignInputKeeps
<1>5. CASE SignFails
  BY <1>5 DEF SignFails, SignInv, SignaturesStand
<1>6. CASE Send
  BY <1>6 DEF Send, SignInv, SignaturesStand
<1>7. CASE UNCHANGED vars
  BY <1>7 DEF vars, SignInv, SignaturesStand
<1> QED BY <1>1, <1>2, <1>3, <1>4, <1>5, <1>6, <1>7 DEF Next

LEMMA SignInit == Init => SignInv
<1> SUFFICES ASSUME Init PROVE SignInv
  OBVIOUS
<1> DEFINE us   == << >>
           outs == << >>
<1>1. us \in Seq(Utxos) /\ IsOuts(outs) /\ Len(us) = 0
  BY DEF IsOuts
<1>2. IsTx(NoTx) /\ Len(NoTx.input) = 0
  <2>1. NoTx = UnsignedTx(us, outs)
    BY DEF NoTx
  <2> HIDE DEF us, outs
  <2> QED BY <1>1, <2>1, UnsignedIsTx
<1>3. SignaturesStand
  BY DEF Init, SignaturesStand
<1> QED BY <1>1, <1>2, <1>3 DEF Init, SignInv

\* sign_and_send_tx and burn_utxos: each signature is made before the
\* scripts of the later inputs are in place, and still stands when they are.
THEOREM SignaturesHold == Spec => []SignaturesStand
<1>1. SignInv => SignaturesStand
  BY DEF SignInv
<1> QED BY <1>1, SignInit, SignStep, PTL DEF Spec

-----------------------------------------------------------------------------
(* What a call spends, pays and signs with, at each of its points *)

\* The call as its creator made it: others may sign and send again.
CreatedBy(by) == [call EXCEPT !.by = by]
IsCall ==
  call \in [by : Users \cup {Minter}, utxos : Seq(Utxos),
           amount : Amounts \cup {0}, rate : FeeRates \cup {0}]
Spends ==
  pc \in {"created", "signing", "sent"} =>
    /\ Len(tx.input) = Len(call.utxos)
    /\ \A n \in DOMAIN tx.input : tx.input[n].prevout = call.utxos[n]
IsCreated == pc = "created" => tx = CreatedTx(call) /\ fee = ReportedFee(call) /\ ~Refuses(call)
Creates(c) == c.amount \in Amounts /\ c.rate \in FeeRates /\ c.utxos \in SeqOf(Utxos, MaxInputs)
ByUser ==
  /\ pc = "created" => call.by # Minter /\ Creates(call)
  /\ pc \in {"signing", "sent"} /\ call.by # Minter =>
       /\ signer = [n \in DOMAIN call.utxos |-> call.by]
       /\ Creates(call)
       /\ \E by \in Users : /\ tx.output = CreatedTx(CreatedBy(by)).output
                           /\ fee = ReportedFee(CreatedBy(by))
                           /\ ~Refuses(CreatedBy(by))
ByMinter ==
  pc \in {"signing", "sent"} /\ call.by = Minter =>
    /\ signer = [n \in DOMAIN call.utxos |-> OwnerKey(call.utxos, n)]
    /\ Creates(call)
    /\ call.amount >= 10 * DustLimit
    /\ IsInjective(call.utxos)
    /\ Total(call.utxos) >= call.amount
    /\ tx.output = BurnTx(call).output
    /\ fee = BurnFee(call)
BuildInv == SignInv /\ IsCall /\ Spends /\ IsCreated /\ ByUser /\ ByMinter

LEMMA NotMinter == \A u \in Users : u # Minter /\ u # Receiver
  BY PayoutAssumption

LEMMA BuildStep ==
  ASSUME BuildInv, [Next]_vars PROVE BuildInv'
<1>0. SignInv'
  BY SignStep DEF BuildInv
<1>1. CASE CreateTx
  <2>1. PICK c \in Calls(Users) :
          /\ call' = c
          /\ \/ pc' = "refused"
             \/ /\ pc' = "created" /\ tx' = CreatedTx(c) /\ fee' = ReportedFee(c)
                /\ ~Refuses(c)
    BY <1>1 DEF CreateTx
  <2>2. Creates(c) /\ c.utxos \in Seq(Utxos) /\ c.by \in Users
    BY CallTypes DEF Creates
  <2>3. IsCall'
    <3>1. c = [by |-> c.by, utxos |-> c.utxos, amount |-> c.amount, rate |-> c.rate]
      BY DEF Calls
    <3> QED BY <2>1, <2>2, <3>1 DEF IsCall, Creates
  <2>4. Spends'
    <3> SUFFICES ASSUME pc' \in {"created", "signing", "sent"} PROVE Spends'
      BY DEF Spends
    <3>1. tx' = CreatedTx(c)
      BY <2>1
    <3>2. /\ DOMAIN tx'.input = DOMAIN c.utxos
          /\ Len(tx'.input) = Len(c.utxos)
          /\ \A n \in DOMAIN c.utxos : tx'.input[n].prevout = c.utxos[n]
      BY <2>2, <3>1, Built
    <3> QED BY <2>1, <3>2 DEF Spends
  <2>5. IsCreated' /\ ByUser' /\ ByMinter'
    BY <2>1, <2>2, NotMinter DEF IsCreated, ByUser, ByMinter
  <2> QED BY <1>0, <2>3, <2>4, <2>5 DEF BuildInv
<1>2. CASE SignTx
  <2>1. PICK by \in Users : /\ signer' = [n \in DOMAIN tx.input |-> by]
                           /\ call' = [call EXCEPT !.by = by]
    BY <1>2 DEF SignTx
  <2>2. /\ pc \in {"created", "sent"} /\ call.by # Minter /\ pc' = "signing"
        /\ tx' = tx /\ fee' = fee
    BY <1>2 DEF SignTx
  <2>3. /\ call'.by = by /\ call'.utxos = call.utxos /\ call'.amount = call.amount
        /\ call'.rate = call.rate /\ IsCall'
        /\ \A b : CreatedBy(b)' = CreatedBy(b)
        /\ call = CreatedBy(call.by) /\ call.by \in Users
    BY <2>1, <2>2 DEF BuildInv, IsCall, CreatedBy
  <2>4. DOMAIN tx.input = DOMAIN call.utxos
    BY <2>2 DEF BuildInv, SignInv, IsTx, Hashing!Txs, Spends, IsCall
  <2>5. Spends' /\ IsCreated' /\ ByMinter'
    BY <2>2, <2>3, NotMinter DEF BuildInv, Spends, IsCreated, ByMinter
  <2>6. PICK b \in Users : /\ tx.output = CreatedTx(CreatedBy(b)).output
                          /\ fee = ReportedFee(CreatedBy(b))
                          /\ ~Refuses(CreatedBy(b))
    <3>1. CASE pc = "created"
      BY <2>3, <3>1 DEF BuildInv, IsCreated
    <3>2. CASE pc = "sent"
      BY <2>2, <3>2 DEF BuildInv, ByUser
    <3> QED BY <2>2, <3>1, <3>2
  <2>7. Creates(call)
    BY <2>2 DEF BuildInv, ByUser
  <2>8. /\ tx'.output = CreatedTx(CreatedBy(b)').output
        /\ fee' = ReportedFee(CreatedBy(b)')
        /\ ~Refuses(CreatedBy(b)')
    BY <2>2, <2>3, <2>6
  <2>9. signer' = [n \in DOMAIN call'.utxos |-> call'.by] /\ Creates(call')
    BY <2>1, <2>3, <2>4, <2>7 DEF Creates
  <2>10. ByUser'
    BY <2>2, <2>8, <2>9 DEF ByUser
  <2> QED BY <1>0, <2>3, <2>5, <2>10 DEF BuildInv
<1>3. CASE Burn
  <2>1. PICK c \in Calls({Minter}) :
          /\ c.amount >= 10 * DustLimit
          /\ IsInjective(c.utxos)
          /\ Total(c.utxos) >= c.amount
          /\ call' = c
          /\ tx' = BurnTx(c)
          /\ fee' = BurnFee(c)
          /\ signer' = [n \in DOMAIN c.utxos |-> OwnerKey(c.utxos, n)]
    BY <1>3 DEF Burn
  <2>2. Creates(c) /\ c.utxos \in Seq(Utxos) /\ c.by = Minter
    BY CallTypes DEF Creates
  <2>3. pc' = "signing"
    BY <1>3 DEF Burn
  <2>4. IsCall'
    <3>1. c = [by |-> c.by, utxos |-> c.utxos, amount |-> c.amount, rate |-> c.rate]
      BY DEF Calls
    <3> QED BY <2>1, <2>2, <3>1 DEF IsCall, Creates
  <2>5. Spends'
    <3>1. /\ DOMAIN tx'.input = DOMAIN c.utxos
          /\ Len(tx'.input) = Len(c.utxos)
          /\ \A n \in DOMAIN c.utxos : tx'.input[n].prevout = c.utxos[n]
      BY <2>1, <2>2, Built
    <3> QED BY <2>1, <3>1 DEF Spends
  <2>6. IsCreated' /\ ByUser' /\ ByMinter'
    BY <2>1, <2>2, <2>3 DEF IsCreated, ByUser, ByMinter
  <2> QED BY <1>0, <2>4, <2>5, <2>6 DEF BuildInv
<1>4. CASE SignInput
  <2>1. /\ Len(tx'.input) = Len(tx.input)
        /\ tx'.output = tx.output
        /\ \A n \in DOMAIN tx.input : tx'.input[n].prevout = tx.input[n].prevout
    BY <1>4, SignInputKeeps DEF BuildInv
  <2>2. pc = "signing" /\ pc' = "signing" /\ call' = call /\ fee' = fee /\ signer' = signer
    BY <1>4 DEF SignInput, SignInv, BuildInv
  <2>3. DOMAIN tx'.input = DOMAIN tx.input
    BY <1>0, <2>1 DEF BuildInv, SignInv, IsTx, Hashing!Txs
  <2>4. Spends'
    BY <2>1, <2>2, <2>3 DEF BuildInv, Spends
  <2>5. IsCall' /\ IsCreated'
    BY <2>2 DEF BuildInv, IsCall, IsCreated
  <2>6. ByUser'
    BY <2>1, <2>2 DEF BuildInv, ByUser, CreatedBy
  <2>7. ByMinter'
    BY <2>1, <2>2 DEF BuildInv, ByMinter
  <2> QED BY <1>0, <2>4, <2>5, <2>6, <2>7 DEF BuildInv
<1>5. CASE SignFails \/ Send \/ UNCHANGED vars
  <2>1. /\ call' = call /\ tx' = tx /\ fee' = fee /\ signer' = signer
        /\ pc' = pc \/ pc' = "failed" \/ (pc = "signing" /\ pc' = "sent")
    BY <1>5 DEF SignFails, Send, vars
  <2>2. IsCall' /\ Spends' /\ IsCreated'
    BY <2>1 DEF BuildInv, IsCall, Spends, IsCreated
  <2>3. ByUser'
    BY <2>1 DEF BuildInv, ByUser, CreatedBy
  <2>4. ByMinter'
    BY <2>1 DEF BuildInv, ByMinter
  <2> QED BY <1>0, <2>2, <2>3, <2>4 DEF BuildInv
<1> QED BY <1>1, <1>2, <1>3, <1>4, <1>5 DEF Next

LEMMA BuildInit == Init => BuildInv
<1> SUFFICES ASSUME Init PROVE BuildInv
  OBVIOUS
<1>1. SignInv
  BY SignInit
<1>2. IsCall
  BY DEF Init, IsCall
<1>3. Spends /\ IsCreated /\ ByUser /\ ByMinter
  BY DEF Init, Spends, IsCreated, ByUser, ByMinter
<1> QED BY <1>1, <1>2, <1>3 DEF BuildInv

LEMMA BuildAlways == Spec => []BuildInv
  BY BuildInit, BuildStep, PTL DEF Spec

\* What sign_and_send_tx of the chain canister sends is taken by the network
\* exactly when its caller owns all it spends.
THEOREM OwnersSpend == Spec => []OnlyOwnerSpends
<1>1. BuildInv => OnlyOwnerSpends
  <2> SUFFICES ASSUME BuildInv, pc = "sent", call.by # Minter
               PROVE  (\A n \in DOMAIN tx.input :
                         Verifies(tx, n, OwnerOf[tx.input[n].prevout], AllType)) <=>
                      (\A n \in DOMAIN tx.input : OwnerOf[tx.input[n].prevout] = call.by)
    BY DEF OnlyOwnerSpends, NodeAccepts
  <2>1. ASSUME NEW n \in DOMAIN tx.input, NEW k
        PROVE  Verifies(tx, n, k, AllType) <=> k = call.by
    <3>1. n \in 1..signed /\ n \in DOMAIN call.utxos
      BY DEF BuildInv, SignInv, IsTx, Hashing!Txs, Spends, IsCall
    <3>2. signer[n] = call.by
      BY <3>1 DEF BuildInv, ByUser
    <3>3. Verifies(tx, n, call.by, AllType)
      BY <3>1, <3>2 DEF BuildInv, SignInv, SignaturesStand
    <3>4. tx.input[n].script.pubkey = call.by
      BY <3>3 DEF Verifies
    <3>5. Verifies(tx, n, k, AllType) => tx.input[n].script.pubkey = k
      BY DEF Verifies
    <3> QED BY <3>3, <3>4, <3>5
  <2> QED BY <2>1
<1> QED BY <1>1, BuildAlways, PTL

-----------------------------------------------------------------------------
(* Sums over sequences *)

FoldAt(f, g, s) == IF s = {} THEN 0 ELSE g[s \ {Max(s)}] + f[Max(s)]
IsFold(f, S, g) == g = [s \in SUBSET S |-> FoldAt(f, g, s)]

LEMMA FoldIsSum ==
  ASSUME NEW n \in Nat, NEW f, \A i \in 1..n : f[i] \in Nat
  PROVE  (CHOOSE g : IsFold(f, 1..n, g))[1..n] = Sum(f, 1..n)
<1> DEFINE D == 1..n
           h == [s \in SUBSET D |-> Sum(f, s)]
<1>1. IsFiniteSet(D) /\ \A s \in SUBSET D : IsFiniteSet(s)
  <2>1. IsFiniteSet(D)
    BY FS_Interval
  <2> HIDE DEF D
  <2> QED BY <2>1, FS_Subset
<1>2. \A s \in SUBSET D : s # {} => /\ Max(s) \in s
                                    /\ Sum(f, s) = Sum(f, s \ {Max(s)}) + f[Max(s)]
  <2> SUFFICES ASSUME NEW s \in SUBSET D, s # {}
               PROVE  /\ Max(s) \in s
                      /\ Sum(f, s) = Sum(f, s \ {Max(s)}) + f[Max(s)]
    OBVIOUS
  <2> DEFINE m == Max(s)
  <2>1. m \in s
    BY MaxInSet
  <2> HIDE DEF m
  <2>2. Sum(f, s) = f[m] + Sum(f, s \ {m})
    BY <1>1, <2>1, SumRemove
  <2>3. f[m] \in Nat /\ Sum(f, s \ {m}) \in Nat
    BY <1>1, <2>1, SumInNat
  <2>4. m \in s /\ Sum(f, s) = Sum(f, s \ {m}) + f[m]
    BY <2>1, <2>2, <2>3
  <2> QED BY <2>4 DEF m
<1>3. IsFold(f, D, h)
  <2>1. Sum(f, {}) = 0
    BY SumEmpty
  <2>2. \A s \in SUBSET D : Sum(f, s) = FoldAt(f, h, s)
    BY <1>2, <2>1 DEF FoldAt
  <2> QED BY <2>2 DEF IsFold
<1>4. ASSUME NEW g, IsFold(f, D, g) PROVE g[D] = Sum(f, D)
  <2> DEFINE G == {s \in SUBSET D : g[s] = Sum(f, s)}
  <2>1. {} \in G
    BY <1>4, SumEmpty DEF IsFold, FoldAt
  <2>2. ASSUME NEW s \in SUBSET D, s # {}, \A x \in s : s \ {x} \in G PROVE s \in G
    <3>1. g[s] = g[s \ {Max(s)}] + f[Max(s)]
      BY <1>4, <2>2 DEF IsFold, FoldAt
    <3>2. Max(s) \in s /\ Sum(f, s) = Sum(f, s \ {Max(s)}) + f[Max(s)]
      BY <1>2, <2>2
    <3> QED BY <2>2, <3>1, <3>2
  <2>3. SUBSET D \subseteq G
    <3> HIDE DEF G, D
    <3> QED BY <1>1, <2>1, <2>2, SubsetInduction
  <2> QED BY <2>3
<1>5. IsFold(f, D, CHOOSE g : IsFold(f, D, g))
  <2> HIDE DEF h, D
  <2> QED BY <1>3
<1> QED BY <1>4, <1>5

\* The amounts and the sizes of a transaction, as sums.
LEMMA SumOfTerms ==
  ASSUME NEW s, NEW n \in Nat, DOMAIN s = 1..n,
         \A i \in 1..n : ValueOf[s[i]] \in Nat
  PROVE  SumOf(s) = Sum([i \in 1..n |-> ValueOf[s[i]]], 1..n)
<1> DEFINE f    == [i \in 1..n |-> ValueOf[s[i]]]
           P(g) == g = [r \in SUBSET (1..n) |->
                          IF r = {} THEN 0 ELSE g[r \ {Max(r)}] + ValueOf[s[Max(r)]]]
<1>1. SumOf(s) = (CHOOSE g : P(g))[1..n]
  BY DEF SumOf, SumOver, FoldLeft, MapThenFoldSet
<1>2. \A r \in SUBSET (1..n) : r # {} => Max(r) \in 1..n
  BY MaxInSet
<1>3. \A g : P(g) <=> IsFold(f, 1..n, g)
  BY <1>2 DEF IsFold, FoldAt
<1>4. \A i \in 1..n : f[i] \in Nat
  OBVIOUS
<1> HIDE DEF P, f
<1>5. (CHOOSE g : P(g)) = (CHOOSE g : IsFold(f, 1..n, g))
  BY <1>3
<1>6. (CHOOSE g : IsFold(f, 1..n, g))[1..n] = Sum(f, 1..n)
  BY <1>4, FoldIsSum
<1> QED BY <1>1, <1>5, <1>6 DEF f

LEMMA SpentTerms ==
  ASSUME NEW t, NEW n \in Nat, DOMAIN t.input = 1..n,
         \A i \in 1..n : ValueOf[t.input[i].prevout] \in Nat
  PROVE  Spent(t) = Sum([i \in 1..n |-> ValueOf[t.input[i].prevout]], 1..n)
<1> DEFINE f    == [i \in 1..n |-> ValueOf[t.input[i].prevout]]
           P(g) == g = [r \in SUBSET (1..n) |->
                          IF r = {} THEN 0 ELSE g[r \ {Max(r)}] + ValueOf[t.input[Max(r)].prevout]]
<1>1. Spent(t) = (CHOOSE g : P(g))[1..n]
  BY DEF Spent, SumOver, FoldLeft, MapThenFoldSet
<1>2. \A r \in SUBSET (1..n) : r # {} => Max(r) \in 1..n
  BY MaxInSet
<1>3. \A g : P(g) <=> IsFold(f, 1..n, g)
  BY <1>2 DEF IsFold, FoldAt
<1>4. \A i \in 1..n : f[i] \in Nat
  OBVIOUS
<1> HIDE DEF P, f
<1>5. (CHOOSE g : P(g)) = (CHOOSE g : IsFold(f, 1..n, g))
  BY <1>3
<1>6. (CHOOSE g : IsFold(f, 1..n, g))[1..n] = Sum(f, 1..n)
  BY <1>4, FoldIsSum
<1> QED BY <1>1, <1>5, <1>6 DEF f

LEMMA PaidTerms ==
  ASSUME NEW t, NEW n \in Nat, DOMAIN t.output = 1..n,
         \A i \in 1..n : t.output[i].value \in Nat
  PROVE  Paid(t) = Sum([i \in 1..n |-> t.output[i].value], 1..n)
<1> DEFINE f    == [i \in 1..n |-> t.output[i].value]
           P(g) == g = [r \in SUBSET (1..n) |->
                          IF r = {} THEN 0 ELSE g[r \ {Max(r)}] + t.output[Max(r)].value]
<1>1. Paid(t) = (CHOOSE g : P(g))[1..n]
  BY DEF Paid, SumOver, FoldLeft, MapThenFoldSet
<1>2. \A r \in SUBSET (1..n) : r # {} => Max(r) \in 1..n
  BY MaxInSet
<1>3. \A g : P(g) <=> IsFold(f, 1..n, g)
  BY <1>2 DEF IsFold, FoldAt
<1>4. \A i \in 1..n : f[i] \in Nat
  OBVIOUS
<1> HIDE DEF P, f
<1>5. (CHOOSE g : P(g)) = (CHOOSE g : IsFold(f, 1..n, g))
  BY <1>3
<1>6. (CHOOSE g : IsFold(f, 1..n, g))[1..n] = Sum(f, 1..n)
  BY <1>4, FoldIsSum
<1> QED BY <1>1, <1>5, <1>6 DEF f

LEMMA KeptTerms ==
  ASSUME NEW t, NEW n \in Nat, DOMAIN t.output = 1..n,
         \A i \in 1..n : (IF t.output[i].script = Minter THEN t.output[i].value ELSE 0) \in Nat
  PROVE  Kept(t) = Sum([i \in 1..n |-> (IF t.output[i].script = Minter THEN t.output[i].value ELSE 0)], 1..n)
<1> DEFINE f    == [i \in 1..n |-> (IF t.output[i].script = Minter THEN t.output[i].value ELSE 0)]
           P(g) == g = [r \in SUBSET (1..n) |->
                          IF r = {} THEN 0 ELSE g[r \ {Max(r)}] + (IF t.output[Max(r)].script = Minter THEN t.output[Max(r)].value ELSE 0)]
<1>1. Kept(t) = (CHOOSE g : P(g))[1..n]
  BY DEF Kept, SumOver, FoldLeft, MapThenFoldSet
<1>2. \A r \in SUBSET (1..n) : r # {} => Max(r) \in 1..n
  BY MaxInSet
<1>3. \A g : P(g) <=> IsFold(f, 1..n, g)
  BY <1>2 DEF IsFold, FoldAt
<1>4. \A i \in 1..n : f[i] \in Nat
  OBVIOUS
<1> HIDE DEF P, f
<1>5. (CHOOSE g : P(g)) = (CHOOSE g : IsFold(f, 1..n, g))
  BY <1>3
<1>6. (CHOOSE g : IsFold(f, 1..n, g))[1..n] = Sum(f, 1..n)
  BY <1>4, FoldIsSum
<1> QED BY <1>1, <1>5, <1>6 DEF f

LEMMA EstimateTerms ==
  ASSUME NEW s, NEW n \in Nat, DOMAIN s = 1..n,
         \A i \in 1..n : InputEstimate(s[i]) \in Nat
  PROVE  SumOver(s, InputEstimate) = Sum([i \in 1..n |-> InputEstimate(s[i])], 1..n)
<1> DEFINE f    == [i \in 1..n |-> InputEstimate(s[i])]
           P(g) == g = [r \in SUBSET (1..n) |->
                          IF r = {} THEN 0 ELSE g[r \ {Max(r)}] + InputEstimate(s[Max(r)])]
<1>1. SumOver(s, InputEstimate) = (CHOOSE g : P(g))[1..n]
  BY DEF SumOver, FoldLeft, MapThenFoldSet
<1>2. \A r \in SUBSET (1..n) : r # {} => Max(r) \in 1..n
  BY MaxInSet
<1>3. \A g : P(g) <=> IsFold(f, 1..n, g)
  BY <1>2 DEF IsFold, FoldAt
<1>4. \A i \in 1..n : f[i] \in Nat
  OBVIOUS
<1> HIDE DEF P, f
<1>5. (CHOOSE g : P(g)) = (CHOOSE g : IsFold(f, 1..n, g))
  BY <1>3
<1>6. (CHOOSE g : IsFold(f, 1..n, g))[1..n] = Sum(f, 1..n)
  BY <1>4, FoldIsSum
<1> QED BY <1>1, <1>5, <1>6 DEF f

LEMMA InputTerms ==
  ASSUME NEW s, NEW n \in Nat, DOMAIN s = 1..n,
         \A i \in 1..n : InputSize(s[i]) \in Nat
  PROVE  SumOver(s, InputSize) = Sum([i \in 1..n |-> InputSize(s[i])], 1..n)
<1> DEFINE f    == [i \in 1..n |-> InputSize(s[i])]
           P(g) == g = [r \in SUBSET (1..n) |->
                          IF r = {} THEN 0 ELSE g[r \ {Max(r)}] + InputSize(s[Max(r)])]
<1>1. SumOver(s, InputSize) = (CHOOSE g : P(g))[1..n]
  BY DEF SumOver, FoldLeft, MapThenFoldSet
<1>2. \A r \in SUBSET (1..n) : r # {} => Max(r) \in 1..n
  BY MaxInSet
<1>3. \A g : P(g) <=> IsFold(f, 1..n, g)
  BY <1>2 DEF IsFold, FoldAt
<1>4. \A i \in 1..n : f[i] \in Nat
  OBVIOUS
<1> HIDE DEF P, f
<1>5. (CHOOSE g : P(g)) = (CHOOSE g : IsFold(f, 1..n, g))
  BY <1>3
<1>6. (CHOOSE g : IsFold(f, 1..n, g))[1..n] = Sum(f, 1..n)
  BY <1>4, FoldIsSum
<1> QED BY <1>1, <1>5, <1>6 DEF f

LEMMA OutputTerms ==
  ASSUME NEW s, NEW n \in Nat, DOMAIN s = 1..n,
         \A i \in 1..n : OutputSize(s[i]) \in Nat
  PROVE  SumOver(s, OutputSize) = Sum([i \in 1..n |-> OutputSize(s[i])], 1..n)
<1> DEFINE f    == [i \in 1..n |-> OutputSize(s[i])]
           P(g) == g = [r \in SUBSET (1..n) |->
                          IF r = {} THEN 0 ELSE g[r \ {Max(r)}] + OutputSize(s[Max(r)])]
<1>1. SumOver(s, OutputSize) = (CHOOSE g : P(g))[1..n]
  BY DEF SumOver, FoldLeft, MapThenFoldSet
<1>2. \A r \in SUBSET (1..n) : r # {} => Max(r) \in 1..n
  BY MaxInSet
<1>3. \A g : P(g) <=> IsFold(f, 1..n, g)
  BY <1>2 DEF IsFold, FoldAt
<1>4. \A i \in 1..n : f[i] \in Nat
  OBVIOUS
<1> HIDE DEF P, f
<1>5. (CHOOSE g : P(g)) = (CHOOSE g : IsFold(f, 1..n, g))
  BY <1>3
<1>6. (CHOOSE g : IsFold(f, 1..n, g))[1..n] = Sum(f, 1..n)
  BY <1>4, FoldIsSum
<1> QED BY <1>1, <1>5, <1>6 DEF f

\* u64 arithmetic.
LEMMA Wraps ==
  ASSUME NEW a \in Nat, NEW m \in Nat \ {0}
  PROVE  a % m \in 0..m - 1 /\ a % m <= a /\ (a < m => a % m = a)
  OBVIOUS

LEMMA U64Nat ==
  ASSUME NEW a \in Nat
  PROVE  /\ U64(a) \in Nat /\ U64(a) < Modulus /\ U64(a) <= a
         /\ a < Modulus => U64(a) = a
         /\ a >= Modulus /\ a < 2 * Modulus => U64(a) = a - Modulus
<1>1. Modulus \in Nat \ {0}
  BY PayoutAssumption
<1>2. a % Modulus \in 0..Modulus - 1 /\ a % Modulus <= a /\ (a < Modulus => a % Modulus = a)
  BY <1>1, Wraps
<1>3. a >= Modulus /\ a < 2 * Modulus => a % Modulus = a - Modulus
  BY <1>1
<1> QED BY <1>1, <1>2, <1>3 DEF U64

LEMMA TwoTerms ==
  ASSUME NEW f
  PROVE  /\ f[1] \in Nat => Sum(f, 1..1) = f[1]
         /\ f[1] \in Nat /\ f[2] \in Nat => Sum(f, 1..2) = f[1] + f[2]
<1>0. Sum(f, {}) = 0 /\ IsFiniteSet({})
  BY SumEmpty, FS_EmptySet
<1>1. ASSUME f[1] \in Nat PROVE Sum(f, 1..1) = f[1] /\ IsFiniteSet(1..1)
  <2>1. 1..1 = {} \cup {1}
    OBVIOUS
  <2>2. Sum(f, {} \cup {1}) = f[1] + Sum(f, {})
    BY <1>0, <1>1, SumAdd
  <2>3. IsFiniteSet({} \cup {1})
    BY <1>0, FS_AddElement
  <2>4. f[1] + Sum(f, {}) = f[1]
    BY <1>0, <1>1
  <2> QED BY <2>1, <2>2, <2>3, <2>4
<1>2. ASSUME f[1] \in Nat, f[2] \in Nat PROVE Sum(f, 1..2) = f[1] + f[2]
  <2>1. 1..2 = (1..1) \cup {2} /\ 2 \notin 1..1 /\ \A y \in 1..2 : f[y] \in Nat
    BY <1>2
  <2>2. Sum(f, (1..1) \cup {2}) = f[2] + Sum(f, 1..1)
    BY <1>1, <1>2, <2>1, SumAdd
  <2>3. f[2] + Sum(f, 1..1) = f[1] + f[2]
    BY <1>1, <1>2
  <2> QED BY <2>1, <2>2, <2>3
<1> QED BY <1>1, <1>2

\* What is spent is what the outputs of the call are worth.
LEMMA SpentIsSum ==
  ASSUME NEW us \in Seq(Utxos), NEW t, DOMAIN t.input = DOMAIN us,
         \A n \in DOMAIN us : t.input[n].prevout = us[n]
  PROVE  /\ Spent(t) = SumOf(us)
         /\ SumOf(us) \in Nat
         /\ Total(us) \in 0..Modulus - 1 /\ Total(us) <= SumOf(us)
         /\ SumOf(us) < Modulus => Total(us) = SumOf(us)
<1> DEFINE n == Len(us)
           f == [i \in 1..n |-> ValueOf[us[i]]]
<1>1. n \in Nat /\ DOMAIN us = 1..n /\ DOMAIN t.input = 1..n
  BY LenProperties
<1>2. \A i \in 1..n : ValueOf[us[i]] \in Nat /\ ValueOf[t.input[i].prevout] = ValueOf[us[i]]
  <2>1. \A i \in 1..n : us[i] \in Utxos
    BY ElementOfSeq
  <2>2. \A u \in Utxos : ValueOf[u] \in Nat
    <3>1. ValueOf \in [Utxos -> 0..Modulus - 1]
      BY PayoutAssumption
    <3> QED BY <3>1
  <2> QED BY <1>1, <2>1, <2>2
<1> HIDE DEF n
<1>3. SumOf(us) = Sum(f, 1..n)
  BY <1>1, <1>2, SumOfTerms
<1>4. Spent(t) = Sum([i \in 1..n |-> ValueOf[t.input[i].prevout]], 1..n)
  BY <1>1, <1>2, SpentTerms
<1>5. [i \in 1..n |-> ValueOf[t.input[i].prevout]] = f
  BY <1>2
<1>6. Sum(f, 1..n) \in Nat
  <2>1. \A i \in 1..n : f[i] \in Nat
    BY <1>2
  <2>2. IsFiniteSet(1..n)
    BY <1>1, FS_Interval
  <2> HIDE DEF f
  <2> QED BY <2>1, <2>2, SumInNat
<1> HIDE DEF f
<1>7. /\ U64(SumOf(us)) \in 0..Modulus - 1 /\ U64(SumOf(us)) <= SumOf(us)
      /\ SumOf(us) < Modulus => U64(SumOf(us)) = SumOf(us)
  <2>1. SumOf(us) \in Nat /\ Modulus \in Nat
    BY <1>3, <1>6, PayoutAssumption
  <2> QED BY <2>1, U64Nat
<1> QED BY <1>3, <1>4, <1>5, <1>6, <1>7 DEF Total

LEMMA PaidIsSum ==
  ASSUME NEW v \in Nat, NEW w \in Nat, NEW a, NEW b, NEW t
  PROVE  /\ t.output = << Pay(v, a) >> => Paid(t) = v
         /\ t.output = << Pay(v, a), Pay(w, b) >> => Paid(t) = v + w
<1>1. ASSUME t.output = << Pay(v, a) >> PROVE Paid(t) = v
  <2> DEFINE f == [i \in 1..1 |-> t.output[i].value]
  <2>1. DOMAIN t.output = 1..1 /\ \A i \in 1..1 : t.output[i].value \in Nat
    BY <1>1 DEF Pay
  <2>2. Paid(t) = Sum(f, 1..1)
    BY <2>1, PaidTerms
  <2>3. f[1] = v
    BY <1>1 DEF Pay
  <2> HIDE DEF f
  <2> QED BY <2>2, <2>3, TwoTerms
<1>2. ASSUME t.output = << Pay(v, a), Pay(w, b) >> PROVE Paid(t) = v + w
  <2> DEFINE f == [i \in 1..2 |-> t.output[i].value]
  <2>1. DOMAIN t.output = 1..2 /\ \A i \in 1..2 : t.output[i].value \in Nat
    BY <1>2 DEF Pay
  <2>2. Paid(t) = Sum(f, 1..2)
    BY <2>1, PaidTerms
  <2>3. f[1] = v /\ f[2] = w
    BY <1>2 DEF Pay
  <2> HIDE DEF f
  <2> QED BY <2>2, <2>3, TwoTerms
<1> QED BY <1>1, <1>2

-----------------------------------------------------------------------------
(* Sizes and fees are natural numbers *)

LEMMA FeeNat ==
  ASSUME NEW bytes \in Nat, NEW rate \in Nat
  PROVE  /\ FeeBySize(bytes, rate) \in Nat
         /\ FeeBySize(bytes, rate) >= MinFee
         /\ FeeBySize(bytes, rate) < Modulus \/ FeeBySize(bytes, rate) = MinFee
         /\ bytes * (rate + MinFeeRate) < Modulus =>
              /\ FeeBySize(bytes, rate) >= bytes * rate
              /\ \/ FeeBySize(bytes, rate) <= bytes * (rate + MinFeeRate)
                 \/ FeeBySize(bytes, rate) = MinFee
<1> DEFINE perByte == IF rate > MinFeeRate THEN rate ELSE MinFeeRate
<1>1. perByte \in Nat /\ perByte >= rate /\ perByte <= rate + MinFeeRate /\ MinFeeRate \in Nat
  BY PayoutAssumption
<1>2. FeeBySize(bytes, rate) = IF U64(bytes * perByte) > MinFee THEN U64(bytes * perByte) ELSE MinFee
  BY DEF FeeBySize
<1> HIDE DEF perByte
<1>3. bytes * perByte \in Nat /\ bytes * perByte >= bytes * rate
  BY <1>1
<1>4. bytes * perByte <= bytes * (rate + MinFeeRate)
  BY <1>1
<1> DEFINE p == bytes * perByte
           low == bytes * rate
           high == bytes * (rate + MinFeeRate)
<1>5. low \in Nat /\ high \in Nat /\ p \in Nat /\ low <= p /\ p <= high
  BY <1>1, <1>3, <1>4
<1>6. FeeBySize(bytes, rate) = IF U64(p) > MinFee THEN U64(p) ELSE MinFee
  BY <1>2
<1> HIDE DEF p, low, high
<1>7. U64(p) \in 0..Modulus - 1 /\ (p < Modulus => U64(p) = p)
  BY <1>5, U64Nat, PayoutAssumption
<1>8. /\ FeeBySize(bytes, rate) \in Nat
      /\ FeeBySize(bytes, rate) >= MinFee
      /\ FeeBySize(bytes, rate) < Modulus \/ FeeBySize(bytes, rate) = MinFee
      /\ high < Modulus => /\ FeeBySize(bytes, rate) >= low
                          /\ \/ FeeBySize(bytes, rate) <= high
                             \/ FeeBySize(bytes, rate) = MinFee
  BY <1>5, <1>6, <1>7, PayoutAssumption
<1> QED BY <1>8 DEF low, high

\* The fee is reckoned with 34 bytes an output, and with 147 an input at
\* most: 147 when its script is the signature.
InputMost  == InputBytes(106)
OutputMost == VarIntSize(25) + 25 + 8
LEMMA InputSizes ==
  /\ InputMost \in Nat /\ OutputMost \in Nat
  /\ \A in : /\ InputEstimate(in) = InputMost
            /\ InputSize(in) \in Nat /\ InputSize(in) <= InputMost
  /\ \A out : OutputSize(out) = OutputMost
<1>1. \A in : ScriptLength(in.script) = 0 \/ ScriptLength(in.script) = 106
  BY DEF ScriptLength, SignedScript
<1>2. InputMost = 147 /\ InputBytes(0) = 41 /\ OutputMost = 34
  BY DEF InputMost, OutputMost, InputBytes, OutPointSize, VarIntSize
<1>3. ASSUME NEW in
      PROVE  /\ InputEstimate(in) = InputMost
             /\ InputSize(in) \in Nat /\ InputSize(in) <= InputMost
  <2>1. CASE ScriptLength(in.script) = 0
    BY <1>2, <2>1 DEF InputEstimate, InputSize, InputMost
  <2>2. CASE ScriptLength(in.script) = 106
    BY <1>2, <2>2 DEF InputEstimate, InputSize, InputMost
  <2> QED BY <1>1, <2>1, <2>2
<1>4. \A out : OutputSize(out) = OutputMost
  BY DEF OutputSize, OutputMost, PubkeyScript
<1> QED BY <1>2, <1>3, <1>4

\* A sum of smaller terms is smaller.
LEMMA SumMonotone ==
  ASSUME NEW S, IsFiniteSet(S), NEW f, NEW g, \A x \in S : f[x] \in Nat /\ g[x] \in Nat /\ f[x] <= g[x]
  PROVE  Sum(f, S) <= Sum(g, S)
<1> DEFINE G == {s \in SUBSET S : Sum(f, s) <= Sum(g, s)}
<1>0. \A s \in SUBSET S : IsFiniteSet(s)
  BY FS_Subset
<1>1. {} \in G
  BY SumEmpty
<1>2. ASSUME NEW s \in SUBSET S, s # {}, \A x \in s : s \ {x} \in G PROVE s \in G
  <2>1. PICK x \in s : TRUE
    BY <1>2
  <2>2. Sum(f, s) = f[x] + Sum(f, s \ {x}) /\ Sum(g, s) = g[x] + Sum(g, s \ {x})
    BY <1>0, SumRemove
  <2>3. Sum(f, s \ {x}) \in Nat /\ Sum(g, s \ {x}) \in Nat
    BY <1>0, SumInNat
  <2>4. Sum(f, s \ {x}) <= Sum(g, s \ {x})
    BY <1>2
  <2>5. Sum(f, s) <= Sum(g, s)
    BY <2>2, <2>3, <2>4
  <2> QED BY <2>5
<1>3. SUBSET S \subseteq G
  <2> HIDE DEF G
  <2> QED BY <1>1, <1>2, SubsetInduction
<1> QED BY <1>3

\* The bytes of n inputs, at most, and of k outputs.
InputsMost(n)    == Sum([i \in 1..n |-> InputMost], 1..n)
BytesMost(n, k)  == 4 + VarIntSize(n) + InputsMost(n) + VarIntSize(k) + k * OutputMost + 4
LEMMA TxSizes ==
  ASSUME NEW t, NEW n \in Nat, DOMAIN t.input = 1..n, Len(t.input) = n,
         NEW k \in {1, 2}, DOMAIN t.output = 1..k, Len(t.output) = k
  PROVE  /\ EstimateSize(t) = BytesMost(n, k)
         /\ Size(t) \in Nat /\ BytesMost(n, k) \in Nat
         /\ Size(t) <= BytesMost(n, k)
<1>0. IsFiniteSet(1..n)
  BY FS_Interval
<1> DEFINE most  == [i \in 1..n |-> InputMost]
           sizes == [i \in 1..n |-> InputSize(t.input[i])]
<1>1. SumOver(t.input, InputEstimate) = InputsMost(n)
  <2>1. SumOver(t.input, InputEstimate) = Sum([i \in 1..n |-> InputEstimate(t.input[i])], 1..n)
    <3>1. \A i \in 1..n : InputEstimate(t.input[i]) \in Nat
      BY InputSizes
    <3> QED BY <3>1, EstimateTerms
  <2>2. [i \in 1..n |-> InputEstimate(t.input[i])] = most
    BY InputSizes
  <2> QED BY <2>1, <2>2 DEF InputsMost
<1>2. /\ SumOver(t.input, InputSize) \in Nat /\ InputsMost(n) \in Nat
      /\ SumOver(t.input, InputSize) <= InputsMost(n)
  <2>1. SumOver(t.input, InputSize) = Sum(sizes, 1..n)
    BY InputSizes, InputTerms
  <2>2. \A i \in 1..n : sizes[i] \in Nat /\ most[i] \in Nat /\ sizes[i] <= most[i]
    BY InputSizes
  <2>3. InputsMost(n) = Sum(most, 1..n)
    BY DEF InputsMost
  <2> HIDE DEF sizes, most
  <2> QED BY <1>0, <2>1, <2>2, <2>3, SumInNat, SumMonotone
<1>3. SumOver(t.output, OutputSize) = k * OutputMost
  <2> DEFINE f == [i \in 1..k |-> OutputSize(t.output[i])]
  <2>1. SumOver(t.output, OutputSize) = Sum(f, 1..k)
    <3>1. \A i \in 1..k : OutputSize(t.output[i]) \in Nat
      BY InputSizes
    <3>2. k \in Nat
      OBVIOUS
    <3> QED BY <3>1, <3>2, OutputTerms
  <2>2. \A i \in 1..k : f[i] = OutputMost /\ f[i] \in Nat
    BY InputSizes
  <2> HIDE DEF f
  <2>3. CASE k = 1
    BY <2>1, <2>2, <2>3, TwoTerms
  <2>4. CASE k = 2
    BY <2>1, <2>2, <2>4, TwoTerms
  <2> QED BY <2>3, <2>4
<1>4. VarIntSize(n) \in Nat /\ VarIntSize(k) \in Nat /\ k * OutputMost \in Nat
  BY InputSizes DEF VarIntSize
<1> DEFINE ins == SumOver(t.input, InputSize)
<1>5. /\ EstimateSize(t) = 4 + VarIntSize(n) + InputsMost(n) + VarIntSize(k) + k * OutputMost + 4
      /\ Size(t) = 4 + VarIntSize(n) + ins + VarIntSize(k) + k * OutputMost + 4
  BY <1>1, <1>3 DEF EstimateSize, Size, TxBytes
<1> HIDE DEF ins
<1>6. ins \in Nat /\ InputsMost(n) \in Nat /\ ins <= InputsMost(n)
  BY <1>2 DEF ins
<1> QED BY <1>4, <1>5, <1>6 DEF BytesMost

LEMMA InputsNat == ASSUME NEW n \in Nat PROVE InputsMost(n) \in Nat
<1>0. IsFiniteSet(1..n)
  BY FS_Interval
<1> DEFINE f == [i \in 1..n |-> InputMost]
<1>1. \A i \in 1..n : f[i] \in Nat
  BY InputSizes
<1>2. InputsMost(n) = Sum(f, 1..n)
  BY DEF InputsMost
<1> HIDE DEF f
<1> QED BY <1>0, <1>1, <1>2, SumInNat

\* With two outputs a transaction is as large as its draft, with one smaller.
LEMMA BytesGrow == ASSUME NEW n \in Nat PROVE BytesMost(n, 1) <= BytesMost(n, 2)
<1>1. InputsMost(n) \in Nat /\ VarIntSize(n) \in Nat
  BY InputsNat DEF VarIntSize
<1>2. VarIntSize(1) = 1 /\ VarIntSize(2) = 1 /\ OutputMost \in Nat
  BY InputSizes DEF VarIntSize
<1> QED BY <1>1, <1>2 DEF BytesMost

-----------------------------------------------------------------------------
(* What create_tx and burn_utxos build *)

LEMMA MonusNat ==
  ASSUME NEW a \in Nat, NEW b \in Nat
  PROVE  Monus(a, b) \in Nat /\ (a >= b => Monus(a, b) = a - b) /\ (a <= b => Monus(a, b) = 0)
  BY DEF Monus

\* Values are of the width of u64, and so are the fees.
InRange(c) ==
  /\ c.utxos \in Seq(Utxos) /\ c.amount \in Nat /\ c.amount < Modulus /\ c.rate \in Nat
LEMMA CreatesInRange ==
  ASSUME IsCall, Creates(call)
  PROVE  InRange(call) /\ \A by : InRange(CreatedBy(by)) /\ CreatedBy(by).utxos = call.utxos
                          /\ CreatedBy(by).amount = call.amount /\ CreatedBy(by).rate = call.rate
<1>1. /\ call.utxos \in Seq(Utxos) /\ call.amount \in 0..Modulus - 1 /\ call.rate \in Nat
      /\ Modulus \in Nat
  BY PayoutAssumption DEF IsCall, Creates
<1>2. \A by : /\ CreatedBy(by).utxos = call.utxos /\ CreatedBy(by).amount = call.amount
              /\ CreatedBy(by).rate = call.rate
  BY DEF IsCall, CreatedBy
<1> QED BY <1>1, <1>2 DEF InRange

LEMMA FeeOfDraft ==
  ASSUME NEW c, InRange(c), NEW b, NEW d, NEW v, NEW w,
         NEW t, t = UnsignedTx(c.utxos, << Pay(v, b), Pay(w, d) >>)
  PROVE  EstimateSize(t) = BytesMost(Len(c.utxos), 2) /\ BytesMost(Len(c.utxos), 2) \in Nat
<1> DEFINE n == Len(c.utxos)
<1>1. n \in Nat /\ DOMAIN c.utxos = 1..n
  BY LenProperties DEF InRange
<1>2. IsOuts(<< Pay(v, b), Pay(w, d) >>) /\ c.utxos \in Seq(Utxos)
  BY TwoOutputs DEF InRange
<1>3. DOMAIN t.input = 1..n /\ Len(t.input) = n /\ t.output = << Pay(v, b), Pay(w, d) >>
  BY <1>1, <1>2, UnsignedIsTx
<1>4. DOMAIN t.output = 1..2 /\ Len(t.output) = 2
  BY <1>3
<1> HIDE DEF n
<1>5. EstimateSize(t) = BytesMost(n, 2) /\ BytesMost(n, 2) \in Nat
  BY <1>1, <1>3, <1>4, TxSizes
<1> QED BY <1>5 DEF n

\* The fee of a call, whatever the change of the draft is.
CallFee(c) == FeeBySize(BytesMost(Len(c.utxos), 2), c.rate)
LEMMA CallFees ==
  ASSUME NEW c, InRange(c)
  PROVE  /\ CreateFee(c) = CallFee(c) /\ BurnFee(c) = CallFee(c)
         /\ CallFee(c) \in Nat /\ CallFee(c) >= MinFee
         /\ CallFee(c) < Modulus \/ CallFee(c) = MinFee
         /\ BytesMost(Len(c.utxos), 2) * (c.rate + MinFeeRate) < Modulus =>
              /\ CallFee(c) >= BytesMost(Len(c.utxos), 2) * c.rate
              /\ \/ CallFee(c) <= BytesMost(Len(c.utxos), 2) * (c.rate + MinFeeRate)
                 \/ CallFee(c) = MinFee
<1> DEFINE b == BytesMost(Len(c.utxos), 2)
<1>1. EstimateSize(DraftTx(c, Monus(Total(c.utxos), c.amount))) = b /\ b \in Nat
  BY FeeOfDraft DEF DraftTx
<1>2. EstimateSize(BurnDraft(c)) = b
  BY FeeOfDraft DEF BurnDraft
<1>3. CreateFee(c) = CallFee(c) /\ BurnFee(c) = CallFee(c)
  BY <1>1, <1>2 DEF CreateFee, BurnFee, CallFee
<1>4. c.rate \in Nat
  BY DEF InRange
<1>5. CallFee(c) = FeeBySize(b, c.rate)
  BY DEF CallFee
<1> HIDE DEF b
<1>6. /\ CallFee(c) \in Nat /\ CallFee(c) >= MinFee
      /\ CallFee(c) < Modulus \/ CallFee(c) = MinFee
      /\ b * (c.rate + MinFeeRate) < Modulus =>
           /\ CallFee(c) >= b * c.rate
           /\ \/ CallFee(c) <= b * (c.rate + MinFeeRate)
              \/ CallFee(c) = MinFee
  BY <1>1, <1>4, <1>5, FeeNat
<1> QED BY <1>3, <1>6 DEF b

\* burn_utxos pays the amount without the fee, and keeps the rest.
LEMMA BurnPays ==
  ASSUME NEW c, InRange(c), Total(c.utxos) >= c.amount, NEW t, t.output = BurnTx(c).output
  PROVE  LET rest == Total(c.utxos) - c.amount IN
         /\ rest \in Nat
         /\ IF rest <= DustLimit
            THEN /\ t.output = << Pay(Monus(c.amount, BurnFee(c)), Receiver) >>
                 /\ Paid(t) = Monus(c.amount, BurnFee(c))
            ELSE /\ t.output = << Pay(Monus(c.amount, BurnFee(c)), Receiver), Pay(rest, Minter) >>
                 /\ Paid(t) = Monus(c.amount, BurnFee(c)) + rest
<1> DEFINE rest == Total(c.utxos) - c.amount
           paid == Monus(c.amount, BurnFee(c))
<1>1. /\ Total(c.utxos) \in Nat /\ c.amount \in Nat
  <2>1. SumOf(c.utxos) \in Nat
    <3> DEFINE t0 == UnsignedTx(c.utxos, << >>)
    <3>1. DOMAIN t0.input = DOMAIN c.utxos /\ \A n \in DOMAIN c.utxos : t0.input[n].prevout = c.utxos[n]
      BY DEF UnsignedTx
    <3> HIDE DEF t0
    <3> QED BY <3>1, SpentIsSum DEF InRange
  <2>2. Total(c.utxos) \in 0..Modulus - 1
    BY <2>1, U64Nat, PayoutAssumption DEF Total
  <2>3. c.amount \in Nat
    BY DEF InRange
  <2> QED BY <2>2, <2>3, PayoutAssumption
<1>2. rest \in Nat /\ Monus(Total(c.utxos), c.amount) = rest
  BY <1>1, MonusNat
<1>3. paid \in Nat
  BY <1>1, CallFees, MonusNat
<1>4. BurnDraft(c).output[2] = Pay(rest, Minter)
  BY <1>2 DEF BurnDraft, UnsignedTx
<1>5. Pay(rest, Minter).value = rest
  BY DEF Pay
<1> HIDE DEF rest, paid
<1>6. t.output = IF rest <= DustLimit THEN << Pay(paid, Receiver) >>
                 ELSE << Pay(paid, Receiver), Pay(rest, Minter) >>
  BY <1>4, <1>5 DEF BurnTx, UnsignedTx, paid
<1>7. IF rest <= DustLimit THEN Paid(t) = paid ELSE Paid(t) = paid + rest
  BY <1>2, <1>3, <1>6, PaidIsSum
<1> QED BY <1>2, <1>6, <1>7 DEF rest, paid

LEMMA KeptIsSum ==
  ASSUME NEW v \in Nat, NEW w \in Nat, NEW a, a # Minter, NEW t
  PROVE  /\ t.output = << Pay(v, a) >> => Kept(t) = 0
         /\ t.output = << Pay(v, a), Pay(w, Minter) >> => Kept(t) = w
<1>1. ASSUME t.output = << Pay(v, a) >> PROVE Kept(t) = 0
  <2> DEFINE f == [i \in 1..1 |-> IF t.output[i].script = Minter THEN t.output[i].value ELSE 0]
  <2>1. /\ DOMAIN t.output = 1..1
        /\ \A i \in 1..1 : (IF t.output[i].script = Minter THEN t.output[i].value ELSE 0) \in Nat
    BY <1>1 DEF Pay
  <2>2. Kept(t) = Sum(f, 1..1)
    BY <2>1, KeptTerms
  <2>3. f[1] = 0
    BY <1>1 DEF Pay
  <2> HIDE DEF f
  <2> QED BY <2>2, <2>3, TwoTerms
<1>2. ASSUME t.output = << Pay(v, a), Pay(w, Minter) >> PROVE Kept(t) = w
  <2> DEFINE f == [i \in 1..2 |-> IF t.output[i].script = Minter THEN t.output[i].value ELSE 0]
  <2>1. /\ DOMAIN t.output = 1..2
        /\ \A i \in 1..2 : (IF t.output[i].script = Minter THEN t.output[i].value ELSE 0) \in Nat
    BY <1>2 DEF Pay
  <2>2. Kept(t) = Sum(f, 1..2)
    BY <2>1, KeptTerms
  <2>3. f[1] = 0 /\ f[2] = w
    BY <1>2 DEF Pay
  <2> HIDE DEF f
  <2> QED BY <2>2, <2>3, TwoTerms
<1> QED BY <1>1, <1>2

\* What is known when a transaction has been sent.
LEMMA SentSpends ==
  ASSUME BuildInv, pc = "sent"
  PROVE  /\ DOMAIN tx.input = DOMAIN call.utxos /\ Len(tx.input) = Len(call.utxos)
         /\ \A n \in DOMAIN call.utxos : tx.input[n].prevout = call.utxos[n]
         /\ call.utxos \in Seq(Utxos)
         /\ Spent(tx) = SumOf(call.utxos)
         /\ Spent(tx) \in Nat /\ Total(call.utxos) \in Nat /\ Total(call.utxos) <= Spent(tx)
         /\ SumOf(call.utxos) < Modulus => Total(call.utxos) = Spent(tx)
<1>1. /\ Len(tx.input) = Len(call.utxos)
      /\ \A n \in DOMAIN tx.input : tx.input[n].prevout = call.utxos[n]
      /\ call.utxos \in Seq(Utxos)
  BY DEF BuildInv, Spends, IsCall
<1>2. DOMAIN tx.input = DOMAIN call.utxos
  BY <1>1 DEF BuildInv, SignInv, IsTx, Hashing!Txs
<1>3. /\ Spent(tx) = SumOf(call.utxos)
      /\ SumOf(call.utxos) \in Nat
      /\ Total(call.utxos) \in 0..Modulus - 1 /\ Total(call.utxos) <= SumOf(call.utxos)
      /\ SumOf(call.utxos) < Modulus => Total(call.utxos) = SumOf(call.utxos)
  BY <1>1, <1>2, SpentIsSum
<1> QED BY <1>1, <1>2, <1>3, PayoutAssumption

\* burn_utxos: whoever made the deposits it spends, the network takes the
\* payout: each input is signed with its owner's key, the scripts do not
\* disturb each other's signatures, and no more is paid than is spent.
THEOREM BurnsAccepted == Spec => []BurnIsAccepted
<1>1. BuildInv => BurnIsAccepted
  <2> SUFFICES ASSUME BuildInv, pc = "sent", call.by = Minter PROVE NodeAccepts(tx)
    BY DEF BurnIsAccepted
  <2>1. /\ DOMAIN tx.input = DOMAIN call.utxos
        /\ \A n \in DOMAIN call.utxos : tx.input[n].prevout = call.utxos[n]
        /\ Spent(tx) \in Nat /\ Total(call.utxos) \in Nat /\ Total(call.utxos) <= Spent(tx)
    BY SentSpends
  <2>2. /\ signer = [n \in DOMAIN call.utxos |-> OwnerKey(call.utxos, n)]
        /\ IsInjective(call.utxos)
        /\ Total(call.utxos) >= call.amount
        /\ tx.output = BurnTx(call).output
        /\ Creates(call)
    BY DEF BuildInv, ByMinter
  <2>3. Distinct(tx)
    BY <2>1, <2>2 DEF Distinct, IsInjective
  <2>4. Balanced(tx)
    <3>1. InRange(call)
      BY <2>2, CreatesInRange DEF BuildInv
    <3> DEFINE rest == Total(call.utxos) - call.amount
               paid == Monus(call.amount, BurnFee(call))
    <3>2. rest \in Nat /\ (Paid(tx) = paid \/ Paid(tx) = paid + rest)
      BY <2>2, <3>1, BurnPays
    <3>3. paid \in Nat /\ paid <= call.amount /\ call.amount \in Nat
      BY <3>1, CallFees DEF Monus, InRange
    <3> HIDE DEF paid
    <3>4. Paid(tx) <= Total(call.utxos)
      BY <2>1, <3>2, <3>3
    <3> QED BY <2>1, <3>2, <3>3, <3>4 DEF Balanced
  <2>5. ASSUME NEW n \in DOMAIN tx.input
        PROVE  Verifies(tx, n, OwnerOf[tx.input[n].prevout], AllType)
    <3>1. n \in 1..signed /\ n \in DOMAIN call.utxos
      BY <2>1 DEF BuildInv, SignInv, IsTx, Hashing!Txs
    <3>2. signer[n] = OwnerOf[tx.input[n].prevout]
      BY <2>1, <2>2, <3>1 DEF OwnerKey
    <3> QED BY <3>1, <3>2 DEF BuildInv, SignInv, SignaturesStand
  <2> QED BY <2>3, <2>4, <2>5 DEF NodeAccepts
<1> QED BY <1>1, BuildAlways, PTL

\* No call's outputs are worth more than a u64 holds: all there is of the
\* coin is not.
ValuesInRange == \A us \in SeqOf(Utxos, MaxInputs) : SumOf(us) < Modulus

\* A burn costs the pool the amount burned, and at most the dust more, when
\* it is not paid to the minter itself.
THEOREM BurnsCostAmount ==
  ASSUME ValuesInRange, Minter # Receiver
  PROVE  Spec => []BurnCostsAmount
<1>1. BuildInv => BurnCostsAmount
  <2> SUFFICES ASSUME BuildInv, pc = "sent", call.by = Minter
               PROVE  Spent(tx) - Kept(tx) \in call.amount..call.amount + DustLimit
    BY DEF BurnCostsAmount
  <2>1. /\ Total(call.utxos) >= call.amount
        /\ tx.output = BurnTx(call).output
        /\ Creates(call)
    BY DEF BuildInv, ByMinter
  <2>2. InRange(call)
    BY <2>1, CreatesInRange DEF BuildInv
  <2>3. Spent(tx) \in Nat /\ Total(call.utxos) = Spent(tx)
    BY <2>1, SentSpends DEF Creates, ValuesInRange
  <2> DEFINE rest == Total(call.utxos) - call.amount
             paid == Monus(call.amount, BurnFee(call))
  <2>4. /\ rest \in Nat
        /\ tx.output = IF rest <= DustLimit THEN << Pay(paid, Receiver) >>
                       ELSE << Pay(paid, Receiver), Pay(rest, Minter) >>
    BY <2>1, <2>2, BurnPays
  <2>5. paid \in Nat /\ call.amount \in Nat
    BY <2>2, CallFees, MonusNat DEF InRange
  <2> HIDE DEF paid
  <2>6. Kept(tx) = IF rest <= DustLimit THEN 0 ELSE rest
    BY <2>4, <2>5, KeptIsSum
  <2>7. DustLimit \in Nat
    BY PayoutAssumption
  <2>8. CASE rest <= DustLimit
    BY <2>3, <2>4, <2>5, <2>6, <2>7, <2>8
  <2>9. CASE rest > DustLimit
    BY <2>3, <2>4, <2>5, <2>6, <2>7, <2>9
  <2> QED BY <2>4, <2>7, <2>8, <2>9
<1> QED BY <1>1, BuildAlways, PTL

\* create_tx keeps what is left of amount and fee, unless it is dust, and
\* reports what it does not pay.
LEMMA CreatePays ==
  ASSUME NEW c, InRange(c), Total(c.utxos) \in Nat, ~Refuses(c),
         NEW t, t.output = CreatedTx(c).output
  PROVE  LET due    == U64(c.amount + CallFee(c))
             change == Total(c.utxos) - due
         IN  /\ due \in Nat /\ change \in Nat
             /\ t.output = IF change < DustLimit THEN << Pay(c.amount, Receiver) >>
                           ELSE << Pay(c.amount, Receiver), Pay(change, c.by) >>
             /\ Paid(t) = IF change < DustLimit THEN c.amount ELSE c.amount + change
             /\ ReportedFee(c) = IF change < DustLimit THEN Monus(Total(c.utxos), c.amount)
                                 ELSE CallFee(c)
<1> DEFINE due    == U64(c.amount + CallFee(c))
           change == Total(c.utxos) - due
<1>1. /\ CreateFee(c) = CallFee(c) /\ CallFee(c) \in Nat /\ c.amount \in Nat
  BY CallFees DEF InRange
<1>2. due \in Nat
  <2>1. c.amount + CallFee(c) \in Nat
    BY <1>1
  <2> QED BY <2>1, U64Nat
<1>3. Total(c.utxos) >= due
  BY <1>1, <1>2 DEF Refuses
<1>4. change \in Nat /\ CreateChange(c) = change
  <2> HIDE DEF due
  <2>1. change \in Nat /\ Monus(Total(c.utxos), due) = change
    BY <1>2, <1>3, MonusNat
  <2> QED BY <1>1, <2>1 DEF CreateChange, due
<1> HIDE DEF due, change
<1>5. DustLimit \in Nat
  BY PayoutAssumption
<1>6. t.output = IF change < DustLimit THEN << Pay(c.amount, Receiver) >>
                 ELSE << Pay(c.amount, Receiver), Pay(change, c.by) >>
  BY <1>4 DEF CreatedTx, DraftTx, UnsignedTx
<1>7. Paid(t) = IF change < DustLimit THEN c.amount ELSE c.amount + change
  BY <1>1, <1>4, <1>6, PaidIsSum
<1>8. ReportedFee(c) = IF change < DustLimit THEN Monus(Total(c.utxos), c.amount) ELSE CallFee(c)
  BY <1>1, <1>4 DEF ReportedFee
<1> QED BY <1>2, <1>4, <1>6, <1>7, <1>8 DEF due, change

\* While amount and fee stay in the range of u64, the transaction pays the
\* fee that is reported, and at least the fee asked for.
LEMMA CreatePaysFee ==
  ASSUME NEW c, InRange(c), Total(c.utxos) \in Nat, ~Refuses(c),
         NEW t, t.output = CreatedTx(c).output, c.amount + CallFee(c) < Modulus
  PROVE  /\ Paid(t) \in Nat
         /\ Total(c.utxos) - Paid(t) = ReportedFee(c)
         /\ ReportedFee(c) >= CallFee(c)
<1> DEFINE due    == U64(c.amount + CallFee(c))
           change == Total(c.utxos) - due
<1>1. /\ CallFee(c) \in Nat /\ c.amount \in Nat /\ DustLimit \in Nat
  BY CallFees, PayoutAssumption DEF InRange
<1>2. due = c.amount + CallFee(c)
  <2>1. c.amount + CallFee(c) \in Nat
    BY <1>1
  <2> QED BY <2>1, U64Nat
<1>3. /\ change \in Nat
      /\ Paid(t) = IF change < DustLimit THEN c.amount ELSE c.amount + change
      /\ ReportedFee(c) = IF change < DustLimit THEN Monus(Total(c.utxos), c.amount)
                          ELSE CallFee(c)
  BY CreatePays
<1>4. Total(c.utxos) = c.amount + CallFee(c) + change
  BY <1>1, <1>2
<1> HIDE DEF due, change
<1>5. Monus(Total(c.utxos), c.amount) = CallFee(c) + change
  <2>1. Total(c.utxos) >= c.amount /\ Total(c.utxos) - c.amount = CallFee(c) + change
    BY <1>1, <1>3, <1>4
  <2> QED BY <1>1, <2>1, MonusNat
<1> QED BY <1>1, <1>3, <1>4, <1>5

\* create_tx: the fee it reports is what the network gets, the change it
\* dropped included.
THEOREM ReportsFee ==
  ASSUME ValuesInRange
  PROVE  Spec => []FeeIsTrue
<1>1. BuildInv => FeeIsTrue
  <2> SUFFICES ASSUME BuildInv, pc = "created", call.amount + CreateFee(call) < Modulus
               PROVE  Spent(tx) - Paid(tx) = fee
    BY DEF FeeIsTrue
  <2>1. tx = CreatedTx(call) /\ fee = ReportedFee(call) /\ ~Refuses(call) /\ Creates(call)
    BY DEF BuildInv, IsCreated, ByUser
  <2>2. InRange(call) /\ call.utxos \in Seq(Utxos)
    BY <2>1, CreatesInRange DEF BuildInv, InRange
  <2>3. Spent(tx) = Total(call.utxos) /\ Total(call.utxos) \in Nat
    <3>1. /\ DOMAIN tx.input = DOMAIN call.utxos
          /\ \A n \in DOMAIN call.utxos : tx.input[n].prevout = call.utxos[n]
      BY <2>1, <2>2, Built
    <3>2. SumOf(call.utxos) < Modulus
      BY <2>1 DEF Creates, ValuesInRange
    <3> QED BY <2>2, <3>1, <3>2, SpentIsSum
  <2>4. call.amount + CallFee(call) < Modulus
    BY <2>2, CallFees
  <2> QED BY <2>1, <2>2, <2>3, <2>4, CreatePaysFee
<1> QED BY <1>1, BuildAlways, PTL

\* A fee far enough from the end of u64 does not wrap, nor does it with the
\* amount, if no more is paid than is spent.
LEMMA BalancedInRange ==
  ASSUME NEW c, InRange(c), Total(c.utxos) \in Nat, ~Refuses(c),
         NEW t, t.output = CreatedTx(c).output, Paid(t) <= Total(c.utxos),
         CallFee(c) + DustLimit < Modulus
  PROVE  c.amount + CallFee(c) < Modulus
<1> SUFFICES ASSUME c.amount + CallFee(c) >= Modulus PROVE FALSE
  BY CallFees, PayoutAssumption DEF InRange
<1> DEFINE due    == U64(c.amount + CallFee(c))
           change == Total(c.utxos) - due
           sum    == c.amount + CallFee(c)
<1>1. /\ CallFee(c) \in Nat /\ c.amount \in Nat /\ c.amount < Modulus
      /\ DustLimit \in Nat /\ Modulus \in Nat \ {0}
  BY CallFees, PayoutAssumption DEF InRange
<1>2. /\ change \in Nat
      /\ Paid(t) = IF change < DustLimit THEN c.amount ELSE c.amount + change
  BY CreatePays
<1>3. due = sum - Modulus
  <2>1. sum \in Nat /\ sum >= Modulus /\ sum < 2 * Modulus
    BY <1>1
  <2> HIDE DEF sum
  <2>2. U64(sum) = sum - Modulus
    BY <2>1, U64Nat
  <2> QED BY <2>2 DEF sum
<1>4. Total(c.utxos) = sum - Modulus + change
  BY <1>1, <1>2, <1>3
<1> HIDE DEF due, change
<1> QED BY <1>1, <1>2, <1>4

\* The size of the draft, from the transaction that is sent.
LEMMA DraftSizes ==
  ASSUME NEW n \in Nat, NEW t, IsTx(t), Len(t.input) = n
  PROVE  DraftSize(t) = BytesMost(n, 2)
<1> DEFINE u == [t EXCEPT !.output = << t.output[1], t.output[1] >>]
<1>1. /\ u.input = t.input /\ u.output = << t.output[1], t.output[1] >>
      /\ DOMAIN t.input = 1..n
  BY DEF IsTx, Hashing!Txs
<1>2. DOMAIN u.output = 1..2 /\ Len(u.output) = 2
  BY <1>1
<1>3. DraftSize(t) = EstimateSize(u)
  BY DEF DraftSize
<1> HIDE DEF u
<1> QED BY <1>1, <1>2, <1>3, TxSizes

\* The size of the transaction that is sent.
LEMMA SentSizes ==
  ASSUME NEW n \in Nat, NEW t, IsTx(t), Len(t.input) = n,
         NEW k \in {1, 2}, DOMAIN t.output = 1..k, Len(t.output) = k
  PROVE  Size(t) \in Nat /\ BytesMost(n, 2) \in Nat /\ Size(t) <= BytesMost(n, 2)
<1>1. DOMAIN t.input = 1..n
  BY DEF IsTx, Hashing!Txs
<1>2. Size(t) \in Nat /\ BytesMost(n, k) \in Nat /\ Size(t) <= BytesMost(n, k)
  BY <1>1, TxSizes
<1>3. BytesMost(n, k) <= BytesMost(n, 2)
  <2>1. CASE k = 1
    BY <2>1, BytesGrow
  <2>2. CASE k = 2
    BY <1>2, <2>2
  <2> QED BY <2>1, <2>2
<1>4. BytesMost(n, 2) \in Nat
  <2>1. InputsMost(n) \in Nat
    BY InputsNat
  <2> QED BY <2>1, InputSizes DEF BytesMost, VarIntSize
<1> QED BY <1>2, <1>3, <1>4

\* What is sent pays the rate asked for, by the bytes it has, and the
\* minimum fee: the fee is that of the draft, which is as large at least.
THEOREM FeesCoverRate ==
  ASSUME ValuesInRange
  PROVE  Spec => []FeeCoversRate
<1>1. BuildInv => FeeCoversRate
  <2> DEFINE b == BytesMost(Len(call.utxos), 2)
  <2> SUFFICES ASSUME BuildInv, pc = "sent", Balanced(tx),
                      call.by = Minter => call.amount >= fee,
                      DraftSize(tx) * (call.rate + MinFeeRate) < Modulus - DustLimit
               PROVE  Spent(tx) - Paid(tx) >=
                        IF Size(tx) * call.rate > MinFee THEN Size(tx) * call.rate ELSE MinFee
    BY DEF FeeCoversRate
  <2>1. /\ Creates(call)
        /\ call.by \in Users \cup {Minter}
    BY DEF BuildInv, ByUser, ByMinter, IsCall
  <2>2. InRange(call) /\ call.utxos \in Seq(Utxos) /\ call.rate \in Nat /\ call.amount \in Nat
    BY <2>1, CreatesInRange DEF BuildInv, InRange
  <2>3. /\ Len(tx.input) = Len(call.utxos)
        /\ Spent(tx) \in Nat /\ Total(call.utxos) = Spent(tx)
    BY <2>1, SentSpends DEF Creates, ValuesInRange
  <2>4. Len(call.utxos) \in Nat /\ IsTx(tx)
    BY <2>2, LenProperties DEF BuildInv, SignInv
  <2>5. DraftSize(tx) = b /\ b * (call.rate + MinFeeRate) < Modulus - DustLimit
    BY <2>3, <2>4, DraftSizes
  <2>6. /\ CallFee(call) \in Nat /\ CallFee(call) >= MinFee
        /\ b * (call.rate + MinFeeRate) < Modulus =>
             /\ CallFee(call) >= b * call.rate
             /\ \/ CallFee(call) <= b * (call.rate + MinFeeRate)
                \/ CallFee(call) = MinFee
    BY <2>2, CallFees
  <2>7. /\ \E k \in {1, 2} : DOMAIN tx.output = 1..k /\ Len(tx.output) = k
        /\ Spent(tx) - Paid(tx) \in Int
        /\ CallFee(call) + DustLimit < Modulus => Spent(tx) - Paid(tx) >= CallFee(call)
    <3>1. CASE call.by = Minter
      <4> DEFINE rest == Total(call.utxos) - call.amount
                 paid == Monus(call.amount, BurnFee(call))
      <4>1. /\ fee = BurnFee(call) /\ tx.output = BurnTx(call).output
            /\ Total(call.utxos) >= call.amount
        BY <3>1 DEF BuildInv, ByMinter
      <4>2. /\ rest \in Nat
            /\ IF rest <= DustLimit
               THEN tx.output = << Pay(paid, Receiver) >> /\ Paid(tx) = paid
               ELSE /\ tx.output = << Pay(paid, Receiver), Pay(rest, Minter) >>
                    /\ Paid(tx) = paid + rest
        BY <2>2, <4>1, BurnPays
      <4>3. BurnFee(call) = CallFee(call) /\ call.amount >= CallFee(call)
        BY <2>2, <3>1, <4>1, CallFees
      <4>4. paid = call.amount - CallFee(call)
        BY <2>2, <2>6, <4>3, MonusNat
      <4>5. \E k \in {1, 2} : DOMAIN tx.output = 1..k /\ Len(tx.output) = k
        <5> HIDE DEF rest, paid
        <5>1. CASE rest <= DustLimit
          <6>1. DOMAIN tx.output = 1..1 /\ Len(tx.output) = 1
            BY <4>2, <5>1
          <6> QED BY <6>1
        <5>2. CASE ~(rest <= DustLimit)
          <6>1. DOMAIN tx.output = 1..2 /\ Len(tx.output) = 2
            BY <4>2, <5>2
          <6> QED BY <6>1
        <5> QED BY <5>1, <5>2
      <4>6. Spent(tx) = call.amount + rest
        BY <2>2, <2>3
      <4>7. rest \in Nat /\ (Paid(tx) = paid \/ Paid(tx) = paid + rest)
        BY <4>2
      <4> HIDE DEF paid, rest
      <4>8. Spent(tx) - Paid(tx) \in Int /\ Spent(tx) - Paid(tx) >= CallFee(call)
        BY <2>2, <2>6, <4>4, <4>6, <4>7
      <4> QED BY <4>5, <4>8
    <3>2. CASE call.by # Minter
      <4>1. PICK by \in Users : tx.output = CreatedTx(CreatedBy(by)).output
                              /\ ~Refuses(CreatedBy(by))
        BY <3>2 DEF BuildInv, ByUser
      <4> DEFINE c == CreatedBy(by)
      <4>2. /\ InRange(c) /\ c.utxos = call.utxos /\ c.amount = call.amount
            /\ c.rate = call.rate
        BY <2>1, CreatesInRange DEF BuildInv
      <4>3. CallFee(c) = CallFee(call)
        BY <4>2 DEF CallFee
      <4>4. tx.output = CreatedTx(c).output /\ ~Refuses(c)
        BY <4>1
      <4> HIDE DEF c
      <4>5. Total(c.utxos) \in Nat /\ Total(c.utxos) = Spent(tx)
        BY <2>3, <4>2
      <4> DEFINE due    == U64(c.amount + CallFee(c))
                 change == Total(c.utxos) - due
      <4>6. /\ change \in Nat
            /\ tx.output = IF change < DustLimit THEN << Pay(c.amount, Receiver) >>
                           ELSE << Pay(c.amount, Receiver), Pay(change, c.by) >>
            /\ Paid(tx) = IF change < DustLimit THEN c.amount ELSE c.amount + change
        BY <4>2, <4>4, <4>5, CreatePays
      <4> HIDE DEF change
      <4>7. \E k \in {1, 2} : DOMAIN tx.output = 1..k /\ Len(tx.output) = k
        <5>1. CASE change < DustLimit
          <6>1. DOMAIN tx.output = 1..1 /\ Len(tx.output) = 1
            BY <4>6, <5>1
          <6> QED BY <6>1
        <5>2. CASE ~(change < DustLimit)
          <6>1. DOMAIN tx.output = 1..2 /\ Len(tx.output) = 2
            BY <4>6, <5>2
          <6> QED BY <6>1
        <5> QED BY <5>1, <5>2
      <4>8. Spent(tx) - Paid(tx) \in Int /\ Paid(tx) <= Total(c.utxos)
        BY <2>2, <2>3, <4>2, <4>5, <4>6 DEF Balanced
      <4>9. ASSUME CallFee(call) + DustLimit < Modulus
            PROVE  Spent(tx) - Paid(tx) >= CallFee(call)
        <5>1. c.amount + CallFee(c) < Modulus
          BY <4>2, <4>3, <4>4, <4>5, <4>8, <4>9, BalancedInRange
        <5>2. /\ Total(c.utxos) - Paid(tx) = ReportedFee(c)
              /\ ReportedFee(c) >= CallFee(c)
          BY <4>2, <4>4, <4>5, <5>1, CreatePaysFee
        <5> QED BY <4>3, <4>5, <5>2
      <4> QED BY <4>7, <4>8, <4>9
    <3> QED BY <3>1, <3>2
  <2>8. Size(tx) \in Nat /\ b \in Nat /\ Size(tx) <= b
    BY <2>3, <2>4, <2>7, SentSizes
  <2> DEFINE high == b * (call.rate + MinFeeRate)
             low  == b * call.rate
             size == Size(tx) * call.rate
  <2>9. high \in Nat /\ low \in Nat /\ size \in Nat /\ size <= low
    <3>1. MinFeeRate \in Nat /\ call.rate \in Nat
      BY <2>2, PayoutAssumption
    <3> HIDE DEF b
    <3> QED BY <2>8, <3>1
  <2>10. /\ high < Modulus - DustLimit
         /\ high < Modulus => CallFee(call) >= low /\ (CallFee(call) <= high \/ CallFee(call) = MinFee)
    BY <2>5, <2>6
  <2> HIDE DEF high, low, size
  <2>11. /\ MinFee \in Nat /\ DustLimit \in Nat /\ Modulus \in Nat
         /\ MinFee + DustLimit < Modulus
    BY PayoutAssumption
  <2>12. CallFee(call) + DustLimit < Modulus /\ CallFee(call) >= size
    BY <2>6, <2>9, <2>10, <2>11
  <2>13. Spent(tx) - Paid(tx) >= IF size > MinFee THEN size ELSE MinFee
    BY <2>6, <2>7, <2>9, <2>11, <2>12
  <2> QED BY <2>13 DEF size
<1> QED BY <1>1, BuildAlways, PTL
=============================================================================
