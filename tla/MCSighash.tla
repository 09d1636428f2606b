------------------------------ MODULE MCSighash ------------------------------
(* Instances of SighashEdits for TLC. *)
EXTENDS SighashEdits

CONSTANTS key, none, p1, p2

AllTypes == [base : Bases, any : BOOLEAN]

In(p)  == [prevout |-> p, script |-> none, sequence |-> 2]
Out(v) == [value |-> v, script |-> key]
Tx(ins, outs) == [version |-> 1, lock_time |-> 0, input |-> ins, output |-> outs]

\* More inputs than outputs, as many, and fewer.
SomeTxs == {Tx(<<In(p1), In(p2)>>, <<Out(1)>>),
            Tx(<<In(p1), In(p2)>>, <<Out(1), Out(2)>>),
            Tx(<<In(p1)>>, <<Out(2), Out(1)>>)}
=============================================================================
