-------------------------------- MODULE MCCodec --------------------------------
(* Instances of Codec for TLC. *)
EXTENDS Codec

\* VERSION_AUXPOW is 4 here: 1 is a legacy version, 5 has the flag, and 9 a
\* chain id without the flag.
Header(version) == <<version, 7, 7, 0, 1, 0>>

Coinbase == <<1, << <<0, 9, << >>, 1>> >>, << <<3, <<2>> >> >>, 0>>
Payment  == <<1, << <<7, 0, <<1, 2>>, 1>>, <<7, 1, << >>, 1>> >>,
              << <<1, <<2>> >>, <<2, << >> >> >>, 0>>
Proof    == <<Coinbase, 7, << <<7>>, 0>>, << << >>, 1>>, Header(1)>>

SomeBlocks == {<<Header(1), << >>, <<Coinbase>> >>,
               <<Header(9), << >>, <<Coinbase, Payment>> >>,
               <<Header(5), <<Proof>>, <<Coinbase>> >>,
               <<Header(13), <<Proof>>, << >> >>}
=============================================================================
