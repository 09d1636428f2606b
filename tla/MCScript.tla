------------------------------- MODULE MCScript -------------------------------
(* Instances of ScriptTypes for TLC, with short hashes and keys. *)
EXTENDS ScriptTypes

SomeAddresses == {<<30, 1, 2>>, <<22, 1, 2>>, <<22, 2, 4>>, <<30, 2, 2>>}
K2 == <<2, 7, 7>>
K4 == <<4, 7, 7, 7, 7>>
SomeScripts ==
  {K2 \o <<OP_CHECKSIG>>, K4 \o <<OP_CHECKSIG>>,
   <<OP_1>> \o K2 \o <<OP_1, OP_CHECKMULTISIG>>,
   <<OP_1>> \o K2 \o K4 \o <<OP_1 + 1, OP_CHECKMULTISIG>>,
   <<OP_RETURN, 1>>}
=============================================================================
