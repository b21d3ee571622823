-------------------------------- MODULE MCApp --------------------------------
(* Instance: two names and two descriptors, so that a name is loaded again   *)
(* with another descriptor and a descriptor under another name; one signer;  *)
(* one asset and its token.                                                  *)
EXTENDS App, TLC

CONSTANTS n1, n2, d1, d2, sig, reg, tok, pol

McName == {n1, n2}
McDesc == {d1, d2}
McToken(x) == tok

=============================================================================
