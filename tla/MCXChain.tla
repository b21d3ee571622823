------------------------------- MODULE MCXChain ------------------------------
(* Instance: see xchain.cfg.                                                 *)
EXTENDS XChain, TLC
=============================================================================
