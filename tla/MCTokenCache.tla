---------------------------- MODULE MCTokenCache ----------------------------
(* A small instance of TokenCache for TLC.                                  *)
EXTENDS TokenCache, TLC
=============================================================================
