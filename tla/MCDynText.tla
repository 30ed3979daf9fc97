----------------------------- MODULE MCDynText -----------------------------
(* Five bundles of two bytes and the halt sled, in pages of four bytes; the   *)
(* program passes any byte address in them, and sizes up to two bundles.      *)
EXTENDS DynText, TLC

MCAddress == 4 .. 15
MCSize == 0 .. 4
=============================================================================
