---------------------------- MODULE MC_LineCodec ----------------------------
(* The codec with a command line limit of 3 bytes instead of 255, so that  *)
(* lines at, below and above the limit fit in a few bytes.                 *)
EXTENDS LineCodec, TLC
====
