------------------------------ MODULE MCCandles ------------------------------
(* Model-checking instance of Candles. *)
EXTENDS Candles
=============================================================================
