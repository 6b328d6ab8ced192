------------------------------- MODULE MCKlines -------------------------------
(* Klines with a few prices and sizes, one of them larger than two bars. *)
EXTENDS Klines
=============================================================================
