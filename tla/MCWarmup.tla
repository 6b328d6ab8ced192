------------------------------- MODULE MCWarmup -------------------------------
(* Bars of two ticks and pages of two bars, on the three venues. *)
EXTENDS Warmup

MCVenues == {"binance", "okx", "bybit"}
=============================================================================
