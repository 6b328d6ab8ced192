----------------------------- MODULE MCCacheSync -----------------------------
(* CacheSync on small sets of orders and parameters. *)
EXTENDS CacheSync
=============================================================================
