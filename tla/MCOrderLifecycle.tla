------------------------- MODULE MCOrderLifecycle -------------------------
(* Instances of OrderLifecycle for TLC. *)
EXTENDS OrderLifecycle

\* Every order is for the same instrument.
OneSymbol == [o \in Oids |-> CHOOSE s \in Symbols : TRUE]
=============================================================================
