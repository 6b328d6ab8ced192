-------------------------- MODULE MCSubscriptions --------------------------
(* Two topics, a third that is not listed, and two connections of one topic. *)
EXTENDS Subscriptions

CONSTANTS t1, t2, bad

\* One topic, or two at once.
ShortLists == {<<t1>>, <<t2>>, <<bad>>, <<t1, t2>>}
=============================================================================
