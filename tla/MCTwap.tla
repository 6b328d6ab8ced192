-------------------------------- MODULE MCTwap --------------------------------
(* Twap with a few lots and slices. *)
EXTENDS Twap

Command(total, slices, minAmount, useLimit) ==
  [total |-> total, slices |-> slices, minAmount |-> minAmount, useLimit |-> useLimit]

\* Two limit slices with an odd lot dropped and amounts too small to take over;
\* three slices with the remainder on the last; one slice; all at once.
MCCommands ==
  {Command(5, 2, 2, TRUE), Command(5, 3, 1, FALSE), Command(3, 1, 1, TRUE)}
    \cup {Command(3, 2, 2, b) : b \in BOOLEAN}
=============================================================================
