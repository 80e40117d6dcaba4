-------------------------- MODULE MCAsyncPublisher --------------------------
(* The instance of AsyncPublisher for TLC. *)
EXTENDS AsyncPublisher

CONSTANTS small, large

TwoClasses == {small, large}
\* The message that follows a blocked one may be of the other class.
ThirdSmall == [m \in Message |-> IF m = 3 THEN small ELSE large]

=============================================================================
