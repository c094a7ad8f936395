-------------------------------- MODULE Limiter --------------------------------
(***************************************************************************)
(* What the throttles of the hub and of the bridge have in common: lists   *)
(* of the times at which something was let pass, of which the old ones are *)
(* filtered out whenever a throttle is asked.                              *)
(***************************************************************************)
EXTENDS Integers, Sequences

\* filter: the times after a moment, in their order.  (SelectSeq, written out so that
\* it can be reasoned about.)
After(times, moment) ==
  LET kept[i \in 0..Len(times)] ==
        IF i = 0 THEN <<>>
        ELSE IF times[i] > moment THEN Append(kept[i - 1], times[i])
        ELSE kept[i - 1]
  IN  kept[Len(times)]
=============================================================================
