--------------------------- MODULE MCLiveExecutor ---------------------------
(* Small instances of LiveExecutor for TLC.                                *)
EXTENDS LiveExecutor, TLC

CONSTANTS s1, b1, sched

(* b1 is the buy of a swap funded by the sale s1. *)
OneSwap == b1 :> s1

(* One sale over a day whose close is before its end; and a swap at one    *)
(* instant, during which a tick may be killed.                             *)
LongDay == [intents |-> {s1}, orders |-> 2, mayDie |-> {}, end |-> 4]
SwapOfKilled == [intents |-> {s1, b1}, orders |-> 1, mayDie |-> {sched}, end |-> 0]

Scenes == {LongDay, SwapOfKilled}

(* A sale and a tick that may be killed; a swap and none that is.          *)
Killed == {[intents |-> {s1}, orders |-> 2, mayDie |-> {sched}, end |-> 2]}
Swaps == {[intents |-> {s1, b1}, orders |-> 2, mayDie |-> {}, end |-> 2]}
=============================================================================
