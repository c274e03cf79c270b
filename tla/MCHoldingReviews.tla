-------------------------- MODULE MCHoldingReviews --------------------------
(* A Tuesday to the Monday after it, with a price that may call a review   *)
(* at the first day's last tick, then stays, and without its mornings; a   *)
(* Thursday and a Friday with a report, a spike in volume and a review     *)
(* after the close; and a Wednesday with prices that lose 15 or 40 % or go *)
(* beyond one of two ranges.                                               *)
EXTENDS HoldingReviews

Stated ==
  [tight |-> [low |-> 120, high |-> 125, floor |-> 70],
   loose |-> [low |-> 140, high |-> 150, floor |-> 50]]

At(d, part) == 6 * d + part

Says(verdict, range, exit, triage, other) ==
  [verdict |-> verdict, range |-> range, evidence |-> TRUE, exit |-> exit, triage |-> triage,
   other |-> other]

Keeps == {Says("none", "loose", FALSE, "none", FALSE), Says("intact", "loose", FALSE, "none", FALSE)}

Week ==
  [first |-> 1, last |-> 7, slots |-> {3, 4}, range |-> "tight",
   earnings |-> {}, spikes |-> {}, headlines |-> {},
   quotes |-> [t \in {At(1, 4)} |-> {100, 130}], answers |-> Keeps]

Report ==
  [first |-> 3, last |-> 4, slots |-> {1, 3, 4, 5}, range |-> "loose",
   earnings |-> {3}, spikes |-> {3}, headlines |-> {},
   quotes |-> [t \in {At(3, 2), At(4, 3)} |-> IF t = At(3, 2) THEN {100, 130} ELSE {130}],
   answers |-> Keeps]

Turn ==
  [first |-> 2, last |-> 2, slots |-> {1, 3, 4}, range |-> "none",
   earnings |-> {}, spikes |-> {}, headlines |-> {At(2, 3)},
   quotes |-> [t \in {At(2, 2), At(2, 3), At(2, 4)} |-> IF t = At(2, 3) THEN {80, 100} ELSE {55, 130}],
   answers |-> {Says("none", "tight", FALSE, "none", FALSE),
                Says("intact", "tight", FALSE, "same", FALSE),
                Says("intact", "loose", FALSE, "none", TRUE),
                Says("invalidated", "tight", TRUE, "changes", FALSE)}]

Scenes == {Week, Report, Turn}
=============================================================================
