----------------------------- MODULE MCSchedule -----------------------------
(* A small instance of Schedule for TLC.                                   *)
EXTENDS Schedule, TLC

CONSTANTS morning, midday, k1, e1, e2

(* A calendar by day. *)
FullThenHalf == [d \in Days |-> IF d = 0 THEN "full" ELSE "half"]

(* Due at the start of a day, or at the end of full sessions only. *)
AtStart == [kind \in {"full", "half"} |-> 0]
AtEnd == [kind \in {"full", "half"} |-> IF kind = "full" THEN 1 ELSE NoDue]

StartOrEnd == {AtStart, AtEnd}

Active(plan) == [active |-> TRUE, paused |-> FALSE, plan |-> plan]

Inactive(plan) == [Active(plan) EXCEPT !.active = FALSE]

Files == {Active(AtStart), Active(AtEnd), Inactive(AtStart)}

(* One schedule with its ticks, which is edited while occurrences wait;    *)
(* and two schedules that two operators pause, resume and run by hand.     *)
Polling(e) ==
  [schedules |-> {morning}, ticks |-> {k1}, editors |-> {e},
   files |-> {Active(AtStart), Active(AtEnd)}, reports |-> {}, lag |-> 1, attempts |-> 2,
   end |-> 2]

Braking ==
  [schedules |-> {morning, midday}, ticks |-> {}, editors |-> {e1, e2},
   files |-> {Active(AtStart), Inactive(AtStart)}, reports |-> {TRUE}, lag |-> 0,
   attempts |-> 1, end |-> 1]

Scenes == {Polling(e1), Polling(e2), Braking}

Operators == Permutations({e1, e2})
=============================================================================
