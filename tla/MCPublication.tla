---------------------------- MODULE MCPublication ----------------------------
(* A live order that needs and cites a source, a live decision of the same *)
(* run that was rejected, and a paper order.                               *)
(* The scenes start from a source that is new, has a prepared run, or has  *)
(* decisions made by hand.                                                 *)
EXTENDS Publication

Order == [scope |-> "live", ticker |-> "t", policy |-> "approved", order |-> TRUE,
          needs |-> {"f"}, cites |-> {"f"}, run |-> "r"]

Rejected == [Order EXCEPT !.policy = "rejected", !.order = FALSE, !.needs = {}]

Paper == [Order EXCEPT !.scope = "paper", !.needs = {}, !.cites = {}, !.run = Nil]

Kinds == <<Order, Rejected, Paper>>

Prepared == Prepare(EmptySource, "r")

(* Both live decisions were made by hand, and the paper one. *)
Decided == Decide(Decide(Decide(Prepared, 1, 1), 2, 1), 3, 1)

Trading ==
  [from |-> Revise(Decided, "f"), publishers |-> {"watch"}, left |-> 4,
   does |-> {"broker", "fill", "evidence", "die"}]

Reading ==
  [from |-> Revise(Decide(Prepared, 2, 1), "f"), publishers |-> {"watch"}, left |-> 4,
   does |-> {"decide", "broker", "evidence", "revoke", "read"}]

Reviewing ==
  [from |-> EmptySource, publishers |-> {"watch"}, left |-> 5, does |-> {"run", "decide"}]

(* The attempt of a run decides, and its orders are executed. *)
Tracing ==
  [from |-> Revise(Claim(Wrap(Prepared, "r"), "r"), "f"), publishers |-> {"watch"}, left |-> 4,
   does |-> {"decide", "session", "note", "broker", "rebuild"}]

Scheduling ==
  [from |-> Prepared, publishers |-> {"watch"}, left |-> 4, does |-> {"run", "schedule", "die"}]

Operating ==
  [from |-> Decided, publishers |-> {"watch"}, left |-> 3,
   does |-> {"value", "fill", "evidence", "revoke", "rebuild", "day", "profile"}]

Overlap ==
  [from |-> Decided, publishers |-> {"watch", "hand"}, left |-> 3,
   does |-> {"broker", "fill", "evidence", "hand", "revoke", "day"}]

(* A publisher that read a reasoning run before the other published the    *)
(* run that wraps it.                                                      *)
Wrapping ==
  [from |-> EmptySource, publishers |-> {"watch", "hand"}, left |-> 4, does |-> {"run", "hand"}]

Scenes == {Trading, Reading, Reviewing, Tracing, Scheduling, Operating, Overlap, Wrapping}
=============================================================================
