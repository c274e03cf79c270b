----------------------------- MODULE MCXDigester -----------------------------
(* Pages: two accounts, a page left open over a weekend.  Weekend: a run   *)
(* of a Friday that fails before the weekly one, with a link.  HalfDay:    *)
(* the two runs of a half day, all judgments.  Synced: the reads are set   *)
(* to the count of X.                                                      *)
EXTENDS XDigester

At(day, from) == [day |-> day, from |-> from, link |-> FALSE]

Link(day, from) == [day |-> day, from |-> from, link |-> TRUE]

Pages ==
  [slots |-> {<<4, 1>>, <<7, 1>>, <<7, 2>>}, cycles |-> 4, reads |-> 1,
   posts |-> [a \in Account |-> IF a = "a" THEN <<At(4, 0), At(4, 1), At(7, 2)>> ELSE <<At(4, 1)>>],
   routes |-> {}, rosters |-> {{"a"}}, labels |-> {}, rehydrate |-> TRUE, usage |-> {}]

Weekend ==
  [slots |-> {<<4, 1>>, <<4, 4>>, <<6, 5>>, <<7, 1>>}, cycles |-> 4, reads |-> 0,
   posts |-> [a \in Account |-> IF a = "a" THEN <<At(4, 1), Link(4, 2)>> ELSE <<>>],
   routes |-> {}, rosters |-> {{"a"}}, labels |-> {}, rehydrate |-> FALSE, usage |-> {}]

HalfDay ==
  [slots |-> {<<4, 1>>, <<4, 4>>}, cycles |-> 3, reads |-> 0,
   posts |-> [a \in Account |-> IF a = "a" THEN <<At(4, 1), At(4, 2)>> ELSE <<>>],
   routes |-> {"digest", "skip"}, rosters |-> {{"a"}}, labels |-> {<<"a", 1>>}, rehydrate |-> FALSE, usage |-> {}]

Synced ==
  [slots |-> {<<4, 1>>, <<4, 4>>}, cycles |-> 2, reads |-> 4,
   posts |-> [a \in Account |-> IF a = "a" THEN <<At(4, 0), At(4, 1)>> ELSE <<>>],
   routes |-> {}, rosters |-> {}, labels |-> {}, rehydrate |-> TRUE, usage |-> {2, 3, 7}]

MCScenes == {Pages, Weekend, HalfDay, Synced}
=============================================================================
