---------------------------- MODULE MCDecisions ----------------------------
(* Small instances of Decisions for TLC.                                   *)
EXTENDS Decisions, TLC

CONSTANTS d1, d2, d3, d4, live, old, new

Written(kind, ticker, exceptional) ==
  [kind |-> kind, ticker |-> ticker, exceptional |-> exceptional,
   sound |-> TRUE, created |-> 0]

(* The two legs of a swap, an exceptional buy, one dated tomorrow, a       *)
(* decision that trades nothing and a sale the policy rejects.             *)
SwapDrafts ==
  {Written("SELL", old, FALSE), Written("BUY", new, FALSE), Written("ADD", old, TRUE),
   [Written("ADD", old, FALSE) EXCEPT !.created = 1],
   Written("HOLD", old, FALSE), [Written("TRIM", old, FALSE) EXCEPT !.sound = FALSE]}

(* A review declares a swap or none. *)
OneSwapOrNone == {new :> old, << >>}

(* Ids are random. *)
Ids == Permutations(Decision)
=============================================================================
