--------------------------- MODULE MCReviewWorker ---------------------------
(* One attempt with the shortest leases that the assumptions allow. *)
EXTENDS ReviewWorker

CONSTANTS nvda

Says(shortfall, gaps, decisions, reviews) ==
  [shortfall |-> shortfall, gaps |-> gaps, decisions |-> decisions, reviews |-> reviews]

Answers ==
  { Says(FALSE, FALSE, {}, {}),
    Says(FALSE, FALSE, {"funding", "buy", "exit"}, {nvda}),
    Says(FALSE, TRUE, {"funding", "buy", "exit"}, {nvda}),
    Says(FALSE, TRUE, {"add"}, {}),
    Says(TRUE, FALSE, {"buy"}, {}) }
=============================================================================
