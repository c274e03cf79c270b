--------------------------- MODULE MCRuntimeLease ---------------------------
(* Small instances of RuntimeLease for TLC.                                *)
EXTENDS RuntimeLease, TLC

CONSTANTS r1, r2, a1, a2, a3, live, paper

(* Two runs of one account, so that every claim contends. *)
OneAccount == [r \in Run |-> live]

(* One live and one paper run, each with an account of its own. *)
TwoAccounts == [r \in Run |-> IF r = r1 THEN live ELSE paper]

(* Both runs are prepared for the first day. *)
SameDay == [r \in Run |-> 0]

(* Attempt ids are random. *)
AttemptIds == {a1, a2, a3}

(* Nothing tells attempt ids apart. *)
AttemptSymmetry == Permutations(AttemptIds)
=============================================================================
