------------------------------ MODULE OrderFate ------------------------------
(***************************************************************************)
(* What the broker ledger promises about an order intent, without packets, *)
(* times or event rows.  An intent is tried under one or more lifecycles,  *)
(* each known by its execution record id.  At most one lifecycle of an     *)
(* intent is ever placed at the broker, only after it was seen by a broker *)
(* review, and a lifecycle only moves forward:                             *)
(*                                                                         *)
(*        unseen -> reviewed -> working -> ended                           *)
(***************************************************************************)
EXTENDS Naturals

CONSTANTS Intent, Lifecycle

VARIABLES
  fate,    \* fate[l]: how far lifecycle l has come
  placed   \* <<i, l>>: intent i was placed under lifecycle l

vars == <<fate, placed>>

Init ==
  /\ fate = [l \in Lifecycle |-> "unseen"]
  /\ placed = {}

Review(l) ==
  /\ fate[l] = "unseen"
  /\ fate' = [fate EXCEPT ![l] = "reviewed"]
  /\ UNCHANGED placed

(* The order of intent i is recorded as placed.  The review may have been  *)
(* written off meanwhile: the ledger learns of a placement after the fact. *)
Place(i, l) ==
  /\ fate[l] # "unseen"
  /\ \A p \in placed : p[1] # i /\ p[2] # l
  /\ placed' = placed \cup {<<i, l>>}
  /\ UNCHANGED fate

Work(l) ==
  /\ fate[l] = "reviewed"
  /\ \E p \in placed : p[2] = l
  /\ fate' = [fate EXCEPT ![l] = "working"]
  /\ UNCHANGED placed

(* A lifecycle ends once, from wherever it stands. *)
End(l) ==
  /\ fate[l] # "ended"
  /\ fate' = [fate EXCEPT ![l] = "ended"]
  /\ UNCHANGED placed

Next ==
  \E l \in Lifecycle :
    \/ Review(l) \/ Work(l) \/ End(l)
    \/ \E i \in Intent : Place(i, l)

Spec == Init /\ [][Next]_vars
=============================================================================
