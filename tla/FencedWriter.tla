---------------------------- MODULE FencedWriter ----------------------------
(***************************************************************************)
(* What the account lease of storage/runtime.py promises, without clocks,  *)
(* heartbeats or attempt rows: every account scope has at most one holder, *)
(* each new holder gets a larger token than every earlier one, and only    *)
(* the current holder can add to the log of accepted writes.               *)
(***************************************************************************)
EXTENDS Integers, Sequences

CONSTANTS Scope, Holder, NoHolder   \* NoHolder is no member of Holder

VARIABLES
  holder,   \* holder[s]: who owns the scope, or NoHolder
  token,    \* token[s]: the last token handed out for the scope
  spent,    \* the holders that have had their turn
  log       \* accepted writes, oldest first: [scope, token] records

vars == <<holder, token, spent, log>>

Init ==
  /\ holder = [s \in Scope |-> NoHolder]
  /\ token = [s \in Scope |-> 0]
  /\ spent = {}
  /\ log = << >>

Freed(R) == [s \in Scope |-> IF s \in R THEN NoHolder ELSE holder[s]]

(* Holders give up, or lose, the scopes in R. *)
Release(R) ==
  /\ holder' = Freed(R)
  /\ UNCHANGED <<token, spent, log>>

(* h takes scope s, after the holders of the scopes in R were evicted. *)
Acquire(R, s, h) ==
  /\ Freed(R)[s] = NoHolder
  /\ h \notin spent
  /\ holder' = [Freed(R) EXCEPT ![s] = h]
  /\ token' = [token EXCEPT ![s] = @ + 1]
  /\ spent' = spent \cup {h}
  /\ UNCHANGED log

(* The holder of s writes under its token. *)
Accept(s) ==
  /\ holder[s] # NoHolder
  /\ log' = Append(log, [scope |-> s, token |-> token[s]])
  /\ UNCHANGED <<holder, token, spent>>

Next ==
  \/ \E R \in SUBSET Scope : Release(R)
  \/ \E R \in SUBSET Scope, s \in Scope, h \in Holder : Acquire(R, s, h)
  \/ \E s \in Scope : Accept(s)

Spec == Init /\ [][Next]_vars

=============================================================================
