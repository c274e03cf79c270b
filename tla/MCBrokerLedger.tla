--------------------------- MODULE MCBrokerLedger ---------------------------
(* Small instances of BrokerLedger for TLC.                                *)
EXTENDS BrokerLedger, TLC

CONSTANTS i1, i2, p1, p2, b1, b2, o1, o2

(* Intents, packets, records and broker orders are interchangeable. *)
Ids == UNION {Permutations(S) : S \in {{i1, i2}, {p1, p2}, {b1, b2}, {o1, o2}}}
=============================================================================
