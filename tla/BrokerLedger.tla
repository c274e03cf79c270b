---------------------------- MODULE BrokerLedger ----------------------------
(***************************************************************************)
(* The ledger of live orders: execution packets, broker execution records  *)
(* and the append-only lifecycle events (app/broker/lifecycle.py, with     *)
(* save_execution_packet and save_broker_execution_record of               *)
(* app/storage/records.py), as any caller of `python -m app.broker.run`    *)
(* may drive it.                                                           *)
(*                                                                         *)
(* Every write is one transaction.  The two save functions read before     *)
(* their transaction begins, but only rows that are never changed or       *)
(* deleted, and a UNIQUE column decides between two that race: one action  *)
(* each.  All times are the caller's claims about the broker, so they are  *)
(* chosen freely; nothing here reads a clock.  An identical replay of a    *)
(* saved row changes nothing, a different row under its id is refused.     *)
(***************************************************************************)
EXTENDS Integers, Sequences

CONSTANTS
  Intent,        \* live order intents, saved, of one profile
  Packet,        \* execution packet ids
  Record,        \* broker execution record ids, one per lifecycle
  BrokerOrder,   \* the broker's own order ids
  SubmitWindow,  \* SUBMISSION_AFTER_REVIEW
  Horizon,       \* bound: the last instant a row can carry
  MaxEvents      \* bound: lifecycle events in all

ASSUME ConstantsAssumption ==
  /\ SubmitWindow \in Nat
  /\ Horizon \in Nat
  /\ MaxEvents \in Nat

VARIABLES
  packets,   \* live_execution_packets, by packet id
  records,   \* broker_execution_records, by record id
  events     \* broker_execution_events in rowid order

vars == <<packets, records, events>>

Time == 0..Horizon

Filled == {"PARTIALLY_FILLED", "FILLED"}
Closed == {"FILLED", "CANCELED", "FAILED"}
Status == {"REVIEWED", "SUBMITTED"} \cup Filled \cup Closed

PacketRow ==
  {row \in [intent : Intent, created : Time, expires : Time] :
     row.created < row.expires}
RecordRow == [intent : Intent, packet : Packet, submitted : Time, order : BrokerOrder]
EventRow == [record : Record, intent : Intent, packet : Packet, status : Status,
             at : Time]

(* Every row has the columns of its table, and a packet a span of validity. *)
TypeOK ==
  /\ DOMAIN packets \subseteq Packet
  /\ \A p \in DOMAIN packets : packets[p] \in PacketRow
  /\ DOMAIN records \subseteq Record
  /\ \A r \in DOMAIN records : records[r] \in RecordRow
  /\ events \in Seq(EventRow)

Init ==
  /\ packets = << >>
  /\ records = << >>
  /\ events = << >>

-----------------------------------------------------------------------------
(* Readings of the ledger.                                                 *)

EventsOf(r) == {i \in DOMAIN events : events[i].record = r}

(* ORDER BY occurred_at DESC, rowid DESC LIMIT 1 *)
IsLatest(i, r) ==
  /\ i \in EventsOf(r)
  /\ \A j \in EventsOf(r) :
       \/ events[j].at < events[i].at
       \/ events[j].at = events[i].at /\ j <= i

Latest(r) == events[CHOOSE i \in DOMAIN events : IsLatest(i, r)]

(* latest_execution_status() *)
StatusOf(r) == IF EventsOf(r) = {} THEN "NONE" ELSE Latest(r).status

LegalReopening(status) ==
  CASE status = "NONE" -> {"REVIEWED", "FAILED"}
    [] status = "REVIEWED" -> {"SUBMITTED", "CANCELED", "FAILED"}
    [] status \in {"SUBMITTED", "PARTIALLY_FILLED"} ->
         {"PARTIALLY_FILLED", "FILLED", "CANCELED", "FAILED"}
    [] status = "CANCELED" -> {"REVIEWED"}
    [] OTHER -> {}

(* _LEGAL_TRANSITIONS; a submitted order may also fill in parts. *)
Legal(status) ==
  CASE status = "NONE" -> {"REVIEWED", "FAILED"}
    [] status = "REVIEWED" -> {"SUBMITTED", "CANCELED", "FAILED"}
    [] status \in {"SUBMITTED", "PARTIALLY_FILLED"} ->
         {"PARTIALLY_FILLED", "FILLED", "CANCELED", "FAILED"}
    [] OTHER -> {}

-----------------------------------------------------------------------------
(* Operations.  Each slip a change could make stands before the definition *)
(* a mutation run replaces by it.                                          *)

(* What the schema of a packet wants of its times. *)
ConsistentUntilNow(created, expires) == created <= expires

Consistent(created, expires) == created < expires

(* save_execution_packet() *)
SavePacket(p, i, created, expires) ==
  /\ p \notin DOMAIN packets
  /\ Consistent(created, expires)
  /\ packets' = [q \in DOMAIN packets \cup {p} |->
                   IF q = p THEN [intent |-> i, created |-> created, expires |-> expires]
                   ELSE packets[q]]
  /\ UNCHANGED <<records, events>>

(* save_broker_execution_record(): the packet was reviewed under this      *)
(* record id, and the submission follows that review closely.  What the    *)
(* lifecycle did after its review is not looked at.                        *)
ReviewedJustBeforeNoWindow(r, p, submitted) ==
  \E k \in EventsOf(r) :
    /\ events[k].packet = p /\ events[k].status = "REVIEWED"
    /\ events[k].at <= submitted

ReviewedJustBefore(r, p, submitted) ==
  \E k \in EventsOf(r) :
    /\ events[k].packet = p /\ events[k].status = "REVIEWED"
    /\ events[k].at <= submitted
    /\ submitted - events[k].at <= SubmitWindow

(* UNIQUE (order_intent_id) and UNIQUE (broker_order_id) *)
UnusedOrderOnly(i, order) == \A r \in DOMAIN records : records[r].order # order

Unused(i, order) ==
  \A r \in DOMAIN records : records[r].intent # i /\ records[r].order # order

SaveRecord(r, i, p, submitted, order) ==
  /\ p \in DOMAIN packets
  /\ packets[p].intent = i
  /\ packets[p].created <= submitted
  /\ ReviewedJustBefore(r, p, submitted)
  /\ r \notin DOMAIN records
  /\ Unused(i, order)
  /\ records' = [q \in DOMAIN records \cup {r} |->
                   IF q = r
                   THEN [intent |-> i, packet |-> p, submitted |-> submitted,
                         order |-> order]
                   ELSE records[q]]
  /\ UNCHANGED <<packets, events>>

(* _append_execution_event(), check by check. *)
SameLifecycleAnyTime(e) ==
  EventsOf(e.record) # {} =>
    Latest(e.record).intent = e.intent /\ Latest(e.record).packet = e.packet

SameLifecycleTimeOnly(e) ==
  EventsOf(e.record) # {} => Latest(e.record).at <= e.at

SameLifecycle(e) ==
  EventsOf(e.record) # {} =>
    /\ Latest(e.record).intent = e.intent
    /\ Latest(e.record).packet = e.packet
    /\ Latest(e.record).at <= e.at

PacketAllowsLateReview(e) ==
  /\ e.packet \in DOMAIN packets
  /\ packets[e.packet].intent = e.intent
  /\ packets[e.packet].created <= e.at

PacketAllows(e) ==
  /\ e.packet \in DOMAIN packets
  /\ packets[e.packet].intent = e.intent
  /\ packets[e.packet].created <= e.at
  /\ e.status = "REVIEWED" => e.at < packets[e.packet].expires

RecordAllows(e) ==
  /\ e.record \in DOMAIN records
  /\ records[e.record].intent = e.intent
  /\ records[e.record].packet = e.packet

CancelsReview(e) == e.status = "CANCELED" /\ StatusOf(e.record) = "REVIEWED"

NeedsPacket(e) == e.status = "REVIEWED" \/ CancelsReview(e)

NeedsRecordUnlessSubmitted(e) == e.status \in Filled

NeedsRecord(e) ==
  \/ e.status \in {"SUBMITTED"} \cup Filled
  \/ e.status = "CANCELED" /\ ~CancelsReview(e)

AppendEvent(e) ==
  /\ Len(events) < MaxEvents
  /\ SameLifecycle(e)
  /\ e.status \in Legal(StatusOf(e.record))
  /\ NeedsPacket(e) => PacketAllows(e)
  /\ NeedsRecord(e) => RecordAllows(e)
  /\ events' = Append(events, e)
  /\ UNCHANGED <<packets, records>>

Next ==
  \/ \E p \in Packet, i \in Intent, created, expires \in Time :
       SavePacket(p, i, created, expires)
  \/ \E r \in Record, i \in Intent, p \in Packet, submitted \in Time,
        order \in BrokerOrder :
       SaveRecord(r, i, p, submitted, order)
  \/ \E e \in EventRow : AppendEvent(e)

Spec == Init /\ [][Next]_vars

-----------------------------------------------------------------------------
(* Properties.                                                             *)

(* The latest status, chosen by the callers' times, is also the last one   *)
(* written: a late or backdated update never hides behind an earlier row.  *)
LatestIsLast ==
  \A i, j \in DOMAIN events :
    events[i].record = events[j].record /\ i <= j => events[i].at <= events[j].at

(* One lifecycle serves one intent and one packet from its first event on. *)
OneIdentity ==
  \A i, j \in DOMAIN events :
    events[i].record = events[j].record =>
      events[i].intent = events[j].intent /\ events[i].packet = events[j].packet

(* An order recorded as placed was reviewed, under the very packet that    *)
(* was placed and before that packet expired, and placed soon after.       *)
PlacedWasReviewed ==
  \A r \in DOMAIN records :
    LET p == records[r].packet IN
    /\ p \in DOMAIN packets /\ packets[p].intent = records[r].intent
    /\ \E k \in EventsOf(r) :
         /\ events[k].status = "REVIEWED"
         /\ events[k].packet = p /\ events[k].intent = records[r].intent
         /\ events[k].at < packets[p].expires
         /\ records[r].submitted - events[k].at \in 0..SubmitWindow

(* Two lifecycles of an intent never both reach the market: of all the     *)
(* record ids an intent was tried under, one at most was ever submitted.  *)
OneSubmissionPerIntent ==
  \A i, j \in DOMAIN events :
    /\ events[i].status \in {"SUBMITTED"} \cup Filled
    /\ events[j].status \in {"SUBMITTED"} \cup Filled
    /\ events[i].intent = events[j].intent
    => events[i].record = events[j].record

(* What makes the above inductive, proved in BrokerLedger_proofs: every    *)
(* lifecycle with events has a latest one, a review was admitted by its    *)
(* packet, and an event of a placed order has its record.                  *)
LatestExists ==
  \A r \in Record : EventsOf(r) # {} => \E i \in DOMAIN events : IsLatest(i, r)

ReviewsAdmitted ==
  \A k \in DOMAIN events : events[k].status = "REVIEWED" =>
    /\ events[k].packet \in DOMAIN packets
    /\ packets[events[k].packet].intent = events[k].intent
    /\ events[k].at < packets[events[k].packet].expires

PlacedRecorded ==
  \A k \in DOMAIN events : events[k].status \in {"SUBMITTED"} \cup Filled =>
    /\ events[k].record \in DOMAIN records
    /\ records[events[k].record].intent = events[k].intent

OneRecordPerIntent ==
  \A q, r \in DOMAIN records : records[q].intent = records[r].intent => q = r

(* Whatever times and identities callers send: a lifecycle has one latest   *)
(* event, its last row, and keeps the intent and packet of its first; what *)
(* was placed has its record, one per intent, and a review of its packet   *)
(* made in time.                                                           *)
IInv ==
  /\ TypeOK
  /\ LatestExists
  /\ LatestIsLast
  /\ OneIdentity
  /\ ReviewsAdmitted
  /\ PlacedWasReviewed
  /\ PlacedRecorded
  /\ OneRecordPerIntent

(* Once a lifecycle is filled, canceled or failed, no caller can add to it. *)
ClosedKept ==
  \A r \in Record : StatusOf(r) \in Closed => EventsOf(r)' = EventsOf(r)

ClosedStaysClosed == [][ClosedKept]_vars

-----------------------------------------------------------------------------
(* The ledger implements OrderFate: a lifecycle is placed when its         *)
(* execution record is saved, and its fate is that of its latest event.    *)
FateOf(r) ==
  CASE StatusOf(r) = "NONE" -> "unseen"
    [] StatusOf(r) = "REVIEWED" -> "reviewed"
    [] StatusOf(r) \in {"SUBMITTED", "PARTIALLY_FILLED"} -> "working"
    [] OTHER -> "ended"

Fate == INSTANCE OrderFate WITH
  Lifecycle <- Record,
  fate <- [r \in Record |-> FateOf(r)],
  placed <- {<<records[r].intent, r>> : r \in DOMAIN records}

FateSpec == Fate!Spec
=============================================================================
