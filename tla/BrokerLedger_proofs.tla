------------------------ MODULE BrokerLedger_proofs ------------------------
(***************************************************************************)
(* Proofs about the ledger of live orders, for any intents, packets,       *)
(* records, submission window and bounds: type correctness, that the order *)
(* of a lifecycle's times is the order of its rows, that it keeps its      *)
(* identity, that what was placed was reviewed in time, that one lifecycle *)
(* per intent is submitted, that a closed one stays closed, and that the   *)
(* ledger implements OrderFate.                                            *)
(***************************************************************************)
EXTENDS BrokerLedger, TLAPS

(* The latest event of a lifecycle is one of its events.                   *)
LEMMA LatestFacts ==
  ASSUME LatestExists, NEW r \in Record, EventsOf(r) # {}
  PROVE  \E i \in DOMAIN events : IsLatest(i, r) /\ Latest(r) = events[i]
  BY DEF LatestExists, Latest

(* Appending leaves the earlier rows alone.                                *)
LEMMA Appended ==
  ASSUME NEW S, NEW s \in Seq(S), NEW x \in S
  PROVE  /\ Append(s, x) \in Seq(S)
         /\ DOMAIN Append(s, x) = DOMAIN s \cup {Len(s) + 1}
         /\ Len(s) + 1 \notin DOMAIN s
         /\ \A i \in DOMAIN s : i \in Nat /\ i < Len(s) + 1
         /\ Len(s) + 1 \in Nat
         /\ Append(s, x)[Len(s) + 1] = x
         /\ \A i \in DOMAIN s : Append(s, x)[i] = s[i]
  OBVIOUS

(* An accepted event does not precede any event of its lifecycle, and has  *)
(* the intent and packet of them all.                                      *)
LEMMA AcceptedEvent ==
  ASSUME IInv, NEW e \in EventRow, SameLifecycle(e)
  PROVE  \A i \in EventsOf(e.record) :
           /\ events[i].at <= e.at
           /\ events[i].intent = e.intent
           /\ events[i].packet = e.packet
  <1> SUFFICES ASSUME NEW i \in EventsOf(e.record)
               PROVE  /\ events[i].at <= e.at
                      /\ events[i].intent = e.intent
                      /\ events[i].packet = e.packet
    OBVIOUS
  <1>1. e.record \in Record /\ e.at \in Nat
    BY ConstantsAssumption DEF EventRow, Time
  <1>2. PICK k \in DOMAIN events : IsLatest(k, e.record) /\ Latest(e.record) = events[k]
    BY <1>1, LatestFacts DEF IInv
  <1>3. /\ events[k].intent = e.intent /\ events[k].packet = e.packet
        /\ events[k].at <= e.at
    BY <1>2 DEF SameLifecycle
  <1>4. /\ i \in DOMAIN events /\ events[i].record = e.record
        /\ k \in DOMAIN events /\ events[k].record = e.record
    BY <1>2 DEF EventsOf, IsLatest
  <1>5. events[i] \in EventRow /\ events[k] \in EventRow
    BY <1>4 DEF IInv, TypeOK
  <1>6. events[i].at \in Nat /\ events[k].at \in Nat
    BY <1>5, ConstantsAssumption DEF EventRow, Time
  <1>7. events[i].at <= events[k].at
    BY <1>2, <1>4, <1>6 DEF IsLatest
  <1>8. events[i].intent = events[k].intent /\ events[i].packet = events[k].packet
    BY <1>4 DEF IInv, OneIdentity
  <1>9. QED
    BY <1>1, <1>3, <1>6, <1>7, <1>8

(* A lifecycle's latest event is unique, and is what StatusOf reads.       *)
LEMMA LatestUnique ==
  ASSUME TypeOK, NEW r \in Record, NEW i \in DOMAIN events, IsLatest(i, r)
  PROVE  StatusOf(r) = events[i].status /\ Latest(r) = events[i]
  <1>1. \A j \in DOMAIN events : IsLatest(j, r) => j = i
    <2> SUFFICES ASSUME NEW j \in DOMAIN events, IsLatest(j, r)
                 PROVE  j = i
      OBVIOUS
    <2>1. events[i] \in EventRow /\ events[j] \in EventRow /\ i \in Nat /\ j \in Nat
      BY DEF TypeOK
    <2>2. events[i].at \in Nat /\ events[j].at \in Nat
      BY <2>1, ConstantsAssumption DEF EventRow, Time
    <2>3. QED
      BY <2>1, <2>2 DEF IsLatest
  <1>2. (CHOOSE j \in DOMAIN events : IsLatest(j, r)) = i
    BY <1>1
  <1>3. EventsOf(r) # {}
    BY DEF IsLatest
  <1>4. QED
    BY <1>2, <1>3 DEF StatusOf, Latest

-----------------------------------------------------------------------------
(* Initially there are no rows.                                            *)
LEMMA InitInvariant ==
  ASSUME Init
  PROVE  IInv
  <1>1. TypeOK
    BY DEF Init, TypeOK
  <1>2. QED
    BY <1>1 DEF Init, IInv, LatestExists, LatestIsLast, OneIdentity, ReviewsAdmitted,
       PlacedWasReviewed, PlacedRecorded, OneRecordPerIntent, EventsOf

(* Saving a packet disturbs no row that exists.                            *)
LEMMA PacketStep ==
  ASSUME IInv, NEW p \in Packet, NEW i \in Intent, NEW created \in Time,
         NEW expires \in Time, SavePacket(p, i, created, expires)
  PROVE  IInv'
  <1>1. /\ DOMAIN packets' = DOMAIN packets \cup {p}
        /\ \A q \in DOMAIN packets : packets'[q] = packets[q]
        /\ records' = records /\ events' = events
    BY DEF SavePacket
  <1>2. packets'[p] = [intent |-> i, created |-> created, expires |-> expires]
        /\ created < expires
    BY DEF SavePacket, Consistent
  <1>3. TypeOK'
    BY <1>1, <1>2 DEF IInv, TypeOK, PacketRow
  <1>4. LatestExists' /\ LatestIsLast' /\ OneIdentity'
    BY <1>1 DEF IInv, LatestExists, LatestIsLast, OneIdentity, IsLatest, EventsOf
  <1>5. ReviewsAdmitted'
    BY <1>1 DEF IInv, ReviewsAdmitted
  <1>6. PlacedWasReviewed'
    BY <1>1 DEF IInv, PlacedWasReviewed, EventsOf
  <1>7. PlacedRecorded' /\ OneRecordPerIntent'
    BY <1>1 DEF IInv, PlacedRecorded, OneRecordPerIntent
  <1>8. QED
    BY <1>3, <1>4, <1>5, <1>6, <1>7 DEF IInv

(* A saved record names an intent of its own, reviewed just before.        *)
LEMMA RecordStep ==
  ASSUME IInv, NEW r \in Record, NEW i \in Intent, NEW p \in Packet,
         NEW submitted \in Time, NEW order \in BrokerOrder,
         SaveRecord(r, i, p, submitted, order)
  PROVE  IInv'
  <1>1. /\ DOMAIN records' = DOMAIN records \cup {r} /\ r \notin DOMAIN records
        /\ \A q \in DOMAIN records : records'[q] = records[q]
        /\ records'[r] = [intent |-> i, packet |-> p, submitted |-> submitted,
                          order |-> order]
        /\ packets' = packets /\ events' = events
    BY DEF SaveRecord
  <1>2. TypeOK'
    BY <1>1 DEF IInv, TypeOK, RecordRow
  <1>3. LatestExists' /\ LatestIsLast' /\ OneIdentity' /\ ReviewsAdmitted'
    BY <1>1 DEF IInv, LatestExists, LatestIsLast, OneIdentity, IsLatest, EventsOf,
       ReviewsAdmitted
  <1>4. OneRecordPerIntent'
    BY <1>1 DEF IInv, OneRecordPerIntent, SaveRecord, Unused
  <1>5. PlacedRecorded'
    BY <1>1 DEF IInv, PlacedRecorded
  <1>6. PICK k \in EventsOf(r) :
          /\ events[k].packet = p /\ events[k].status = "REVIEWED"
          /\ events[k].at <= submitted /\ submitted - events[k].at <= SubmitWindow
    BY DEF SaveRecord, ReviewedJustBefore
  <1>7. /\ p \in DOMAIN packets /\ packets[p].intent = i
        /\ events[k].intent = i /\ events[k].at < packets[p].expires
    BY <1>6 DEF SaveRecord, IInv, ReviewsAdmitted, EventsOf
  <1>8. submitted - events[k].at \in 0..SubmitWindow
    <2>1. events[k] \in EventRow
      BY <1>6 DEF IInv, TypeOK, EventsOf
    <2>2. events[k].at \in Nat /\ submitted \in Nat
      BY <2>1, ConstantsAssumption DEF EventRow, Time
    <2>3. QED
      BY <1>6, <2>2, ConstantsAssumption
  <1>9. PlacedWasReviewed'
    <2> SUFFICES ASSUME NEW q \in DOMAIN records'
                 PROVE  LET b == records'[q].packet IN
                   /\ b \in DOMAIN packets /\ packets[b].intent = records'[q].intent
                   /\ \E j \in EventsOf(q) :
                        /\ events[j].status = "REVIEWED"
                        /\ events[j].packet = b
                        /\ events[j].intent = records'[q].intent
                        /\ events[j].at < packets[b].expires
                        /\ records'[q].submitted - events[j].at \in 0..SubmitWindow
      BY <1>1 DEF PlacedWasReviewed, EventsOf
    <2>1. CASE q = r
      BY <2>1, <1>1, <1>6, <1>7, <1>8
    <2>2. CASE q \in DOMAIN records
      BY <2>2, <1>1 DEF IInv, PlacedWasReviewed
    <2>3. QED
      BY <1>1, <2>1, <2>2
  <1>10. QED
    BY <1>2, <1>3, <1>4, <1>5, <1>9 DEF IInv

(* An appended event becomes the latest of its lifecycle, and the other    *)
(* lifecycles keep theirs.                                                 *)
LEMMA AppendKeeps ==
  ASSUME IInv, NEW e \in EventRow, AppendEvent(e), NEW n \in Nat, n = Len(events) + 1
  PROVE  /\ IsLatest(n, e.record)'
         /\ \A r \in Record \ {e.record} :
              /\ EventsOf(r)' = EventsOf(r)
              /\ \A i \in DOMAIN events : IsLatest(i, r)' <=> IsLatest(i, r)
  <1>1. events \in Seq(EventRow) /\ events' = Append(events, e)
    BY DEF IInv, TypeOK, AppendEvent
  <1>2. /\ DOMAIN events' = DOMAIN events \cup {n} /\ n \notin DOMAIN events
        /\ events'[n] = e /\ n \in Nat
        /\ \A i \in DOMAIN events : events'[i] = events[i] /\ i \in Nat /\ i < n
    BY <1>1, Appended
  <1>3. EventsOf(e.record)' = EventsOf(e.record) \cup {n}
    BY <1>2 DEF EventsOf
  <1>4. \A i \in EventsOf(e.record) : events[i].at <= e.at /\ events[i].at \in Nat
    <2>1. SameLifecycle(e)
      BY DEF AppendEvent
    <2>2. \A i \in EventsOf(e.record) : events[i] \in EventRow
      BY <1>1 DEF EventsOf
    <2>3. QED
      BY <2>1, <2>2, AcceptedEvent, ConstantsAssumption DEF EventRow, Time
  <1>5. e.at \in Nat
    BY ConstantsAssumption DEF EventRow, Time
  <1>6. IsLatest(n, e.record)'
    <2> SUFFICES ASSUME NEW j \in EventsOf(e.record)'
                 PROVE  \/ events'[j].at < events'[n].at
                        \/ events'[j].at = events'[n].at /\ j <= n
      BY <1>3 DEF IsLatest
    <2>1. CASE j = n
      BY <2>1, <1>2
    <2>2. CASE j \in EventsOf(e.record)
      BY <2>2, <1>2, <1>4, <1>5 DEF EventsOf
    <2>3. QED
      BY <1>3, <2>1, <2>2
  <1>7. ASSUME NEW r \in Record \ {e.record}
        PROVE  /\ EventsOf(r)' = EventsOf(r)
               /\ \A i \in DOMAIN events : IsLatest(i, r)' <=> IsLatest(i, r)
    <2>1. EventsOf(r)' = EventsOf(r)
      BY <1>2 DEF EventsOf
    <2>2. \A i \in DOMAIN events : IsLatest(i, r)' <=> IsLatest(i, r)
      BY <2>1, <1>2 DEF IsLatest, EventsOf
    <2>3. QED
      BY <2>1, <2>2
  <1>8. QED
    BY <1>6, <1>7

(* An accepted event keeps every part of the invariant.                    *)
LEMMA EventStep ==
  ASSUME IInv, NEW e \in EventRow, AppendEvent(e)
  PROVE  IInv'
  <1> DEFINE n == Len(events) + 1
  <1>1. events \in Seq(EventRow) /\ events' = Append(events, e)
        /\ packets' = packets /\ records' = records /\ SameLifecycle(e)
    BY DEF IInv, TypeOK, AppendEvent
  <1>2. /\ DOMAIN events' = DOMAIN events \cup {n} /\ n \notin DOMAIN events
        /\ events'[n] = e /\ n \in Nat
        /\ \A i \in DOMAIN events : events'[i] = events[i] /\ i \in Nat /\ i < n
        /\ events' \in Seq(EventRow)
    BY <1>1, Appended
  <1> HIDE DEF n
  <1>3. TypeOK'
    BY <1>1, <1>2 DEF IInv, TypeOK
  <1>4. LatestExists'
    <2> SUFFICES ASSUME NEW r \in Record, EventsOf(r)' # {}
                 PROVE  \E i \in DOMAIN events' : IsLatest(i, r)'
      BY DEF LatestExists
    <2>1. CASE r = e.record
      BY <2>1, <1>2, AppendKeeps DEF n
    <2>2. CASE r # e.record
      <3>1. EventsOf(r) # {} /\ \A i \in DOMAIN events : IsLatest(i, r)' <=> IsLatest(i, r)
        BY <2>2, <1>2, AppendKeeps DEF n
      <3>2. PICK i \in DOMAIN events : IsLatest(i, r)
        BY <3>1 DEF IInv, LatestExists
      <3>3. QED
        BY <3>1, <3>2, <1>2
    <2>3. QED
      BY <2>1, <2>2
  <1>5. \A i \in DOMAIN events : events[i].record = e.record =>
          /\ events[i].at <= e.at
          /\ events[i].intent = e.intent /\ events[i].packet = e.packet
    BY <1>1, AcceptedEvent DEF EventsOf
  <1>6. e.at \in Nat /\ e.at <= e.at
    BY ConstantsAssumption DEF EventRow, Time
  <1>7. LatestIsLast'
    <2> SUFFICES ASSUME NEW i \in DOMAIN events', NEW j \in DOMAIN events',
                        events'[i].record = events'[j].record, i <= j
                 PROVE  events'[i].at <= events'[j].at
      BY DEF LatestIsLast
    <2>1. CASE i \in DOMAIN events /\ j \in DOMAIN events
      BY <2>1, <1>2 DEF IInv, LatestIsLast
    <2>2. CASE i \in DOMAIN events /\ j = n
      BY <2>2, <1>2, <1>5
    <2>3. CASE i = n
      BY <2>3, <1>2, <1>6
    <2>4. QED
      BY <1>2, <2>1, <2>2, <2>3
  <1>8. OneIdentity'
    <2> SUFFICES ASSUME NEW i \in DOMAIN events', NEW j \in DOMAIN events',
                        events'[i].record = events'[j].record
                 PROVE  /\ events'[i].intent = events'[j].intent
                        /\ events'[i].packet = events'[j].packet
      BY DEF OneIdentity
    <2>1. CASE i \in DOMAIN events /\ j \in DOMAIN events
      BY <2>1, <1>2 DEF IInv, OneIdentity
    <2>2. CASE i = n \/ j = n
      BY <2>2, <1>2, <1>5
    <2>3. QED
      BY <1>2, <2>1, <2>2
  <1>9. ReviewsAdmitted'
    <2>1. e.status = "REVIEWED" => PacketAllows(e)
      BY DEF AppendEvent, NeedsPacket
    <2>2. QED
      BY <2>1, <1>1, <1>2 DEF IInv, ReviewsAdmitted, PacketAllows
  <1>10. PlacedWasReviewed'
    <2>1. \A r \in Record : \A k \in EventsOf(r) : k \in EventsOf(r)' /\ events'[k] = events[k]
      BY <1>2 DEF EventsOf
    <2>2. DOMAIN records \subseteq Record
      BY DEF IInv, TypeOK
    <2> SUFFICES ASSUME NEW r \in DOMAIN records
                 PROVE  LET p == records[r].packet IN
                   /\ p \in DOMAIN packets /\ packets[p].intent = records[r].intent
                   /\ \E k \in EventsOf(r)' :
                        /\ events'[k].status = "REVIEWED"
                        /\ events'[k].packet = p
                        /\ events'[k].intent = records[r].intent
                        /\ events'[k].at < packets[p].expires
                        /\ records[r].submitted - events'[k].at \in 0..SubmitWindow
      BY <1>1 DEF PlacedWasReviewed
    <2>3. QED
      BY <2>1, <2>2 DEF IInv, PlacedWasReviewed
  <1>11. PlacedRecorded'
    <2>1. e.status \in {"SUBMITTED"} \cup Filled => RecordAllows(e)
      BY DEF AppendEvent, NeedsRecord
    <2>2. QED
      BY <2>1, <1>1, <1>2 DEF IInv, PlacedRecorded, RecordAllows
  <1>12. OneRecordPerIntent'
    BY <1>1 DEF IInv, OneRecordPerIntent
  <1>13. QED
    BY <1>3, <1>4, <1>7, <1>8, <1>9, <1>10, <1>11, <1>12 DEF IInv

(* Every step of the ledger keeps the invariant.                           *)
LEMMA NextInvariant ==
  ASSUME IInv, [Next]_vars
  PROVE  IInv'
  <1>1. CASE \E p \in Packet, i \in Intent, created, expires \in Time :
               SavePacket(p, i, created, expires)
    BY <1>1, PacketStep
  <1>2. CASE \E r \in Record, i \in Intent, p \in Packet, submitted \in Time,
                order \in BrokerOrder : SaveRecord(r, i, p, submitted, order)
    BY <1>2, RecordStep
  <1>3. CASE \E e \in EventRow : AppendEvent(e)
    BY <1>3, EventStep
  <1>4. CASE UNCHANGED vars
    BY <1>4 DEF vars, IInv, TypeOK, LatestExists, LatestIsLast, OneIdentity,
       ReviewsAdmitted, PlacedWasReviewed, PlacedRecorded, OneRecordPerIntent,
       IsLatest, EventsOf
  <1>5. QED
    BY <1>1, <1>2, <1>3, <1>4 DEF Next

(* The inductive invariant of the ledger holds in every reachable state.   *)
THEOREM Invariant == Spec => []IInv
  <1>1. Init => IInv
    BY InitInvariant
  <1>2. IInv /\ [Next]_vars => IInv'
    BY NextInvariant
  <1>3. QED
    BY <1>1, <1>2, PTL DEF Spec

(* Every reachable state of the ledger is well typed.                      *)
THEOREM TypeCorrect == Spec => []TypeOK
  <1>1. IInv => TypeOK
    BY DEF IInv
  <1>2. QED
    BY <1>1, Invariant, PTL

(* The latest status by time is the last one written.                      *)
THEOREM TimesFollowRows == Spec => []LatestIsLast
  <1>1. IInv => LatestIsLast
    BY DEF IInv
  <1>2. QED
    BY <1>1, Invariant, PTL

(* A lifecycle serves one intent and one packet.                           *)
THEOREM IdentityKept == Spec => []OneIdentity
  <1>1. IInv => OneIdentity
    BY DEF IInv
  <1>2. QED
    BY <1>1, Invariant, PTL

(* An order recorded as placed had been reviewed in time.                  *)
THEOREM ReviewPrecedesPlacement == Spec => []PlacedWasReviewed
  <1>1. IInv => PlacedWasReviewed
    BY DEF IInv
  <1>2. QED
    BY <1>1, Invariant, PTL

(* Of the lifecycles of an intent, one at most was ever submitted.         *)
THEOREM SubmittedOnce == Spec => []OneSubmissionPerIntent
  <1>1. IInv => OneSubmissionPerIntent
    BY DEF IInv, OneSubmissionPerIntent, PlacedRecorded, OneRecordPerIntent
  <1>2. QED
    BY <1>1, Invariant, PTL

(* Nothing is added to a lifecycle that was filled, canceled or failed.    *)
THEOREM ClosedIsFinal == Spec => ClosedStaysClosed
  <1>1. IInv /\ [Next]_vars => [ClosedKept]_vars
    <2> SUFFICES ASSUME IInv, [Next]_vars, NEW r \in Record, StatusOf(r) \in Closed
                 PROVE  EventsOf(r)' = EventsOf(r)
      BY DEF ClosedKept
    <2>1. CASE events' = events
      BY <2>1 DEF EventsOf
    <2>2. ASSUME NEW e \in EventRow, AppendEvent(e)
          PROVE  EventsOf(r)' = EventsOf(r)
      <3>1. Legal(StatusOf(r)) = {}
        BY DEF Legal, Closed
      <3>2. e.record # r
        BY <2>2, <3>1 DEF AppendEvent
      <3>3. Len(events) + 1 \in Nat
        BY DEF IInv, TypeOK
      <3>4. QED
        BY <2>2, <3>2, <3>3, AppendKeeps
    <2>3. QED
      BY <2>1, <2>2 DEF Next, SavePacket, SaveRecord, vars
  <1>2. QED
    BY <1>1, Invariant, PTL DEF Spec, ClosedStaysClosed

-----------------------------------------------------------------------------
(* An appended event sets the status of its own lifecycle alone.           *)
LEMMA StatusAfter ==
  ASSUME IInv, NEW e \in EventRow, AppendEvent(e)
  PROVE  /\ StatusOf(e.record)' = e.status
         /\ \A r \in Record \ {e.record} : StatusOf(r)' = StatusOf(r)
  <1>1. ASSUME NEW r \in Record, NEW i \in DOMAIN events', IsLatest(i, r)'
        PROVE  StatusOf(r)' = events'[i].status
    <2>1. ASSUME NEW j \in DOMAIN events', IsLatest(j, r)'
          PROVE  j = i
      <3>1. events'[i] \in EventRow /\ events'[j] \in EventRow /\ i \in Nat /\ j \in Nat
        BY EventStep DEF IInv, TypeOK
      <3>2. events'[i].at \in Nat /\ events'[j].at \in Nat
        BY <3>1, ConstantsAssumption DEF EventRow, Time
      <3>3. QED
        BY <1>1, <2>1, <3>1, <3>2 DEF IsLatest
    <2>2. (CHOOSE j \in DOMAIN events' : IsLatest(j, r)') = i
      BY <1>1, <2>1
    <2>3. QED
      BY <1>1, <2>2 DEF StatusOf, Latest, IsLatest
  <1>2. events \in Seq(EventRow) /\ events' = Append(events, e) /\ e.record \in Record
    BY DEF IInv, TypeOK, AppendEvent, EventRow
  <1>3. PICK n \in Nat : n = Len(events) + 1
    BY <1>2
  <1>4. /\ n \in DOMAIN events' /\ events'[n] = e
        /\ \A i \in DOMAIN events : i \in DOMAIN events' /\ events'[i] = events[i]
    BY <1>2, <1>3, Appended
  <1>5. StatusOf(e.record)' = e.status
    BY <1>1, <1>2, <1>3, <1>4, AppendKeeps
  <1>6. ASSUME NEW r \in Record \ {e.record}
        PROVE  StatusOf(r)' = StatusOf(r)
    <2>1. /\ EventsOf(r)' = EventsOf(r)
          /\ \A i \in DOMAIN events : IsLatest(i, r)' <=> IsLatest(i, r)
      BY <1>3, AppendKeeps
    <2>2. CASE EventsOf(r) = {}
      BY <2>1, <2>2 DEF StatusOf
    <2>3. CASE EventsOf(r) # {}
      <3>1. PICK i \in DOMAIN events : IsLatest(i, r)
        BY <2>3 DEF IInv, LatestExists
      <3>2. StatusOf(r) = events[i].status
        BY <3>1, LatestUnique DEF IInv
      <3>3. QED
        BY <1>1, <1>4, <2>1, <3>1, <3>2
    <2>4. QED
      BY <2>2, <2>3
  <1>7. QED
    BY <1>5, <1>6

(* Saving a packet does not show in the promise.                           *)
LEMMA PacketStutters ==
  ASSUME NEW p \in Packet, NEW i \in Intent, NEW created \in Time,
         NEW expires \in Time, SavePacket(p, i, created, expires)
  PROVE  UNCHANGED Fate!vars
  BY DEF SavePacket, Fate!vars, FateOf, StatusOf, Latest, EventsOf, IsLatest

(* Saving a record places the order of its intent.                         *)
LEMMA RecordPlaces ==
  ASSUME IInv, NEW r \in Record, NEW i \in Intent, NEW p \in Packet,
         NEW submitted \in Time, NEW order \in BrokerOrder,
         SaveRecord(r, i, p, submitted, order)
  PROVE  Fate!Place(i, r)
  <1>1. /\ DOMAIN records' = DOMAIN records \cup {r} /\ r \notin DOMAIN records
        /\ \A q \in DOMAIN records : records'[q] = records[q]
        /\ records'[r].intent = i /\ events' = events
        /\ \A q \in DOMAIN records : records[q].intent # i
    BY DEF SaveRecord, Unused
  <1>2. FateOf(r) # "unseen"
    <2>1. PICK k \in EventsOf(r) : TRUE
      BY DEF SaveRecord, ReviewedJustBefore
    <2>2. PICK j \in DOMAIN events : Latest(r) = events[j]
      BY <2>1, LatestFacts DEF IInv
    <2>3. StatusOf(r) \in Status
      <3>1. events[j] \in EventRow
        BY DEF IInv, TypeOK
      <3>2. StatusOf(r) = events[j].status
        BY <2>1, <2>2 DEF StatusOf
      <3>3. QED
        BY <3>1, <3>2 DEF EventRow
    <2>4. QED
      BY <2>3 DEF FateOf, Status, Filled, Closed
  <1>3. \A x \in {<<records[q].intent, q>> : q \in DOMAIN records} :
          x[1] # i /\ x[2] # r
    BY <1>1
  <1>4. {<<records[q].intent, q>> : q \in DOMAIN records}'
          = {<<records[q].intent, q>> : q \in DOMAIN records} \cup {<<i, r>>}
    BY <1>1
  <1>5. [q \in Record |-> FateOf(q)]' = [q \in Record |-> FateOf(q)]
    BY <1>1 DEF FateOf, StatusOf, Latest, EventsOf, IsLatest
  <1>6. QED
    BY <1>2, <1>3, <1>4, <1>5 DEF Fate!Place

(* An event moves its lifecycle forward, or tells of one more partial      *)
(* fill.                                                                   *)
LEMMA EventMoves ==
  ASSUME IInv, NEW e \in EventRow, AppendEvent(e)
  PROVE  Fate!Next \/ UNCHANGED Fate!vars
  <1>1. PICK r \in Record : r = e.record
    BY DEF EventRow
  <1> DEFINE was == [q \in Record |-> FateOf(q)]
             now == [q \in Record |-> FateOf(q)']
             on  == {<<records[q].intent, q>> : q \in DOMAIN records}
  <1>2. was' = now /\ on' = on
    BY DEF AppendEvent
  <1>3. /\ StatusOf(r)' = e.status
        /\ \A q \in Record \ {r} : FateOf(q)' = FateOf(q)
    BY <1>1, StatusAfter DEF FateOf
  <1>4. e.status \in Legal(StatusOf(r))
    BY <1>1 DEF AppendEvent
  <1>5. now = [was EXCEPT ![r] = FateOf(r)']
    BY <1>3
  <1>6. CASE StatusOf(r) = "NONE" /\ e.status = "REVIEWED"
    BY <1>2, <1>3, <1>5, <1>6 DEF FateOf, Fate!Next, Fate!Review
  <1>7. CASE StatusOf(r) = "REVIEWED" /\ e.status = "SUBMITTED"
    <2>1. r \in DOMAIN records
      BY <1>1, <1>7 DEF AppendEvent, NeedsRecord, RecordAllows
    <2>2. <<records[r].intent, r>> \in on /\ <<records[r].intent, r>>[2] = r
      BY <2>1
    <2>3. QED
      BY <1>2, <1>3, <1>5, <1>7, <2>2 DEF FateOf, Fate!Next, Fate!Work
  <1>8. CASE StatusOf(r) \in {"SUBMITTED", "PARTIALLY_FILLED"}
               /\ e.status = "PARTIALLY_FILLED"
    BY <1>2, <1>3, <1>5, <1>8 DEF FateOf, Fate!vars
  <1>9. CASE StatusOf(r) \notin Closed /\ e.status \in Closed
    <2>1. FateOf(r) # "ended" /\ FateOf(r)' = "ended"
      BY <1>3, <1>4, <1>9 DEF FateOf, Closed, Legal
    <2>2. QED
      BY <1>2, <1>5, <2>1 DEF Fate!Next, Fate!End
  <1>10. QED
    BY <1>4, <1>6, <1>7, <1>8, <1>9 DEF Legal, Closed

(* The ledger keeps the promise of OrderFate: an intent is placed under    *)
(* one lifecycle at most, and a lifecycle only moves forward.              *)
THEOREM Refinement == Spec => FateSpec
  <1>1. Init => Fate!Init
    BY DEF Init, Fate!Init, FateOf, StatusOf, EventsOf
  <1>2. IInv /\ [Next]_vars => [Fate!Next]_(Fate!vars)
    <2> SUFFICES ASSUME IInv, [Next]_vars
                 PROVE  Fate!Next \/ UNCHANGED Fate!vars
      OBVIOUS
    <2>1. CASE \E p \in Packet, i \in Intent, created, expires \in Time :
                 SavePacket(p, i, created, expires)
      BY <2>1, PacketStutters
    <2>2. CASE \E r \in Record, i \in Intent, p \in Packet, submitted \in Time,
                  order \in BrokerOrder : SaveRecord(r, i, p, submitted, order)
      BY <2>2, RecordPlaces DEF Fate!Next
    <2>3. CASE \E e \in EventRow : AppendEvent(e)
      BY <2>3, EventMoves
    <2>4. CASE UNCHANGED vars
      BY <2>4 DEF vars, Fate!vars, FateOf, StatusOf, Latest, EventsOf, IsLatest
    <2>5. QED
      BY <2>1, <2>2, <2>3, <2>4 DEF Next
  <1>3. QED
    BY <1>1, <1>2, Invariant, PTL DEF Spec, FateSpec, Fate!Spec
=============================================================================
