-------------------------- MODULE Publication_proofs --------------------------
(* Theorems about the public store, for any decisions, any number of       *)
(* events and any interleaving of publishers, revocations and readers.     *)
EXTENDS Publication, FiniteSetTheorems, SequenceTheorems, WellFoundedInduction, TLAPS

-----------------------------------------------------------------------------
(* What a later source has in common with an earlier one: what none of its *)
(* counters says has changed since.                                        *)

SameDecision(s, t, d) ==
  /\ t.decided[d] = s.decided[d] /\ t.events[d] = s.events[d]
  /\ d \in t.attempted <=> d \in s.attempted
  /\ d \in t.recorded <=> d \in s.recorded
  /\ d \in t.filled <=> d \in s.filled
  /\ t.evidence = s.evidence /\ t.snapshot = s.snapshot

(* What an attempt has weighed is no change of its item while it runs. *)
SameItem(s, t, i) ==
  CASE i[1] = "runtime" ->
         /\ i[2] \in t.wrapped <=> i[2] \in s.wrapped
         /\ t.attempt[i[2]] = s.attempt[i[2]] /\ t.beats[i[2]] = s.beats[i[2]]
         /\ t.weighed[i[2]] = s.weighed[i[2]] \/ s.attempt[i[2]] = "running"
    [] i[1] = "legacy" ->
         /\ i[2] \in t.prepared <=> i[2] \in s.prepared
         /\ i[2] \in t.completed <=> i[2] \in s.completed
    [] OTHER -> t.occurrence[i[2]] = s.occurrence[i[2]]

SameBook(s, t) ==
  /\ t.filled = s.filled /\ t.snapshot = s.snapshot /\ t.prices = s.prices
  /\ t.reviews = s.reviews /\ t.evidence = s.evidence

RuntimeOf(i) == <<"runtime", i[2]>>

(* The facts only grow. *)
Grows(s, t) ==
  /\ s.prepared \subseteq t.prepared /\ s.wrapped \subseteq t.wrapped
  /\ \A d \in Decision : s.decided[d] # Nil => t.decided[d] = s.decided[d]

CountersGrow(s, t) ==
  /\ \A x \in Section : s.count[x] <= t.count[x]
  /\ \A d \in Decision : s.changed[d] <= t.changed[d]
  /\ s.rebuilt <= t.rebuilt
  /\ \A i \in Item : s.dirty[i] <= t.dirty[i]

DecisionsSince(s, t) ==
  \A d \in Decision :
    t.changed[d] <= s.count.details /\ t.rebuilt <= s.count.details => SameDecision(s, t, d)

ItemsSince(s, t) ==
  \A i \in Item : t.dirty[i] <= s.count.activity => SameItem(s, t, i)

RestSince(s, t) ==
  /\ t.count.performance = s.count.performance => SameBook(s, t)
  /\ t.count.activity = s.count.activity => t.schedule = s.schedule

Since(s, t) ==
  /\ Grows(s, t) /\ CountersGrow(s, t)
  /\ DecisionsSince(s, t) /\ ItemsSince(s, t) /\ RestSince(s, t)

LEMMA ItemParts ==
  ASSUME NEW i \in Item
  PROVE  /\ i = <<i[1], i[2]>>
         /\ \/ i[1] \in {"runtime", "legacy"} /\ i[2] \in Run
            \/ i[1] = "occurrence" /\ i[2] \in Occurrence
         /\ i[1] = "legacy" => RuntimeOf(i) \in Item
         /\ i[1] = "runtime" => LegacyOf(i) \in Item
  BY DEF Item, RuntimeOf, LegacyOf

LEMMA SectionNames ==
  "details" \in Section /\ "performance" \in Section /\ "activity" \in Section
  BY DEF Section

LEMMA SameItemReflexive ==
  ASSUME NEW s, NEW i
  PROVE  SameItem(s, s, i)
  BY DEF SameItem

LEMMA SameItemTransitive ==
  ASSUME NEW s, NEW t, NEW u, NEW i, SameItem(s, t, i), SameItem(t, u, i)
  PROVE  SameItem(s, u, i)
  BY DEF SameItem

LEMMA SinceReflexive ==
  ASSUME NEW s \in Source
  PROVE  Since(s, s)
  <1>1. Grows(s, s)
    BY DEF Grows
  <1>2. CountersGrow(s, s)
    BY DEF CountersGrow, Source
  <1>3. DecisionsSince(s, s) /\ RestSince(s, s)
    BY DEF DecisionsSince, RestSince, SameDecision, SameBook
  <1>4. ItemsSince(s, s)
    BY SameItemReflexive DEF ItemsSince
  <1>5. QED
    BY <1>1, <1>2, <1>3, <1>4 DEF Since

LEMMA CountersTyped ==
  ASSUME NEW s \in Source
  PROVE  /\ \A x \in Section : s.count[x] \in Nat
         /\ s.count.details \in Nat /\ s.count.performance \in Nat /\ s.count.activity \in Nat
         /\ \A d \in Decision : s.changed[d] \in Nat
         /\ s.rebuilt \in Nat
         /\ \A i \in Item : s.dirty[i] \in Nat
  BY SectionNames DEF Source

LEMMA SinceTransitive ==
  ASSUME NEW s \in Source, NEW t \in Source, NEW u \in Source, Since(s, t), Since(t, u)
  PROVE  Since(s, u)
  <1>1. Grows(s, u)
    BY DEF Since, Grows
  <1>2. /\ \A x \in Section : s.count[x] <= t.count[x] /\ t.count[x] <= u.count[x]
        /\ \A d \in Decision : s.changed[d] <= t.changed[d] /\ t.changed[d] <= u.changed[d]
        /\ s.rebuilt <= t.rebuilt /\ t.rebuilt <= u.rebuilt
        /\ \A i \in Item : s.dirty[i] <= t.dirty[i] /\ t.dirty[i] <= u.dirty[i]
    BY DEF Since, CountersGrow
  <1>3. CountersGrow(s, u)
    BY <1>2, CountersTyped DEF CountersGrow
  <1>4. /\ s.count.details <= t.count.details /\ t.count.details <= u.count.details
        /\ s.count.performance <= t.count.performance
        /\ t.count.performance <= u.count.performance
        /\ s.count.activity <= t.count.activity /\ t.count.activity <= u.count.activity
    BY <1>2, SectionNames
  <1>5. DecisionsSince(s, u)
    <2> SUFFICES ASSUME NEW d \in Decision,
                        u.changed[d] <= s.count.details, u.rebuilt <= s.count.details
                 PROVE  SameDecision(s, u, d)
      BY DEF DecisionsSince
    <2>1. /\ t.changed[d] <= s.count.details /\ t.rebuilt <= s.count.details
          /\ u.changed[d] <= t.count.details /\ u.rebuilt <= t.count.details
      BY <1>2, <1>4, CountersTyped
    <2>2. SameDecision(s, t, d) /\ SameDecision(t, u, d)
      BY <2>1 DEF Since, DecisionsSince
    <2>3. QED
      BY <2>2 DEF SameDecision
  <1>6. ItemsSince(s, u)
    <2> SUFFICES ASSUME NEW i \in Item, u.dirty[i] <= s.count.activity
                 PROVE  SameItem(s, u, i)
      BY DEF ItemsSince
    <2>1. t.dirty[i] <= s.count.activity /\ u.dirty[i] <= t.count.activity
      BY <1>2, <1>4, CountersTyped
    <2>2. SameItem(s, t, i) /\ SameItem(t, u, i)
      BY <2>1 DEF Since, ItemsSince
    <2>3. QED
      BY <2>2, SameItemTransitive
  <1>7. RestSince(s, u)
    <2>1. /\ u.count.performance = s.count.performance =>
               /\ t.count.performance = s.count.performance
               /\ u.count.performance = t.count.performance
          /\ u.count.activity = s.count.activity =>
               /\ t.count.activity = s.count.activity
               /\ u.count.activity = t.count.activity
      BY <1>4, CountersTyped
    <2>2. QED
      BY <2>1 DEF Since, RestSince, SameBook
  <1>8. QED
    BY <1>1, <1>3, <1>5, <1>6, <1>7 DEF Since

-----------------------------------------------------------------------------
(* The triggers.                                                           *)

TouchedBy(rows) == UNION {Sections[row[1]] : row \in rows}

DecisionsOf(s, rows) ==
  UNION {SelectedBy(s, row) : row \in {q \in rows : "details" \in Sections[q[1]]}}

ItemsOf(rows) ==
  {<<Identities[row[1]], row[2]>> : row \in {q \in rows : q[1] \in DOMAIN Identities}}

RebuiltBy(rows) == \E row \in rows : Rebuilds(row)

SameFacts(s, t) ==
  /\ t.decided = s.decided /\ t.attempted = s.attempted /\ t.recorded = s.recorded
  /\ t.sessions = s.sessions /\ t.notes = s.notes
  /\ t.events = s.events /\ t.filled = s.filled /\ t.evidence = s.evidence
  /\ t.snapshot = s.snapshot /\ t.prices = s.prices /\ t.reviews = s.reviews
  /\ t.prepared = s.prepared /\ t.wrapped = s.wrapped /\ t.completed = s.completed
  /\ t.attempt = s.attempt /\ t.beats = s.beats /\ t.weighed = s.weighed
  /\ t.occurrence = s.occurrence /\ t.schedule = s.schedule

SameCounters(s, t) ==
  t.count = s.count /\ t.changed = s.changed /\ t.rebuilt = s.rebuilt /\ t.dirty = s.dirty

CountersAfter(s, t, rows) ==
  /\ \A x \in Section : t.count[x] = IF x \in TouchedBy(rows) THEN s.count[x] + 1 ELSE s.count[x]
  /\ \A d \in Decision :
       t.changed[d] = IF d \in DecisionsOf(s, rows) THEN t.count.details ELSE s.changed[d]
  /\ t.rebuilt = IF RebuiltBy(rows) THEN t.count.details ELSE s.rebuilt
  /\ \A i \in Item : t.dirty[i] = IF i \in ItemsOf(rows) THEN t.count.activity ELSE s.dirty[i]

LEMMA TransactionIs ==
  ASSUME NEW s \in Source, NEW rows
  PROVE  /\ Transaction(s, rows) \in Source
         /\ SameFacts(s, Transaction(s, rows))
         /\ CountersAfter(s, Transaction(s, rows), rows)
  <1> DEFINE t == Transaction(s, rows)
             count == [x \in Section |-> IF x \in TouchedBy(rows) THEN s.count[x] + 1
                                         ELSE s.count[x]]
             changed == [d \in Decision |-> IF d \in DecisionsOf(s, rows) THEN count.details
                                            ELSE s.changed[d]]
             rebuilt == IF RebuiltBy(rows) THEN count.details ELSE s.rebuilt
             dirty == [i \in Item |-> IF i \in ItemsOf(rows) THEN count.activity
                                      ELSE s.dirty[i]]
  <1>1. t = [s EXCEPT !.count = count, !.changed = changed, !.rebuilt = rebuilt, !.dirty = dirty]
    BY DEF Transaction, TouchedBy, DecisionsOf, ItemsOf, RebuiltBy
  <1>2. count \in [Section -> Nat] /\ count.details \in Nat /\ count.activity \in Nat
    BY CountersTyped, SectionNames
  <1>3. changed \in [Decision -> Nat] /\ rebuilt \in Nat /\ dirty \in [Item -> Nat]
    BY <1>2, CountersTyped
  <1> HIDE DEF t, count, changed, rebuilt, dirty
  <1>4. t \in Source
    BY <1>1, <1>2, <1>3 DEF Source
  <1>5. SameFacts(s, t)
    BY <1>1 DEF Source, SameFacts
  <1>6. t.count = count /\ t.changed = changed /\ t.rebuilt = rebuilt /\ t.dirty = dirty
    BY <1>1 DEF Source
  <1>7. CountersAfter(s, t, rows)
    BY <1>6 DEF CountersAfter, count, changed, rebuilt, dirty
  <1>8. QED
    BY <1>4, <1>5, <1>7 DEF t

(* A transaction whose rows name all that it changes.                      *)
LEMMA StepSince ==
  ASSUME NEW s, SourceOK(s), NEW f \in Source, SameCounters(s, f), OfItsRun(f), Grows(s, f),
         NEW rows,
         \A d \in Decision : SameDecision(s, f, d) \/ d \in DecisionsOf(f, rows) \/ RebuiltBy(rows),
         \A i \in Item : SameItem(s, f, i) \/ i \in ItemsOf(rows),
         SameBook(s, f) \/ "performance" \in TouchedBy(rows),
         f.schedule = s.schedule \/ "activity" \in TouchedBy(rows)
  PROVE  SourceOK(Transaction(f, rows)) /\ Since(s, Transaction(f, rows))
  <1> DEFINE t == Transaction(f, rows)
  <1>0. t \in Source /\ SameFacts(f, t) /\ CountersAfter(f, t, rows)
    BY TransactionIs
  <1> HIDE DEF t
  <1>1. s \in Source
    BY DEF SourceOK
  <1>2. \A x \in Section : t.count[x] = IF x \in TouchedBy(rows) THEN s.count[x] + 1 ELSE s.count[x]
    BY <1>0 DEF CountersAfter, SameCounters
  <1>3. /\ t.count.details = IF "details" \in TouchedBy(rows) THEN s.count.details + 1 ELSE s.count.details
        /\ t.count.performance = IF "performance" \in TouchedBy(rows) THEN s.count.performance + 1 ELSE s.count.performance
        /\ t.count.activity = IF "activity" \in TouchedBy(rows) THEN s.count.activity + 1 ELSE s.count.activity
    BY <1>2, SectionNames
  <1>4. /\ \A d \in Decision : t.changed[d] = IF d \in DecisionsOf(f, rows) THEN t.count.details ELSE s.changed[d]
        /\ t.rebuilt = IF RebuiltBy(rows) THEN t.count.details ELSE s.rebuilt
        /\ \A i \in Item : t.dirty[i] = IF i \in ItemsOf(rows) THEN t.count.activity ELSE s.dirty[i]
    BY <1>0 DEF CountersAfter, SameCounters
  <1>5. \A d \in Decision : d \in DecisionsOf(f, rows) => "details" \in TouchedBy(rows)
    BY DEF DecisionsOf, TouchedBy
  <1>6. RebuiltBy(rows) => "details" \in TouchedBy(rows)
    BY DEF RebuiltBy, Rebuilds, TouchedBy
  <1>7. \A i \in Item : i \in ItemsOf(rows) => "activity" \in TouchedBy(rows)
    BY DEF ItemsOf, TouchedBy, Identities, Sections
  <1>8. CountersGrow(s, t)
    BY <1>1, <1>2, <1>3, <1>4, CountersTyped DEF CountersGrow, SourceOK, Counted
  <1>9. Counted(t)
    BY <1>1, <1>3, <1>4, CountersTyped DEF SourceOK, Counted
  <1>10. OfItsRun(t)
    BY <1>0 DEF OfItsRun, SameFacts
  <1>11. Grows(s, t)
    BY <1>0 DEF Grows, SameFacts
  <1>12. DecisionsSince(s, t)
    <2> SUFFICES ASSUME NEW d \in Decision,
                        t.changed[d] <= s.count.details, t.rebuilt <= s.count.details
                 PROVE  SameDecision(s, t, d)
      BY DEF DecisionsSince
    <2>1. d \notin DecisionsOf(f, rows) /\ ~RebuiltBy(rows)
      BY <1>1, <1>3, <1>4, <1>5, <1>6, CountersTyped
    <2>2. SameDecision(s, f, d)
      BY <2>1
    <2>3. QED
      BY <2>2, <1>0 DEF SameDecision, SameFacts
  <1>13. ItemsSince(s, t)
    <2> SUFFICES ASSUME NEW i \in Item, t.dirty[i] <= s.count.activity
                 PROVE  SameItem(s, t, i)
      BY DEF ItemsSince
    <2>1. i \notin ItemsOf(rows)
      BY <1>1, <1>3, <1>4, <1>7, CountersTyped
    <2>2. SameItem(s, f, i)
      BY <2>1
    <2>3. QED
      BY <2>2, <1>0 DEF SameItem, SameFacts
  <1>14. RestSince(s, t)
    <2>1. t.count.performance = s.count.performance => "performance" \notin TouchedBy(rows)
      BY <1>1, <1>3, CountersTyped
    <2>2. t.count.activity = s.count.activity => "activity" \notin TouchedBy(rows)
      BY <1>1, <1>3, CountersTyped
    <2>3. QED
      BY <2>1, <2>2, <1>0 DEF RestSince, SameBook, SameFacts
  <1>15. QED
    BY <1>0, <1>8, <1>9, <1>10, <1>11, <1>12, <1>13, <1>14 DEF SourceOK, Since, t

(* What the rows of a transaction name.                                    *)
LEMMA RowsName ==
  ASSUME NEW s, NEW rows, NEW table \in DOMAIN Sections, NEW k, <<table, k>> \in rows
  PROVE  /\ table \in OfDecision => k \in DecisionsOf(s, rows)
         /\ table \in DOMAIN Identities => <<Identities[table], k>> \in ItemsOf(rows)
         /\ Sections[table] \subseteq TouchedBy(rows)
         /\ Rebuilds(<<table, k>>) => RebuiltBy(rows)
  <1> DEFINE row == <<table, k>>
  <1>0. row \in rows /\ row[1] = table /\ row[2] = k
    OBVIOUS
  <1> HIDE DEF row
  <1>1. table \in OfDecision => k \in DecisionsOf(s, rows)
    <2> SUFFICES ASSUME table \in OfDecision PROVE k \in DecisionsOf(s, rows)
      OBVIOUS
    <2>1. "details" \in Sections[table]
      BY DEF OfDecision, Sections
    <2>2. SelectedBy(s, row) = {k}
      BY <1>0 DEF SelectedBy
    <2>3. QED
      BY <1>0, <2>1, <2>2 DEF DecisionsOf
  <1>2. table \in DOMAIN Identities => <<Identities[table], k>> \in ItemsOf(rows)
    BY <1>0 DEF ItemsOf
  <1>3. Sections[table] \subseteq TouchedBy(rows)
    BY <1>0 DEF TouchedBy
  <1>4. Rebuilds(<<table, k>>) => RebuiltBy(rows)
    BY <1>0 DEF RebuiltBy, row
  <1>5. QED
    BY <1>1, <1>2, <1>3, <1>4

LEMMA DecideSince ==
  ASSUME NEW s, SourceOK(s), NEW d \in Decision, NEW today \in Nat, CanDecide(s, d)
  PROVE  SourceOK(Decide(s, d, today)) /\ Since(s, Decide(s, d, today))
  <1> DEFINE f == [s EXCEPT !.decided[d] = today,
                            !.attempted = IF Kind[d].run \in s.wrapped THEN @ \cup {d} ELSE @]
             rows == {<<"decision_records", d>>, <<"status_events", d>>, <<"policy_evaluations", d>>}
                       \cup (IF Kind[d].order THEN {<<"order_intents", d>>} ELSE {})
                       \cup (IF Live(d) THEN {<<"reasoning_run_decisions", d>>} ELSE {})
  <1>0. s \in Source /\ Decide(s, d, today) = Transaction(f, rows)
    BY DEF SourceOK, Decide
  <1>1. /\ f.decided = [s.decided EXCEPT ![d] = today]
        /\ f.attempted = IF Kind[d].run \in s.wrapped THEN s.attempted \cup {d} ELSE s.attempted
        /\ f.prepared = s.prepared /\ f.wrapped = s.wrapped /\ f.completed = s.completed
        /\ f.recorded = s.recorded /\ f.events = s.events /\ f.filled = s.filled
        /\ f.evidence = s.evidence /\ f.snapshot = s.snapshot /\ f.prices = s.prices
        /\ f.reviews = s.reviews /\ f.attempt = s.attempt /\ f.beats = s.beats
        /\ f.weighed = s.weighed /\ f.occurrence = s.occurrence /\ f.schedule = s.schedule
        /\ SameCounters(s, f)
    BY <1>0 DEF Source, SameCounters
  <1>2. f \in Source
    BY <1>0 DEF Source
  <1>3. <<"decision_records", d>> \in rows /\ "decision_records" \in DOMAIN Sections
        /\ "decision_records" \in OfDecision
    BY DEF Sections, OfDecision
  <1> HIDE DEF f, rows
  <1>4. /\ \A e \in Decision : f.decided[e] = IF e = d THEN today ELSE s.decided[e]
        /\ s.decided[d] = Nil /\ Live(d) => Kind[d].run \in s.prepared
    BY <1>0, <1>1 DEF Source, CanDecide
  <1>5. OfItsRun(f)
    BY <1>1, <1>4 DEF SourceOK, OfItsRun
  <1>6. Grows(s, f)
    BY <1>1, <1>4 DEF Grows, CanDecide
  <1>7. d \in DecisionsOf(f, rows)
    BY <1>3, RowsName
  <1>8. \A e \in Decision : SameDecision(s, f, e) \/ e \in DecisionsOf(f, rows)
    BY <1>1, <1>4, <1>7 DEF SameDecision
  <1>9. \A i \in Item : SameItem(s, f, i)
    BY <1>1 DEF SameItem
  <1>10. SameBook(s, f)
    BY <1>1 DEF SameBook
  <1>11. QED
    BY <1>0, <1>1, <1>2, <1>5, <1>6, <1>8, <1>9, <1>10, StepSince

LEMMA RecordSince ==
  ASSUME NEW s, SourceOK(s), NEW d \in Decision, CanRecord(s, d)
  PROVE  SourceOK(Record(s, d)) /\ Since(s, Record(s, d))
  <1> DEFINE f == [s EXCEPT !.recorded = @ \cup {d}]
             rows == {<<"live_execution_packets", d>>, <<"broker_execution_records", d>>}
  <1>0. s \in Source /\ Record(s, d) = Transaction(f, rows)
    BY DEF SourceOK, Record
  <1>1. /\ f.recorded = s.recorded \cup {d}
        /\ f.decided = s.decided /\ f.attempted = s.attempted /\ f.events = s.events
        /\ f.filled = s.filled /\ f.evidence = s.evidence /\ f.snapshot = s.snapshot
        /\ f.prices = s.prices /\ f.reviews = s.reviews /\ f.prepared = s.prepared
        /\ f.wrapped = s.wrapped /\ f.completed = s.completed
        /\ f.attempt = s.attempt /\ f.beats = s.beats /\ f.weighed = s.weighed
        /\ f.occurrence = s.occurrence /\ f.schedule = s.schedule
        /\ SameCounters(s, f)
    BY <1>0 DEF Source, SameCounters
  <1>2. f \in Source
    <2>1. f.recorded \in SUBSET Decision
      BY <1>0, <1>1 DEF Source
    <2>2. QED
      BY <1>0, <2>1 DEF Source
  <1>3. /\ <<"broker_execution_records", d>> \in rows /\ "broker_execution_records" \in DOMAIN Sections
    BY DEF Sections
  <1> HIDE DEF f, rows
  <1>5. OfItsRun(f) /\ Grows(s, f)
    BY <1>0, <1>1 DEF SourceOK, OfItsRun, Grows, Source
  <1>6. \A e \in Decision : SameDecision(s, f, e) \/ e \in DecisionsOf(f, rows)
    BY <1>0, <1>1, <1>3, RowsName DEF SameDecision, OfDecision, Source
  <1>7. \A i \in Item : SameItem(s, f, i)
    BY <1>1 DEF SameItem
  <1>8. SameBook(s, f)
    BY <1>1 DEF SameBook
  <1>10. QED
    BY <1>0, <1>1, <1>2, <1>5, <1>6, <1>7, <1>8, StepSince

(* The models of sessions and digests change without a counter.            *)
LEMMA StartSessionSince ==
  ASSUME NEW s, SourceOK(s), NEW d \in Decision
  PROVE  SourceOK(StartSession(s, d)) /\ Since(s, StartSession(s, d))
  <1> DEFINE f == [s EXCEPT !.sessions[d] = @ + 1]
             rows == {<<"execution_sessions", d>>}
  <1>0. s \in Source /\ StartSession(s, d) = Transaction(f, rows)
    BY DEF SourceOK, StartSession
  <1>1. /\ f.sessions = [s.sessions EXCEPT ![d] = @ + 1]
        /\ f.decided = s.decided /\ f.attempted = s.attempted
        /\ f.recorded = s.recorded /\ f.events = s.events /\ f.filled = s.filled
        /\ f.evidence = s.evidence /\ f.snapshot = s.snapshot /\ f.prices = s.prices
        /\ f.reviews = s.reviews /\ f.prepared = s.prepared
        /\ f.wrapped = s.wrapped /\ f.completed = s.completed
        /\ f.attempt = s.attempt /\ f.beats = s.beats /\ f.weighed = s.weighed
        /\ f.occurrence = s.occurrence /\ f.schedule = s.schedule
        /\ SameCounters(s, f)
    BY <1>0 DEF Source, SameCounters
  <1>2. f \in Source
    <2>1. f.sessions \in [Decision -> Nat]
      BY <1>0, <1>1 DEF Source
    <2>2. QED
      BY <1>0, <2>1 DEF Source
  <1> HIDE DEF f, rows
  <1>3. OfItsRun(f) /\ Grows(s, f)
    BY <1>0, <1>1 DEF SourceOK, OfItsRun, Grows, Source
  <1>4. \A e \in Decision : SameDecision(s, f, e)
    BY <1>1 DEF SameDecision
  <1>5. \A i \in Item : SameItem(s, f, i)
    BY <1>1 DEF SameItem
  <1>6. SameBook(s, f)
    BY <1>1 DEF SameBook
  <1>7. QED
    BY <1>0, <1>1, <1>2, <1>3, <1>4, <1>5, <1>6, StepSince

LEMMA StampSince ==
  ASSUME NEW s, SourceOK(s)
  PROVE  SourceOK(Stamp(s)) /\ Since(s, Stamp(s))
  <1> DEFINE f == [s EXCEPT !.notes = @ + 1]
             rows == {<<"x_digest_notes", Nil>>}
  <1>0. s \in Source /\ Stamp(s) = Transaction(f, rows)
    BY DEF SourceOK, Stamp
  <1>1. /\ f.notes = s.notes + 1
        /\ f.decided = s.decided /\ f.attempted = s.attempted
        /\ f.recorded = s.recorded /\ f.events = s.events /\ f.filled = s.filled
        /\ f.evidence = s.evidence /\ f.snapshot = s.snapshot /\ f.prices = s.prices
        /\ f.reviews = s.reviews /\ f.prepared = s.prepared
        /\ f.wrapped = s.wrapped /\ f.completed = s.completed
        /\ f.attempt = s.attempt /\ f.beats = s.beats /\ f.weighed = s.weighed
        /\ f.occurrence = s.occurrence /\ f.schedule = s.schedule
        /\ SameCounters(s, f)
    BY <1>0 DEF Source, SameCounters
  <1>2. f \in Source
    <2>1. f.notes \in Nat
      BY <1>0, <1>1 DEF Source
    <2>2. QED
      BY <1>0, <2>1 DEF Source
  <1> HIDE DEF f, rows
  <1>3. OfItsRun(f) /\ Grows(s, f)
    BY <1>0, <1>1 DEF SourceOK, OfItsRun, Grows, Source
  <1>4. \A e \in Decision : SameDecision(s, f, e)
    BY <1>1 DEF SameDecision
  <1>5. \A i \in Item : SameItem(s, f, i)
    BY <1>1 DEF SameItem
  <1>6. SameBook(s, f)
    BY <1>1 DEF SameBook
  <1>7. QED
    BY <1>0, <1>1, <1>2, <1>3, <1>4, <1>5, <1>6, StepSince

LEMMA FillSince ==
  ASSUME NEW s, SourceOK(s), NEW d \in Decision, CanFill(s, d)
  PROVE  SourceOK(Fill(s, d)) /\ Since(s, Fill(s, d))
  <1> DEFINE f == [s EXCEPT !.filled = @ \cup {d}]
             rows == {<<"paper_fills", d>>, <<"paper_positions", Nil>>}
  <1>0. s \in Source /\ Fill(s, d) = Transaction(f, rows)
    BY DEF SourceOK, Fill
  <1>1. /\ f.filled = s.filled \cup {d}
        /\ f.decided = s.decided /\ f.attempted = s.attempted
        /\ f.recorded = s.recorded /\ f.events = s.events /\ f.evidence = s.evidence
        /\ f.snapshot = s.snapshot /\ f.prices = s.prices /\ f.reviews = s.reviews
        /\ f.prepared = s.prepared /\ f.wrapped = s.wrapped
        /\ f.completed = s.completed /\ f.attempt = s.attempt /\ f.beats = s.beats
        /\ f.weighed = s.weighed /\ f.occurrence = s.occurrence
        /\ f.schedule = s.schedule /\ SameCounters(s, f)
    BY <1>0 DEF Source, SameCounters
  <1>2. f \in Source
    <2>1. f.filled \in SUBSET Decision
      BY <1>0, <1>1 DEF Source
    <2>2. QED
      BY <1>0, <2>1 DEF Source
  <1>3. /\ <<"paper_fills", d>> \in rows /\ "paper_fills" \in DOMAIN Sections
    BY DEF Sections
  <1> HIDE DEF f, rows
  <1>5. OfItsRun(f) /\ Grows(s, f)
    BY <1>0, <1>1 DEF SourceOK, OfItsRun, Grows, Source
  <1>6. \A e \in Decision : SameDecision(s, f, e) \/ e \in DecisionsOf(f, rows)
    BY <1>0, <1>1, <1>3, RowsName DEF SameDecision, OfDecision, Source
  <1>7. \A i \in Item : SameItem(s, f, i)
    BY <1>1 DEF SameItem
  <1>8. "performance" \in TouchedBy(rows)
    BY <1>3, RowsName DEF Sections
  <1>10. QED
    BY <1>0, <1>1, <1>2, <1>5, <1>6, <1>7, <1>8, StepSince

LEMMA ReviseSince ==
  ASSUME NEW s, SourceOK(s), NEW x \in Ref
  PROVE  SourceOK(Revise(s, x)) /\ Since(s, Revise(s, x))
  <1> DEFINE f == [s EXCEPT !.evidence[x] = IF @ = "approved" THEN "retracted" ELSE "approved"]
             rows == {<<"public_source_records", Nil>>}
  <1>0. s \in Source /\ Revise(s, x) = Transaction(f, rows)
    BY DEF SourceOK, Revise
  <1>1. /\ f.evidence = [s.evidence EXCEPT ![x] = IF @ = "approved" THEN "retracted" ELSE "approved"]
        /\ f.decided = s.decided /\ f.attempted = s.attempted
        /\ f.recorded = s.recorded /\ f.events = s.events /\ f.filled = s.filled
        /\ f.snapshot = s.snapshot /\ f.prices = s.prices /\ f.reviews = s.reviews
        /\ f.prepared = s.prepared /\ f.wrapped = s.wrapped
        /\ f.completed = s.completed /\ f.attempt = s.attempt /\ f.beats = s.beats
        /\ f.weighed = s.weighed /\ f.occurrence = s.occurrence
        /\ f.schedule = s.schedule /\ SameCounters(s, f)
    BY <1>0 DEF Source, SameCounters
  <1>2. f \in Source
    <2>1. f.evidence \in [Ref -> {"none", "approved", "retracted"}]
      BY <1>0, <1>1 DEF Source
    <2>2. QED
      BY <1>0, <2>1 DEF Source
  <1>3. /\ <<"public_source_records", Nil>> \in rows /\ "public_source_records" \in DOMAIN Sections
    BY DEF Sections
  <1> HIDE DEF f, rows
  <1>5. OfItsRun(f) /\ Grows(s, f)
    BY <1>0, <1>1 DEF SourceOK, OfItsRun, Grows, Source
  <1>6. RebuiltBy(rows)
    BY <1>3, RowsName DEF Rebuilds, Sections, OfDecision
  <1>7. \A i \in Item : SameItem(s, f, i)
    BY <1>1 DEF SameItem
  <1>8. "performance" \in TouchedBy(rows)
    BY <1>3, RowsName DEF Sections
  <1>10. QED
    BY <1>0, <1>1, <1>2, <1>5, <1>6, <1>7, <1>8, StepSince

LEMMA ObserveSince ==
  ASSUME NEW s, SourceOK(s)
  PROVE  SourceOK(Observe(s)) /\ Since(s, Observe(s))
  <1> DEFINE f == [s EXCEPT !.snapshot = @ + 1]
             rows == {<<"live_portfolio_snapshots", Nil>>, <<"reporting_observations", Nil>>}
  <1>0. s \in Source /\ Observe(s) = Transaction(f, rows)
    BY DEF SourceOK, Observe
  <1>1. /\ f.snapshot = s.snapshot + 1
        /\ f.decided = s.decided /\ f.attempted = s.attempted
        /\ f.recorded = s.recorded /\ f.events = s.events /\ f.filled = s.filled
        /\ f.evidence = s.evidence /\ f.prices = s.prices /\ f.reviews = s.reviews
        /\ f.prepared = s.prepared /\ f.wrapped = s.wrapped
        /\ f.completed = s.completed /\ f.attempt = s.attempt /\ f.beats = s.beats
        /\ f.weighed = s.weighed /\ f.occurrence = s.occurrence
        /\ f.schedule = s.schedule /\ SameCounters(s, f)
    BY <1>0 DEF Source, SameCounters
  <1>2. f \in Source
    <2>1. f.snapshot \in Nat
      BY <1>0, <1>1 DEF Source
    <2>2. QED
      BY <1>0, <2>1 DEF Source
  <1>3. /\ <<"live_portfolio_snapshots", Nil>> \in rows /\ "live_portfolio_snapshots" \in DOMAIN Sections
    BY DEF Sections
  <1> HIDE DEF f, rows
  <1>5. OfItsRun(f) /\ Grows(s, f)
    BY <1>0, <1>1 DEF SourceOK, OfItsRun, Grows, Source
  <1>6. RebuiltBy(rows)
    BY <1>3, RowsName DEF Rebuilds, Sections, OfDecision
  <1>7. \A i \in Item : SameItem(s, f, i)
    BY <1>1 DEF SameItem
  <1>8. "performance" \in TouchedBy(rows)
    BY <1>3, RowsName DEF Sections
  <1>10. QED
    BY <1>0, <1>1, <1>2, <1>5, <1>6, <1>7, <1>8, StepSince

LEMMA PriceSince ==
  ASSUME NEW s, SourceOK(s)
  PROVE  SourceOK(Price(s)) /\ Since(s, Price(s))
  <1> DEFINE f == [s EXCEPT !.prices = @ + 1]
             rows == {<<"daily_prices", Nil>>}
  <1>0. s \in Source /\ Price(s) = Transaction(f, rows)
    BY DEF SourceOK, Price
  <1>1. /\ f.prices = s.prices + 1
        /\ f.decided = s.decided /\ f.attempted = s.attempted
        /\ f.recorded = s.recorded /\ f.events = s.events /\ f.filled = s.filled
        /\ f.evidence = s.evidence /\ f.snapshot = s.snapshot
        /\ f.reviews = s.reviews /\ f.prepared = s.prepared /\ f.wrapped = s.wrapped
        /\ f.completed = s.completed /\ f.attempt = s.attempt /\ f.beats = s.beats
        /\ f.weighed = s.weighed /\ f.occurrence = s.occurrence
        /\ f.schedule = s.schedule /\ SameCounters(s, f)
    BY <1>0 DEF Source, SameCounters
  <1>2. f \in Source
    <2>1. f.prices \in Nat
      BY <1>0, <1>1 DEF Source
    <2>2. QED
      BY <1>0, <2>1 DEF Source
  <1>3. /\ <<"daily_prices", Nil>> \in rows /\ "daily_prices" \in DOMAIN Sections
    BY DEF Sections
  <1> HIDE DEF f, rows
  <1>5. OfItsRun(f) /\ Grows(s, f)
    BY <1>0, <1>1 DEF SourceOK, OfItsRun, Grows, Source
  <1>6. \A e \in Decision : SameDecision(s, f, e)
    BY <1>1 DEF SameDecision
  <1>7. \A i \in Item : SameItem(s, f, i)
    BY <1>1 DEF SameItem
  <1>8. "performance" \in TouchedBy(rows)
    BY <1>3, RowsName DEF Sections
  <1>10. QED
    BY <1>0, <1>1, <1>2, <1>5, <1>6, <1>7, <1>8, StepSince

LEMMA SaveThesisSince ==
  ASSUME NEW s, SourceOK(s)
  PROVE  SourceOK(SaveThesis(s)) /\ Since(s, SaveThesis(s))
  <1> DEFINE f == [s EXCEPT !.reviews = @ + 1]
             rows == {<<"thesis_reviews", Nil>>}
  <1>0. s \in Source /\ SaveThesis(s) = Transaction(f, rows)
    BY DEF SourceOK, SaveThesis
  <1>1. /\ f.reviews = s.reviews + 1
        /\ f.decided = s.decided /\ f.attempted = s.attempted
        /\ f.recorded = s.recorded /\ f.events = s.events /\ f.filled = s.filled
        /\ f.evidence = s.evidence /\ f.snapshot = s.snapshot /\ f.prices = s.prices
        /\ f.prepared = s.prepared /\ f.wrapped = s.wrapped
        /\ f.completed = s.completed /\ f.attempt = s.attempt /\ f.beats = s.beats
        /\ f.weighed = s.weighed /\ f.occurrence = s.occurrence
        /\ f.schedule = s.schedule /\ SameCounters(s, f)
    BY <1>0 DEF Source, SameCounters
  <1>2. f \in Source
    <2>1. f.reviews \in Nat
      BY <1>0, <1>1 DEF Source
    <2>2. QED
      BY <1>0, <2>1 DEF Source
  <1>3. /\ <<"thesis_reviews", Nil>> \in rows /\ "thesis_reviews" \in DOMAIN Sections
    BY DEF Sections
  <1> HIDE DEF f, rows
  <1>5. OfItsRun(f) /\ Grows(s, f)
    BY <1>0, <1>1 DEF SourceOK, OfItsRun, Grows, Source
  <1>6. \A e \in Decision : SameDecision(s, f, e)
    BY <1>1 DEF SameDecision
  <1>7. \A i \in Item : SameItem(s, f, i)
    BY <1>1 DEF SameItem
  <1>8. "performance" \in TouchedBy(rows)
    BY <1>3, RowsName DEF Sections
  <1>10. QED
    BY <1>0, <1>1, <1>2, <1>5, <1>6, <1>7, <1>8, StepSince

LEMMA PrepareSince ==
  ASSUME NEW s, SourceOK(s), NEW r \in Run
  PROVE  SourceOK(Prepare(s, r)) /\ Since(s, Prepare(s, r))
  <1> DEFINE f == [s EXCEPT !.prepared = @ \cup {r}]
             rows == {<<"reasoning_runs", r>>}
  <1>0. s \in Source /\ Prepare(s, r) = Transaction(f, rows)
    BY DEF SourceOK, Prepare
  <1>1. /\ f.prepared = s.prepared \cup {r}
        /\ f.decided = s.decided /\ f.attempted = s.attempted
        /\ f.recorded = s.recorded /\ f.events = s.events /\ f.filled = s.filled
        /\ f.evidence = s.evidence /\ f.snapshot = s.snapshot /\ f.prices = s.prices
        /\ f.reviews = s.reviews /\ f.wrapped = s.wrapped
        /\ f.completed = s.completed /\ f.attempt = s.attempt /\ f.beats = s.beats
        /\ f.weighed = s.weighed /\ f.occurrence = s.occurrence
        /\ f.schedule = s.schedule /\ SameCounters(s, f)
    BY <1>0 DEF Source, SameCounters
  <1>2. f \in Source
    <2>1. f.prepared \in SUBSET Run
      BY <1>0, <1>1 DEF Source
    <2>2. QED
      BY <1>0, <2>1 DEF Source
  <1>3. /\ <<"reasoning_runs", r>> \in rows /\ "reasoning_runs" \in DOMAIN Sections
    BY DEF Sections
  <1> HIDE DEF f, rows
  <1>5. OfItsRun(f) /\ Grows(s, f)
    BY <1>0, <1>1 DEF SourceOK, OfItsRun, Grows, Source
  <1>6. \A e \in Decision : SameDecision(s, f, e)
    BY <1>1 DEF SameDecision
  <1>7. \A i \in Item : SameItem(s, f, i) \/ i \in ItemsOf(rows)
    <2>1. <<"legacy", r>> \in ItemsOf(rows)
      BY <1>3, RowsName DEF Identities
    <2> SUFFICES ASSUME NEW i \in Item, i \notin ItemsOf(rows)
                 PROVE  SameItem(s, f, i)
      OBVIOUS
    <2>2. (i[1] = "legacy" => i[2] # r)
      BY <2>1, ItemParts
    <2>4. QED
      BY <1>1, <2>2, ItemParts DEF SameItem
  <1>8. SameBook(s, f)
    BY <1>1 DEF SameBook
  <1>10. QED
    BY <1>0, <1>1, <1>2, <1>5, <1>6, <1>7, <1>8, StepSince

LEMMA WrapSince ==
  ASSUME NEW s, SourceOK(s), NEW r \in Run, CanWrap(s, r)
  PROVE  SourceOK(Wrap(s, r)) /\ Since(s, Wrap(s, r))
  <1> DEFINE f == [s EXCEPT !.wrapped = @ \cup {r}]
             rows == {<<"runtime_runs", r>>}
  <1>0. s \in Source /\ Wrap(s, r) = Transaction(f, rows)
    BY DEF SourceOK, Wrap
  <1>1. /\ f.wrapped = s.wrapped \cup {r}
        /\ f.decided = s.decided /\ f.attempted = s.attempted
        /\ f.recorded = s.recorded /\ f.events = s.events /\ f.filled = s.filled
        /\ f.evidence = s.evidence /\ f.snapshot = s.snapshot /\ f.prices = s.prices
        /\ f.reviews = s.reviews /\ f.prepared = s.prepared
        /\ f.completed = s.completed /\ f.attempt = s.attempt /\ f.beats = s.beats
        /\ f.weighed = s.weighed /\ f.occurrence = s.occurrence
        /\ f.schedule = s.schedule /\ SameCounters(s, f)
    BY <1>0 DEF Source, SameCounters
  <1>2. f \in Source
    <2>1. f.wrapped \in SUBSET Run
      BY <1>0, <1>1 DEF Source
    <2>2. QED
      BY <1>0, <2>1 DEF Source
  <1>3. /\ <<"runtime_runs", r>> \in rows /\ "runtime_runs" \in DOMAIN Sections
    BY DEF Sections
  <1> HIDE DEF f, rows
  <1>4. r \in s.prepared
    BY DEF CanWrap
  <1>5. OfItsRun(f) /\ Grows(s, f)
    BY <1>0, <1>1, <1>4 DEF SourceOK, OfItsRun, Grows, Source
  <1>6. \A e \in Decision : SameDecision(s, f, e)
    BY <1>1 DEF SameDecision
  <1>7. \A i \in Item : SameItem(s, f, i) \/ i \in ItemsOf(rows)
    <2>1. <<"runtime", r>> \in ItemsOf(rows)
      BY <1>3, RowsName DEF Identities
    <2> SUFFICES ASSUME NEW i \in Item, i \notin ItemsOf(rows)
                 PROVE  SameItem(s, f, i)
      OBVIOUS
    <2>2. (i[1] = "runtime" => i[2] # r)
      BY <2>1, ItemParts
    <2>4. QED
      BY <1>1, <2>2, ItemParts DEF SameItem
  <1>8. SameBook(s, f)
    BY <1>1 DEF SameBook
  <1>10. QED
    BY <1>0, <1>1, <1>2, <1>5, <1>6, <1>7, <1>8, StepSince

LEMMA ClaimSince ==
  ASSUME NEW s, SourceOK(s), NEW r \in Run
  PROVE  SourceOK(Claim(s, r)) /\ Since(s, Claim(s, r))
  <1> DEFINE f == [s EXCEPT !.attempt[r] = "running"]
             rows == {<<"runtime_attempts", r>>}
  <1>0. s \in Source /\ Claim(s, r) = Transaction(f, rows)
    BY DEF SourceOK, Claim
  <1>1. /\ f.attempt = [s.attempt EXCEPT ![r] = "running"]
        /\ f.decided = s.decided /\ f.attempted = s.attempted
        /\ f.recorded = s.recorded /\ f.events = s.events /\ f.filled = s.filled
        /\ f.evidence = s.evidence /\ f.snapshot = s.snapshot /\ f.prices = s.prices
        /\ f.reviews = s.reviews /\ f.prepared = s.prepared /\ f.wrapped = s.wrapped
        /\ f.completed = s.completed /\ f.beats = s.beats /\ f.weighed = s.weighed
        /\ f.occurrence = s.occurrence /\ f.schedule = s.schedule
        /\ SameCounters(s, f)
    BY <1>0 DEF Source, SameCounters
  <1>2. f \in Source
    <2>1. f.attempt \in [Run -> {"none", "running", "succeeded"}]
      BY <1>0, <1>1 DEF Source
    <2>2. QED
      BY <1>0, <2>1 DEF Source
  <1>3. /\ <<"runtime_attempts", r>> \in rows /\ "runtime_attempts" \in DOMAIN Sections
    BY DEF Sections
  <1> HIDE DEF f, rows
  <1>5. OfItsRun(f) /\ Grows(s, f)
    BY <1>0, <1>1 DEF SourceOK, OfItsRun, Grows, Source
  <1>6. \A e \in Decision : SameDecision(s, f, e)
    BY <1>1 DEF SameDecision
  <1>7. \A i \in Item : SameItem(s, f, i) \/ i \in ItemsOf(rows)
    <2>1. <<"runtime", r>> \in ItemsOf(rows)
      BY <1>3, RowsName DEF Identities
    <2> SUFFICES ASSUME NEW i \in Item, i \notin ItemsOf(rows)
                 PROVE  SameItem(s, f, i)
      OBVIOUS
    <2>2. (i[1] = "runtime" => i[2] # r)
      BY <2>1, ItemParts
    <2>3. \A q \in Run : q # r => f.attempt[q] = s.attempt[q]
      BY <1>0, <1>1 DEF Source
    <2>4. QED
      BY <1>1, <2>2, <2>3, ItemParts DEF SameItem
  <1>8. SameBook(s, f)
    BY <1>1 DEF SameBook
  <1>10. QED
    BY <1>0, <1>1, <1>2, <1>5, <1>6, <1>7, <1>8, StepSince

LEMMA BeatSince ==
  ASSUME NEW s, SourceOK(s), NEW r \in Run
  PROVE  SourceOK(Beat(s, r)) /\ Since(s, Beat(s, r))
  <1> DEFINE f == [s EXCEPT !.beats[r] = @ + 1]
             rows == {<<"runtime_attempts", r>>}
  <1>0. s \in Source /\ Beat(s, r) = Transaction(f, rows)
    BY DEF SourceOK, Beat
  <1>1. /\ f.beats = [s.beats EXCEPT ![r] = @ + 1]
        /\ f.decided = s.decided /\ f.attempted = s.attempted
        /\ f.recorded = s.recorded /\ f.events = s.events /\ f.filled = s.filled
        /\ f.evidence = s.evidence /\ f.snapshot = s.snapshot /\ f.prices = s.prices
        /\ f.reviews = s.reviews /\ f.prepared = s.prepared /\ f.wrapped = s.wrapped
        /\ f.completed = s.completed /\ f.attempt = s.attempt
        /\ f.weighed = s.weighed /\ f.occurrence = s.occurrence
        /\ f.schedule = s.schedule /\ SameCounters(s, f)
    BY <1>0 DEF Source, SameCounters
  <1>2. f \in Source
    <2>1. f.beats \in [Run -> Nat]
      BY <1>0, <1>1 DEF Source
    <2>2. QED
      BY <1>0, <2>1 DEF Source
  <1>3. /\ <<"runtime_attempts", r>> \in rows /\ "runtime_attempts" \in DOMAIN Sections
    BY DEF Sections
  <1> HIDE DEF f, rows
  <1>5. OfItsRun(f) /\ Grows(s, f)
    BY <1>0, <1>1 DEF SourceOK, OfItsRun, Grows, Source
  <1>6. \A e \in Decision : SameDecision(s, f, e)
    BY <1>1 DEF SameDecision
  <1>7. \A i \in Item : SameItem(s, f, i) \/ i \in ItemsOf(rows)
    <2>1. <<"runtime", r>> \in ItemsOf(rows)
      BY <1>3, RowsName DEF Identities
    <2> SUFFICES ASSUME NEW i \in Item, i \notin ItemsOf(rows)
                 PROVE  SameItem(s, f, i)
      OBVIOUS
    <2>2. (i[1] = "runtime" => i[2] # r)
      BY <2>1, ItemParts
    <2>3. \A q \in Run : q # r => f.beats[q] = s.beats[q]
      BY <1>0, <1>1 DEF Source
    <2>4. QED
      BY <1>1, <2>2, <2>3, ItemParts DEF SameItem
  <1>8. SameBook(s, f)
    BY <1>1 DEF SameBook
  <1>10. QED
    BY <1>0, <1>1, <1>2, <1>5, <1>6, <1>7, <1>8, StepSince

LEMMA WeighSince ==
  ASSUME NEW s, SourceOK(s), NEW r \in Run, s.attempt[r] = "running"
  PROVE  SourceOK(Weigh(s, r)) /\ Since(s, Weigh(s, r))
  <1> DEFINE f == [s EXCEPT !.weighed[r] = TRUE]
             rows == {<<"review_ledgers", r>>}
  <1>0. s \in Source /\ Weigh(s, r) = Transaction(f, rows)
    BY DEF SourceOK, Weigh
  <1>1. /\ f.weighed = [s.weighed EXCEPT ![r] = TRUE]
        /\ f.decided = s.decided /\ f.attempted = s.attempted
        /\ f.recorded = s.recorded /\ f.events = s.events /\ f.filled = s.filled
        /\ f.evidence = s.evidence /\ f.snapshot = s.snapshot /\ f.prices = s.prices
        /\ f.reviews = s.reviews /\ f.prepared = s.prepared /\ f.wrapped = s.wrapped
        /\ f.completed = s.completed /\ f.attempt = s.attempt /\ f.beats = s.beats
        /\ f.occurrence = s.occurrence /\ f.schedule = s.schedule
        /\ SameCounters(s, f)
    BY <1>0 DEF Source, SameCounters
  <1>2. f \in Source
    <2>1. f.weighed \in [Run -> BOOLEAN]
      BY <1>0, <1>1 DEF Source
    <2>2. QED
      BY <1>0, <2>1 DEF Source
  <1>3. /\ <<"review_ledgers", r>> \in rows /\ "review_ledgers" \in DOMAIN Sections
    BY DEF Sections
  <1> HIDE DEF f, rows
  <1>5. OfItsRun(f) /\ Grows(s, f)
    BY <1>0, <1>1 DEF SourceOK, OfItsRun, Grows, Source
  <1>6. \A e \in Decision : SameDecision(s, f, e)
    BY <1>1 DEF SameDecision
  <1>7. \A i \in Item : SameItem(s, f, i)
    BY <1>0, <1>1, ItemParts DEF SameItem, Source
  <1>8. SameBook(s, f)
    BY <1>1 DEF SameBook
  <1>10. QED
    BY <1>0, <1>1, <1>2, <1>5, <1>6, <1>7, <1>8, StepSince

LEMMA EndSince ==
  ASSUME NEW s, SourceOK(s), NEW r \in Run
  PROVE  SourceOK(End(s, r)) /\ Since(s, End(s, r))
  <1> DEFINE f == [s EXCEPT !.attempt[r] = "succeeded", !.completed = @ \cup {r}]
             rows == {<<"runtime_attempts", r>>, <<"reasoning_runs", r>>}
  <1>0. s \in Source /\ End(s, r) = Transaction(f, rows)
    BY DEF SourceOK, End
  <1>1. /\ f.attempt = [s.attempt EXCEPT ![r] = "succeeded"]
        /\ f.completed = s.completed \cup {r}
        /\ f.decided = s.decided /\ f.attempted = s.attempted
        /\ f.recorded = s.recorded /\ f.events = s.events /\ f.filled = s.filled
        /\ f.evidence = s.evidence /\ f.snapshot = s.snapshot /\ f.prices = s.prices
        /\ f.reviews = s.reviews /\ f.prepared = s.prepared /\ f.wrapped = s.wrapped
        /\ f.beats = s.beats /\ f.weighed = s.weighed /\ f.occurrence = s.occurrence
        /\ f.schedule = s.schedule /\ SameCounters(s, f)
    BY <1>0 DEF Source, SameCounters
  <1>2. f \in Source
    <2>1. f.attempt \in [Run -> {"none", "running", "succeeded"}] /\ f.completed \in SUBSET Run
      BY <1>0, <1>1 DEF Source
    <2>2. QED
      BY <1>0, <2>1 DEF Source
  <1>3. /\ <<"runtime_attempts", r>> \in rows /\ "runtime_attempts" \in DOMAIN Sections
        /\ <<"reasoning_runs", r>> \in rows /\ "reasoning_runs" \in DOMAIN Sections
    BY DEF Sections
  <1> HIDE DEF f, rows
  <1>5. OfItsRun(f) /\ Grows(s, f)
    BY <1>0, <1>1 DEF SourceOK, OfItsRun, Grows, Source
  <1>6. \A e \in Decision : SameDecision(s, f, e)
    BY <1>1 DEF SameDecision
  <1>7. \A i \in Item : SameItem(s, f, i) \/ i \in ItemsOf(rows)
    <2>1. <<"runtime", r>> \in ItemsOf(rows) /\ <<"legacy", r>> \in ItemsOf(rows)
      BY <1>3, RowsName DEF Identities
    <2> SUFFICES ASSUME NEW i \in Item, i \notin ItemsOf(rows)
                 PROVE  SameItem(s, f, i)
      OBVIOUS
    <2>2. (i[1] = "runtime" => i[2] # r) /\ (i[1] = "legacy" => i[2] # r)
      BY <2>1, ItemParts
    <2>3. \A q \in Run : q # r => f.attempt[q] = s.attempt[q]
      BY <1>0, <1>1 DEF Source
    <2>4. QED
      BY <1>1, <2>2, <2>3, ItemParts DEF SameItem
  <1>8. SameBook(s, f)
    BY <1>1 DEF SameBook
  <1>10. QED
    BY <1>0, <1>1, <1>2, <1>5, <1>6, <1>7, <1>8, StepSince

LEMMA CompleteSince ==
  ASSUME NEW s, SourceOK(s), NEW r \in Run
  PROVE  SourceOK(Complete(s, r)) /\ Since(s, Complete(s, r))
  <1> DEFINE f == [s EXCEPT !.completed = @ \cup {r}]
             rows == {<<"reasoning_runs", r>>}
  <1>0. s \in Source /\ Complete(s, r) = Transaction(f, rows)
    BY DEF SourceOK, Complete
  <1>1. /\ f.completed = s.completed \cup {r}
        /\ f.decided = s.decided /\ f.attempted = s.attempted
        /\ f.recorded = s.recorded /\ f.events = s.events /\ f.filled = s.filled
        /\ f.evidence = s.evidence /\ f.snapshot = s.snapshot /\ f.prices = s.prices
        /\ f.reviews = s.reviews /\ f.prepared = s.prepared /\ f.wrapped = s.wrapped
        /\ f.attempt = s.attempt /\ f.beats = s.beats /\ f.weighed = s.weighed
        /\ f.occurrence = s.occurrence /\ f.schedule = s.schedule
        /\ SameCounters(s, f)
    BY <1>0 DEF Source, SameCounters
  <1>2. f \in Source
    <2>1. f.completed \in SUBSET Run
      BY <1>0, <1>1 DEF Source
    <2>2. QED
      BY <1>0, <2>1 DEF Source
  <1>3. /\ <<"reasoning_runs", r>> \in rows /\ "reasoning_runs" \in DOMAIN Sections
    BY DEF Sections
  <1> HIDE DEF f, rows
  <1>5. OfItsRun(f) /\ Grows(s, f)
    BY <1>0, <1>1 DEF SourceOK, OfItsRun, Grows, Source
  <1>6. \A e \in Decision : SameDecision(s, f, e)
    BY <1>1 DEF SameDecision
  <1>7. \A i \in Item : SameItem(s, f, i) \/ i \in ItemsOf(rows)
    <2>1. <<"legacy", r>> \in ItemsOf(rows)
      BY <1>3, RowsName DEF Identities
    <2> SUFFICES ASSUME NEW i \in Item, i \notin ItemsOf(rows)
                 PROVE  SameItem(s, f, i)
      OBVIOUS
    <2>2. (i[1] = "legacy" => i[2] # r)
      BY <2>1, ItemParts
    <2>4. QED
      BY <1>1, <2>2, ItemParts DEF SameItem
  <1>8. SameBook(s, f)
    BY <1>1 DEF SameBook
  <1>10. QED
    BY <1>0, <1>1, <1>2, <1>5, <1>6, <1>7, <1>8, StepSince

LEMMA PollSince ==
  ASSUME NEW s, SourceOK(s), NEW o \in Occurrence
  PROVE  SourceOK(Poll(s, o)) /\ Since(s, Poll(s, o))
  <1> DEFINE f == [s EXCEPT !.occurrence[o] = "waiting", !.schedule = @ + 1]
             rows == {<<"schedule_occurrences", o>>, <<"scheduler_observations", Nil>>}
  <1>0. s \in Source /\ Poll(s, o) = Transaction(f, rows)
    BY DEF SourceOK, Poll
  <1>1. /\ f.occurrence = [s.occurrence EXCEPT ![o] = "waiting"]
        /\ f.schedule = s.schedule + 1
        /\ f.decided = s.decided /\ f.attempted = s.attempted
        /\ f.recorded = s.recorded /\ f.events = s.events /\ f.filled = s.filled
        /\ f.evidence = s.evidence /\ f.snapshot = s.snapshot /\ f.prices = s.prices
        /\ f.reviews = s.reviews /\ f.prepared = s.prepared /\ f.wrapped = s.wrapped
        /\ f.completed = s.completed /\ f.attempt = s.attempt /\ f.beats = s.beats
        /\ f.weighed = s.weighed /\ SameCounters(s, f)
    BY <1>0 DEF Source, SameCounters
  <1>2. f \in Source
    <2>1. f.occurrence \in [Occurrence -> {"none", "waiting", "skipped"}] /\ f.schedule \in Nat
      BY <1>0, <1>1 DEF Source
    <2>2. QED
      BY <1>0, <2>1 DEF Source
  <1>3. /\ <<"schedule_occurrences", o>> \in rows /\ "schedule_occurrences" \in DOMAIN Sections
    BY DEF Sections
  <1> HIDE DEF f, rows
  <1>5. OfItsRun(f) /\ Grows(s, f)
    BY <1>0, <1>1 DEF SourceOK, OfItsRun, Grows, Source
  <1>6. \A e \in Decision : SameDecision(s, f, e)
    BY <1>1 DEF SameDecision
  <1>7. \A i \in Item : SameItem(s, f, i) \/ i \in ItemsOf(rows)
    <2>1. <<"occurrence", o>> \in ItemsOf(rows)
      BY <1>3, RowsName DEF Identities
    <2> SUFFICES ASSUME NEW i \in Item, i \notin ItemsOf(rows)
                 PROVE  SameItem(s, f, i)
      OBVIOUS
    <2>2. (i[1] = "occurrence" => i[2] # o)
      BY <2>1, ItemParts
    <2>3. \A q \in Occurrence : q # o => f.occurrence[q] = s.occurrence[q]
      BY <1>0, <1>1 DEF Source
    <2>4. QED
      BY <1>1, <2>2, <2>3, ItemParts DEF SameItem
  <1>8. SameBook(s, f)
    BY <1>1 DEF SameBook
  <1>9. "activity" \in TouchedBy(rows)
    BY <1>3, RowsName DEF Sections
  <1>10. QED
    BY <1>0, <1>1, <1>2, <1>5, <1>6, <1>7, <1>8, <1>9, StepSince

LEMMA SkipSince ==
  ASSUME NEW s, SourceOK(s), NEW o \in Occurrence
  PROVE  SourceOK(Skip(s, o)) /\ Since(s, Skip(s, o))
  <1> DEFINE f == [s EXCEPT !.occurrence[o] = "skipped"]
             rows == {<<"schedule_occurrences", o>>}
  <1>0. s \in Source /\ Skip(s, o) = Transaction(f, rows)
    BY DEF SourceOK, Skip
  <1>1. /\ f.occurrence = [s.occurrence EXCEPT ![o] = "skipped"]
        /\ f.decided = s.decided /\ f.attempted = s.attempted
        /\ f.recorded = s.recorded /\ f.events = s.events /\ f.filled = s.filled
        /\ f.evidence = s.evidence /\ f.snapshot = s.snapshot /\ f.prices = s.prices
        /\ f.reviews = s.reviews /\ f.prepared = s.prepared /\ f.wrapped = s.wrapped
        /\ f.completed = s.completed /\ f.attempt = s.attempt /\ f.beats = s.beats
        /\ f.weighed = s.weighed /\ f.schedule = s.schedule /\ SameCounters(s, f)
    BY <1>0 DEF Source, SameCounters
  <1>2. f \in Source
    <2>1. f.occurrence \in [Occurrence -> {"none", "waiting", "skipped"}]
      BY <1>0, <1>1 DEF Source
    <2>2. QED
      BY <1>0, <2>1 DEF Source
  <1>3. /\ <<"schedule_occurrences", o>> \in rows /\ "schedule_occurrences" \in DOMAIN Sections
    BY DEF Sections
  <1> HIDE DEF f, rows
  <1>5. OfItsRun(f) /\ Grows(s, f)
    BY <1>0, <1>1 DEF SourceOK, OfItsRun, Grows, Source
  <1>6. \A e \in Decision : SameDecision(s, f, e)
    BY <1>1 DEF SameDecision
  <1>7. \A i \in Item : SameItem(s, f, i) \/ i \in ItemsOf(rows)
    <2>1. <<"occurrence", o>> \in ItemsOf(rows)
      BY <1>3, RowsName DEF Identities
    <2> SUFFICES ASSUME NEW i \in Item, i \notin ItemsOf(rows)
                 PROVE  SameItem(s, f, i)
      OBVIOUS
    <2>2. (i[1] = "occurrence" => i[2] # o)
      BY <2>1, ItemParts
    <2>3. \A q \in Occurrence : q # o => f.occurrence[q] = s.occurrence[q]
      BY <1>0, <1>1 DEF Source
    <2>4. QED
      BY <1>1, <2>2, <2>3, ItemParts DEF SameItem
  <1>8. SameBook(s, f)
    BY <1>1 DEF SameBook
  <1>10. QED
    BY <1>0, <1>1, <1>2, <1>5, <1>6, <1>7, <1>8, StepSince

LEMMA ReportSince ==
  ASSUME NEW s, SourceOK(s), NEW d \in Decision, NEW later \in 0..1, CanReport(s, d)
  PROVE  SourceOK(Report(s, d, later)) /\ Since(s, Report(s, d, later))
  <1> DEFINE at == IF Len(s.events[d]) = 0 THEN 1 ELSE s.events[d][Len(s.events[d])].at + later
             f == [s EXCEPT !.events[d] = Append(@, [status |-> BrokerStatus[Len(s.events[d]) + 1], at |-> at])]
             rows == {<<"broker_execution_events", d>>}
  <1>0. s \in Source /\ Report(s, d, later) = Transaction(f, rows)
    BY DEF SourceOK, Report
  <1>1. /\ f.events = [s.events EXCEPT ![d] = Append(@, [status |-> BrokerStatus[Len(s.events[d]) + 1], at |-> at])]
        /\ f.decided = s.decided /\ f.attempted = s.attempted
        /\ f.recorded = s.recorded /\ f.filled = s.filled /\ f.evidence = s.evidence
        /\ f.snapshot = s.snapshot /\ f.prices = s.prices /\ f.reviews = s.reviews
        /\ f.prepared = s.prepared /\ f.wrapped = s.wrapped
        /\ f.completed = s.completed /\ f.attempt = s.attempt /\ f.beats = s.beats
        /\ f.weighed = s.weighed /\ f.occurrence = s.occurrence
        /\ f.schedule = s.schedule /\ SameCounters(s, f)
    BY <1>0 DEF Source, SameCounters
  <1> DEFINE event == [status |-> BrokerStatus[Len(s.events[d]) + 1], at |-> at]
  <1>2. f \in Source
    <2>1. s.events[d] \in Seq([status : {"submitted", "filled"}, at : Nat]) /\ Len(s.events[d]) + 1 \in 1..2
      BY <1>0, KindAssumption DEF Source, CanReport
    <2>2. BrokerStatus[1] = "submitted" /\ BrokerStatus[2] = "filled"
      BY DEF BrokerStatus
    <2>3. at \in Nat
      <3>1. CASE Len(s.events[d]) = 0
        BY <3>1
      <3>2. CASE Len(s.events[d]) # 0
        <4>1. Len(s.events[d]) \in 1..Len(s.events[d])
          BY <2>1, <3>2
        <4>2. s.events[d][Len(s.events[d])] \in [status : {"submitted", "filled"}, at : Nat]
          BY <2>1, <4>1, ElementOfSeq
        <4>3. s.events[d][Len(s.events[d])].at \in Nat
          BY <4>2
        <4>4. QED
          BY <3>2, <4>3
      <3>3. QED
        BY <3>1, <3>2
    <2>4. event \in [status : {"submitted", "filled"}, at : Nat]
      BY <2>1, <2>2, <2>3
    <2> HIDE DEF event
    <2>5. Append(s.events[d], event) \in Seq([status : {"submitted", "filled"}, at : Nat])
      BY <2>1, <2>4
    <2>6. f.events \in [Decision -> Seq([status : {"submitted", "filled"}, at : Nat])]
      BY <1>0, <1>1, <2>5 DEF Source, event
    <2>7. QED
      BY <1>0, <2>6 DEF Source
  <1>3. /\ <<"broker_execution_events", d>> \in rows /\ "broker_execution_events" \in DOMAIN Sections
    BY DEF Sections
  <1> HIDE DEF f, rows
  <1>5. OfItsRun(f) /\ Grows(s, f)
    BY <1>0, <1>1 DEF SourceOK, OfItsRun, Grows, Source
  <1>6. \A e \in Decision : SameDecision(s, f, e) \/ e \in DecisionsOf(f, rows)
    BY <1>0, <1>1, <1>3, RowsName DEF SameDecision, OfDecision, Source
  <1>7. \A i \in Item : SameItem(s, f, i)
    BY <1>1 DEF SameItem
  <1>8. SameBook(s, f)
    BY <1>1 DEF SameBook
  <1>10. QED
    BY <1>0, <1>1, <1>2, <1>5, <1>6, <1>7, <1>8, StepSince

-----------------------------------------------------------------------------
(* Every transaction of the source grows it, and its counters tell what of *)
(* it changed.                                                             *)
Bounded == scene \in Scene /\ left \in 0..scene.left

LEMMA HappensBounded ==
  ASSUME Bounded, NEW name, Happens(name)
  PROVE  left' \in 0..scene.left
  BY SceneAssumption DEF Bounded, Happens

SourceStep ==
  /\ SourceOK(src') /\ Since(src, src')
  /\ UNCHANGED <<scene, day, config, pub, publisher, alone, reader>>

LEMMA WritesAreSteps ==
  ASSUME SourceOK(src), day \in Nat, Trade \/ Author \/ Runs \/ Schedule
  PROVE  SourceStep /\ \E name : Happens(name)
  <1>1. ASSUME NEW name, NEW t, SourceOK(t), Since(src, t), Write(name, t)
        PROVE  SourceStep /\ \E n : Happens(n)
    BY <1>1 DEF Write, SourceStep
  <1>2. src \in Source
    BY DEF SourceOK
  <1>3. CASE Trade
    <2>1. ASSUME NEW d \in Decision, CanDecide(src, d), Write("decide", Decide(src, d, day))
          PROVE  SourceStep /\ \E n : Happens(n)
      BY <1>1, <2>1, DecideSince
    <2>2. ASSUME NEW d \in Decision, CanRecord(src, d), Write("broker", Record(src, d))
          PROVE  SourceStep /\ \E n : Happens(n)
      BY <1>1, <2>2, RecordSince
    <2>3. ASSUME NEW d \in Decision, NEW later \in 0..1, CanReport(src, d),
                 Write("broker", Report(src, d, later))
          PROVE  SourceStep /\ \E n : Happens(n)
      BY <1>1, <2>3, ReportSince
    <2>4. ASSUME NEW d \in Decision, CanFill(src, d), Write("fill", Fill(src, d))
          PROVE  SourceStep /\ \E n : Happens(n)
      BY <1>1, <2>4, FillSince
    <2>5. ASSUME NEW d \in Decision, Write("session", StartSession(src, d))
          PROVE  SourceStep /\ \E n : Happens(n)
      BY <1>1, <2>5, StartSessionSince
    <2>6. QED
      BY <1>3, <2>1, <2>2, <2>3, <2>4, <2>5 DEF Trade
  <1>4. CASE Author
    <2>1. ASSUME NEW f \in Ref, Write("evidence", Revise(src, f))
          PROVE  SourceStep /\ \E n : Happens(n)
      BY <1>1, <2>1, ReviseSince
    <2>2. CASE Write("value", Observe(src))
      BY <1>1, <2>2, ObserveSince
    <2>3. CASE Write("value", Price(src))
      BY <1>1, <2>3, PriceSince
    <2>4. CASE Write("value", SaveThesis(src))
      BY <1>1, <2>4, SaveThesisSince
    <2>5. CASE Write("note", Stamp(src))
      BY <1>1, <2>5, StampSince
    <2>6. QED
      BY <1>4, <2>1, <2>2, <2>3, <2>4, <2>5 DEF Author
  <1>5. CASE Runs
    <2>0. src.wrapped \subseteq Run /\ src.prepared \subseteq Run
      BY <1>2 DEF Source
    <2>1. ASSUME NEW r \in Run, Write("run", Prepare(src, r))
          PROVE  SourceStep /\ \E n : Happens(n)
      BY <1>1, <2>1, PrepareSince
    <2>2. ASSUME NEW r \in Run, CanWrap(src, r), Write("run", Wrap(src, r))
          PROVE  SourceStep /\ \E n : Happens(n)
      BY <1>1, <2>2, WrapSince
    <2>3. ASSUME NEW r \in Run, Write("run", Claim(src, r))
          PROVE  SourceStep /\ \E n : Happens(n)
      BY <1>1, <2>3, ClaimSince
    <2>4. ASSUME NEW r \in Run, Write("run", Beat(src, r))
          PROVE  SourceStep /\ \E n : Happens(n)
      BY <1>1, <2>4, BeatSince
    <2>5. ASSUME NEW r \in Run, src.attempt[r] = "running", Write("run", Weigh(src, r))
          PROVE  SourceStep /\ \E n : Happens(n)
      BY <1>1, <2>5, WeighSince
    <2>6. ASSUME NEW r \in Run, Write("run", End(src, r))
          PROVE  SourceStep /\ \E n : Happens(n)
      BY <1>1, <2>6, EndSince
    <2>7. ASSUME NEW r \in Run, Write("run", Complete(src, r))
          PROVE  SourceStep /\ \E n : Happens(n)
      BY <1>1, <2>7, CompleteSince
    <2>8. QED
      BY <1>5, <2>0, <2>1, <2>2, <2>3, <2>4, <2>5, <2>6, <2>7 DEF Runs
  <1>6. CASE Schedule
    <2>1. ASSUME NEW o \in Occurrence, Write("schedule", Poll(src, o))
          PROVE  SourceStep /\ \E n : Happens(n)
      BY <1>1, <2>1, PollSince
    <2>2. ASSUME NEW o \in Occurrence, Write("schedule", Skip(src, o))
          PROVE  SourceStep /\ \E n : Happens(n)
      BY <1>1, <2>2, SkipSince
    <2>3. QED
      BY <1>6, <2>1, <2>2 DEF Schedule
  <1>7. QED
    BY <1>3, <1>4, <1>5, <1>6

-----------------------------------------------------------------------------
(* What is published is well formed.                                       *)

LEMMA ContentTyped ==
  ASSUME NEW s \in Source, NEW d \in Decision
  PROVE  Content(s, d) \in Contents
  <1>1. Kind[d].policy \in Outcome /\ Kind[d].cites \subseteq Ref
    BY KindAssumption
  <1>2. s.events[d] # <<>> =>
          s.events[d][Len(s.events[d])].status \in {"submitted", "filled"}
    <2> SUFFICES ASSUME s.events[d] # <<>>
                 PROVE  s.events[d][Len(s.events[d])].status \in {"submitted", "filled"}
      OBVIOUS
    <2>1. s.events[d] \in Seq([status : {"submitted", "filled"}, at : Nat])
      BY DEF Source
    <2>2. Len(s.events[d]) \in 1..Len(s.events[d])
      BY <2>1
    <2>3. s.events[d][Len(s.events[d])] \in [status : {"submitted", "filled"}, at : Nat]
      BY <2>1, <2>2, ElementOfSeq
    <2>4. QED
      BY <2>3
  <1>3. Lifecycle(s, d) \in Lifecycles
    BY <1>1, <1>2 DEF Lifecycle, Lifecycles
  <1>4. Claims(s, d) \in SUBSET Ref
    BY <1>1 DEF Claims
  <1>5. (d \in s.filled) \in BOOLEAN /\ s.snapshot \in Nat
    BY DEF Source
  <1>6. ModelProvenance(s, d) \in [execution : Nat, digests : Nat] \cup {Nil}
    BY DEF ModelProvenance, Source
  <1>7. QED
    BY <1>3, <1>4, <1>5, <1>6 DEF Content, Contents

LEMMA ActivityTyped ==
  ASSUME NEW s \in Source, NEW i \in Item, NEW c \in BOOLEAN
  PROVE  Activity(s, i, c) \in Activities \cup {Nil}
  <1>1. CASE i[1] = "runtime"
    <2>1. i[2] \in Run
      BY <1>1, ItemParts
    <2>2. /\ (IF s.attempt[i[2]] = "none" THEN "prepared" ELSE s.attempt[i[2]])
               \in {"prepared", "running", "succeeded"}
          /\ s.beats[i[2]] \in Nat /\ s.weighed[i[2]] \in BOOLEAN
      BY <2>1 DEF Source
    <2>3. QED
      BY <1>1, <2>2 DEF Activity, Activities
  <1>2. CASE i[1] = "legacy"
    BY <1>2 DEF Activity, Activities
  <1>3. CASE i[1] # "runtime" /\ i[1] # "legacy"
    BY <1>3 DEF Activity, Activities
  <1>4. QED
    BY <1>1, <1>2, <1>3

-----------------------------------------------------------------------------
(* The store keeps its columns.                                            *)
Columns == {"row", "sequence", "revision", "item", "ids", "board", "counts", "book", "checkpoint"}

Shape ==
  /\ DOMAIN pub = Columns
  /\ DOMAIN pub.row = Decision
  /\ DOMAIN pub.counts = Scope

(* Counts are those of the rows, as of the day they were taken.            *)
CountsInv == Shape /\ CountsMatchFeed

-----------------------------------------------------------------------------
(* What is counted of a scope depends on the rows of its decisions alone.  *)
LEMMA CountsDependOnScope ==
  ASSUME NEW rows, NEW other, NEW x, NEW today,
         \A d \in Decision : Kind[d].scope = x => rows[d] = other[d]
  PROVE  CountsOf(rows, x, today) = CountsOf(other, x, today)
<1> DEFINE In(t) == {d \in Decision : ShownIn(t, d) /\ Kind[d].scope = x}
<1>1. In(rows) = In(other)
  BY DEF ShownIn
<1>2. \A p : {d \in In(rows) : Kind[d].policy = p} = {d \in In(other) : Kind[d].policy = p}
  BY <1>1
<1>3. {d \in In(rows) : rows[d].created = today} = {d \in In(other) : other[d].created = today}
  BY <1>1
<1> QED
  BY <1>2, <1>3 DEF CountsOf

LEMMA CountsKeepTheirDate ==
  ASSUME NEW rows, NEW x, NEW today
  PROVE  CountsOf(rows, x, today).date = today
BY DEF CountsOf

-----------------------------------------------------------------------------
LEMMA RevokeKeepsCounts ==
  ASSUME CountsInv, NEW d \in Decision, Revoke(d)
  PROVE  CountsInv'
<1> DEFINE rows == RevokedRows(d)
           mine == Kind[d].scope
<1>1. pub' = [pub EXCEPT !.row = rows, !.counts = CountsAfterRevoke(rows, mine),
                         !.revision = @ + 1]
  BY DEF Revoke
<1>2. DOMAIN pub' = Columns /\ pub'.row = rows /\ pub'.counts = CountsAfterRevoke(rows, mine)
  BY <1>1 DEF CountsInv, Shape, Columns
<1>3. DOMAIN rows = Decision /\ \A e \in Decision : e # d => rows[e] = pub.row[e]
  BY DEF CountsInv, Shape, RevokedRows
<1>4. mine \in Scope
  BY KindAssumption
<1>5. /\ DOMAIN pub'.counts = Scope
      /\ pub'.counts[mine] = IF pub.counts[mine] = Nil THEN Nil ELSE CountsOf(rows, mine, day)
      /\ \A x \in Scope : x # mine => pub'.counts[x] = pub.counts[x]
  BY <1>2, <1>4 DEF CountsInv, Shape, CountsAfterRevoke
<1>6. ASSUME NEW x \in Scope, pub'.counts[x] # Nil
      PROVE  pub'.counts[x] = CountsOf(pub'.row, x, pub'.counts[x].date)
  <2>1. CASE x = mine
    <3>1. pub'.counts[x] = CountsOf(rows, x, day)
      BY <1>5, <1>6, <2>1
    <3> QED
      BY <1>2, <3>1, CountsKeepTheirDate
  <2>2. CASE x # mine
    <3>1. pub.counts[x] = CountsOf(pub.row, x, pub.counts[x].date)
      BY <1>5, <1>6, <2>2 DEF CountsInv, CountsMatchFeed
    <3>2. \A e \in Decision : Kind[e].scope = x => pub.row[e] = rows[e]
      BY <1>3, <2>2
    <3>3. CountsOf(pub.row, x, pub.counts[x].date) = CountsOf(rows, x, pub.counts[x].date)
      BY <3>2, CountsDependOnScope
    <3> QED
      BY <1>2, <1>5, <2>2, <3>1, <3>3
  <2> QED
    BY <2>1, <2>2
<1> QED
  BY <1>2, <1>3, <1>5, <1>6 DEF CountsInv, Shape, CountsMatchFeed

LEMMA CommitKeepsCounts ==
  ASSUME CountsInv, NEW p, Commit(p)
  PROVE  CountsInv'
<1> DEFINE s == publisher[p].s
           c == publisher[p].config
           was == publisher[p].previous
           today == publisher[p].day
           now == Checkpoint(s, c, today)
           ids == PublishedIds(s, c, was, now)
           items == PublishedItems(s, c, was, now)
           rows == PublishedRows(s, c, was, now, ids)
           details == Details(s, c, was, now, today, ids, items)
<1>0. CASE RefusedNow(publisher[p])
  BY <1>0 DEF Commit, CountsInv, Shape, CountsMatchFeed
<1> SUFFICES ASSUME ~RefusedNow(publisher[p]) PROVE CountsInv'
  BY <1>0
<1>1. pub' = Published(s, c, was, today)
  BY DEF Commit
<1>2. CASE OnlyActivity(was, now)
  <2>1. pub' = [pub EXCEPT !.ids = ids, !.item = items, !.board = Board(s, items), !.checkpoint = now]
    BY <1>1, <1>2 DEF Published
  <2>2. DOMAIN pub' = DOMAIN pub /\ pub'.row = pub.row /\ pub'.counts = pub.counts
    BY <2>1 DEF CountsInv, Shape, Columns
  <2> QED
    BY <2>2 DEF CountsInv, Shape, CountsMatchFeed
<1>3. /\ DOMAIN details = Columns /\ details.row = rows
      /\ details.counts = Recount(pub.counts, rows, today)
  BY DEF CountsInv, Shape, Columns, Details
<1>4. DOMAIN rows = Decision
  BY DEF PublishedRows
<1>5. CASE ~OnlyActivity(was, now) /\ PerformanceChanged(was, now)
  <2>1. pub' = Portfolios(details, s, c, today)
    BY <1>1, <1>5 DEF Published
  <2>2. /\ DOMAIN pub' = Columns /\ pub'.row = rows
        /\ pub'.counts = [x \in Scope |-> CountsOf(rows, x, today)]
    BY <1>3, <2>1 DEF Portfolios, Columns
  <2> QED
    BY <1>4, <2>2, CountsKeepTheirDate DEF CountsInv, Shape, CountsMatchFeed
<1>6. CASE ~OnlyActivity(was, now) /\ ~PerformanceChanged(was, now)
  <2>1. pub' = details
    BY <1>1, <1>6 DEF Published
  <2>2. pub'.row = rows /\ DOMAIN pub'.counts = Scope
      BY <1>3, <2>1 DEF Recount
  <2>3. ASSUME NEW x \in Scope, pub'.counts[x] # Nil
          PROVE  pub'.counts[x] = CountsOf(pub'.row, x, pub'.counts[x].date)
      <3>1. pub'.counts[x] = CountsOf(rows, x, today)
        BY <1>3, <2>1, <2>3 DEF Recount
      <3> QED
        BY <2>2, <3>1, CountsKeepTheirDate
  <2> QED
    BY <1>3, <1>4, <2>1, <2>2, <2>3 DEF CountsInv, Shape, CountsMatchFeed
<1> QED
  BY <1>2, <1>5, <1>6

LEMMA NextKeepsCounts ==
  ASSUME CountsInv, [Next]_vars
  PROVE  CountsInv'
<1>1. ASSUME NEW p \in scene.publishers, Commit(p)
      PROVE  CountsInv'
  BY <1>1, CommitKeepsCounts
<1>2. ASSUME NEW d \in Decision, Revoke(d)
      PROVE  CountsInv'
  BY <1>2, RevokeKeepsCounts
<1>3. ASSUME UNCHANGED pub
      PROVE  CountsInv'
  BY <1>3 DEF CountsInv, Shape, CountsMatchFeed
<1>4. ASSUME NEW p \in scene.publishers, NEW b \in BOOLEAN, Open(p) \/ Compare(p, b) \/ Die(p)
      PROVE  UNCHANGED pub
  BY <1>4 DEF Open, Compare, Die
<1>5. CASE FirstPage \/ NextPage \/ EndOfPages \/ NextDay \/ Reconfigure
  BY <1>3, <1>5 DEF FirstPage, NextPage, EndOfPages, NextDay, Reconfigure
<1>6. CASE Trade \/ Author \/ Runs \/ Schedule
  BY <1>3, <1>6 DEF Trade, Author, Runs, Schedule, Write
<1>7. CASE UNCHANGED vars
  BY <1>3, <1>7 DEF vars
<1> QED
  BY <1>1, <1>2, <1>3, <1>4, <1>5, <1>6, <1>7 DEF Next

(* The counts of an overview are those of its feed, however publications   *)
(* in part and in full, of one publisher or of several, and revocations    *)
(* follow each other: for every store, and not only three decisions.       *)
THEOREM CountsHold == FairSpec => []CountsMatchFeed
<1>1. Init => CountsInv
  BY DEF Init, EmptyStore, CountsInv, Shape, Columns, CountsMatchFeed
<1>2. CountsInv /\ [Next]_vars => CountsInv'
  BY NextKeepsCounts
<1>3. CountsInv => CountsMatchFeed
  BY DEF CountsInv
<1> QED
  BY <1>1, <1>2, <1>3, PTL DEF FairSpec, Spec

-----------------------------------------------------------------------------
(* What a publication leaves in the store.                                 *)
LEMMA CheckpointTyped ==
  ASSUME NEW s \in Source, NEW c \in BOOLEAN, NEW today \in Nat
  PROVE  Checkpoint(s, c, today) \in Checkpoints
  BY CountersTyped DEF Checkpoint, Checkpoints

PublishedAs(next, s, c, was, now, today) ==
  LET ids == PublishedIds(s, c, was, now)
      items == PublishedItems(s, c, was, now)
      rows == PublishedRows(s, c, was, now, ids)
  IN /\ DOMAIN next = Columns
     /\ next.ids = ids /\ next.item = items /\ next.board = Board(s, items)
     /\ next.checkpoint = now
     /\ IF OnlyActivity(was, now)
        THEN /\ next.row = pub.row /\ next.sequence = pub.sequence
             /\ next.revision = pub.revision
        ELSE /\ next.row = rows
             /\ next.sequence = IF Inserted(s, c, was, now) = {} THEN pub.sequence
                                ELSE pub.sequence + 1
             /\ next.revision = IF Revised(s, c, was, now, ids) THEN pub.revision + 1
                                ELSE pub.revision
     /\ next.book = IF ~OnlyActivity(was, now) /\ PerformanceChanged(was, now)
                    THEN [x \in Scope |-> Book(s, x, c, today)] ELSE pub.book

LEMMA PublishedIs ==
  ASSUME DOMAIN pub = Columns, NEW s, NEW c, NEW was, NEW today
  PROVE  PublishedAs(Published(s, c, was, today), s, c, was, Checkpoint(s, c, today), today)
  <1> DEFINE now == Checkpoint(s, c, today)
             ids == PublishedIds(s, c, was, now)
             items == PublishedItems(s, c, was, now)
             rows == PublishedRows(s, c, was, now, ids)
             details == Details(s, c, was, now, today, ids, items)
             next == Published(s, c, was, today)
  <1>1. /\ DOMAIN details = Columns /\ details.row = rows
        /\ details.ids = ids /\ details.item = items /\ details.board = Board(s, items)
        /\ details.checkpoint = now /\ details.book = pub.book
        /\ details.sequence = IF Inserted(s, c, was, now) = {} THEN pub.sequence
                              ELSE pub.sequence + 1
        /\ details.revision = IF Revised(s, c, was, now, ids) THEN pub.revision + 1
                              ELSE pub.revision
    BY DEF Columns, Details
  <1>2. next = IF OnlyActivity(was, now)
               THEN [pub EXCEPT !.ids = ids, !.item = items, !.board = Board(s, items),
                                !.checkpoint = now]
               ELSE IF PerformanceChanged(was, now) THEN Portfolios(details, s, c, today)
               ELSE details
    BY DEF Published
  <1> HIDE DEF now, ids, items, rows, details, next
  <1>3. CASE OnlyActivity(was, now)
    <2>1. /\ DOMAIN next = Columns /\ next.row = pub.row /\ next.book = pub.book
          /\ next.ids = ids /\ next.item = items /\ next.board = Board(s, items)
          /\ next.checkpoint = now /\ next.sequence = pub.sequence
          /\ next.revision = pub.revision
      BY <1>2, <1>3 DEF Columns
    <2>2. QED
      BY <1>3, <2>1 DEF PublishedAs, now, ids, items, next
  <1>4. CASE ~OnlyActivity(was, now) /\ PerformanceChanged(was, now)
    <2>1. next = Portfolios(details, s, c, today)
      BY <1>2, <1>4
    <2>2. /\ DOMAIN next = Columns /\ next.row = rows
          /\ next.ids = ids /\ next.item = items /\ next.board = Board(s, items)
          /\ next.checkpoint = now /\ next.sequence = details.sequence
          /\ next.revision = details.revision
          /\ next.book = [x \in Scope |-> Book(s, x, c, today)]
      BY <1>1, <2>1 DEF Portfolios, Columns
    <2>3. QED
      BY <1>1, <1>4, <2>2 DEF PublishedAs, now, ids, items, rows, next
  <1>5. CASE ~OnlyActivity(was, now) /\ ~PerformanceChanged(was, now)
    <2>1. next = details
      BY <1>2, <1>5
    <2>2. QED
      BY <1>1, <1>5, <2>1 DEF PublishedAs, now, ids, items, rows, next
  <1>6. QED
    BY <1>3, <1>4, <1>5

(* A row that is there stays, with the day of its decision; what is new    *)
(* comes after all that there was.                                         *)
LinksOf(ids, d) ==
  IF Live(d) THEN {Nil, ids[<<"runtime", Kind[d].run>>], ids[<<"legacy", Kind[d].run>>]} ELSE {Nil}

RowOK(row, sequence, ids, d) ==
  row \in PublicRow /\ row.sequence <= sequence /\ row.run \in LinksOf(ids, d)

RowsOK(rows, sequence, ids) ==
  \A d \in Decision : rows[d] # Nil => RowOK(rows[d], sequence, ids, d)

IdsGrow(ids, next) == \A i \in Item : ids[i] # Nil => next[i] = ids[i]

LEMMA LinksGrow ==
  ASSUME NEW ids, NEW next, IdsGrow(ids, next), NEW d \in Decision,
         NEW row, NEW sequence \in Nat, NEW later \in Nat, sequence <= later,
         RowOK(row, sequence, ids, d)
  PROVE  RowOK(row, later, next, d)
  <1>1. Live(d) => <<"runtime", Kind[d].run>> \in Item /\ <<"legacy", Kind[d].run>> \in Item
    BY KindAssumption DEF Live, Item
  <1>2. row.run \in LinksOf(next, d)
    BY <1>1 DEF RowOK, LinksOf, IdsGrow
  <1>3. row.sequence <= later
    BY DEF RowOK, PublicRow
  <1>4. QED
    BY <1>2, <1>3 DEF RowOK

LEMMA PublishedIdsGrow ==
  ASSUME pub.ids \in [Item -> Item \cup {Nil}], NEW s, NEW c, NEW was, NEW now
  PROVE  /\ PublishedIds(s, c, was, now) \in [Item -> Item \cup {Nil}]
         /\ IdsGrow(pub.ids, PublishedIds(s, c, was, now))
         /\ \A i \in Materialized(s, c, was, now) : PublishedIds(s, c, was, now)[i] \in Item
  <1> DEFINE ids == PublishedIds(s, c, was, now)
  <1>1. \A i \in Item : ids[i] = IF i \in Materialized(s, c, was, now) THEN IdOf(pub.ids, i)
                                 ELSE pub.ids[i]
    BY DEF PublishedIds
  <1>2. ASSUME NEW i \in Item PROVE IdOf(pub.ids, i) \in Item
    BY ItemParts DEF IdOf
  <1>3. \A i \in Item : pub.ids[i] # Nil => IdOf(pub.ids, i) = pub.ids[i]
    BY DEF IdOf
  <1>4. Materialized(s, c, was, now) \subseteq Item
    BY DEF Materialized, Touched
  <1>5. DOMAIN ids = Item /\ ids = [i \in Item |-> ids[i]]
    BY DEF PublishedIds
  <1> HIDE DEF ids
  <1>6. ids \in [Item -> Item \cup {Nil}]
    BY <1>1, <1>2, <1>5
  <1>7. IdsGrow(pub.ids, ids)
    BY <1>1, <1>3 DEF IdsGrow
  <1>8. \A i \in Materialized(s, c, was, now) : ids[i] \in Item
    BY <1>1, <1>2, <1>4
  <1>9. QED
    BY <1>6, <1>7, <1>8 DEF ids

RowKept(row, next) ==
  /\ next # Nil /\ next.created = row.created /\ next.sequence = row.sequence
  /\ row.revoked => next.revoked

RowAdded(s, d, next) ==
  /\ next.created = s.decided[d] /\ s.decided[d] # Nil /\ next.sequence = pub.sequence + 1

RowsTyped == pub.row \in [Decision -> PublicRow \cup {Nil}] /\ pub.sequence \in Nat

LEMMA RunLinkIsALink ==
  ASSUME NEW s, NEW ids \in [Item -> Item \cup {Nil}], NEW d \in Decision
  PROVE  RunLink(s, ids, d) \in LinksOf(ids, d) /\ RunLink(s, ids, d) \in Item \cup {Nil}
  <1>1. Live(d) => <<"runtime", Kind[d].run>> \in Item /\ <<"legacy", Kind[d].run>> \in Item
    BY KindAssumption DEF Live, Item
  <1>2. QED
    BY <1>1 DEF RunLink, LinksOf

LEMMA RewrittenIs ==
  ASSUME NEW s \in Source, NEW ids \in [Item -> Item \cup {Nil}], NEW d \in Decision,
         NEW row \in PublicRow
  PROVE  /\ Rewritten(row, s, ids, d) \in PublicRow
         /\ Rewritten(row, s, ids, d).created = row.created
         /\ Rewritten(row, s, ids, d).sequence = row.sequence
         /\ Rewritten(row, s, ids, d).revoked = row.revoked
         /\ Rewritten(row, s, ids, d).run = RunLink(s, ids, d)
         /\ Rewritten(row, s, ids, d).content = Content(s, d)
         /\ Rewritten(row, s, ids, d).withdrawn = FALSE
  BY ContentTyped, RunLinkIsALink DEF Rewritten, PublicRow

LEMMA WithdrawnIs ==
  ASSUME NEW row \in PublicRow
  PROVE  /\ [row EXCEPT !.withdrawn = TRUE] \in PublicRow
         /\ [row EXCEPT !.withdrawn = TRUE].created = row.created
         /\ [row EXCEPT !.withdrawn = TRUE].sequence = row.sequence
         /\ [row EXCEPT !.withdrawn = TRUE].revoked = row.revoked
         /\ [row EXCEPT !.withdrawn = TRUE].run = row.run
         /\ [row EXCEPT !.withdrawn = TRUE].content = row.content
         /\ [row EXCEPT !.withdrawn = TRUE].withdrawn = TRUE
  BY DEF PublicRow

NewRow(s, ids, d) ==
  [content |-> Content(s, d), run |-> RunLink(s, ids, d), created |-> s.decided[d],
   sequence |-> pub.sequence + 1, revoked |-> FALSE, withdrawn |-> FALSE]

LEMMA PublishedRowIs ==
  ASSUME NEW s, NEW c, NEW was, NEW now, NEW ids, NEW d \in Decision
  PROVE  PublishedRows(s, c, was, now, ids)[d] =
           IF d \in Inserted(s, c, was, now) THEN NewRow(s, ids, d)
           ELSE IF d \in Updated(s, c, was, now, ids) THEN Rewritten(pub.row[d], s, ids, d)
           ELSE IF d \in Withdrawn(s, c, was, now) THEN [pub.row[d] EXCEPT !.withdrawn = TRUE]
           ELSE pub.row[d]
  BY DEF PublishedRows, NewRow

RowsFollow(s, rows, sequence, ids) ==
  /\ rows \in [Decision -> PublicRow \cup {Nil}]
  /\ RowsOK(rows, sequence, ids)
  /\ sequence \in Nat /\ pub.sequence <= sequence
  /\ \A d \in Decision : IF pub.row[d] # Nil THEN RowKept(pub.row[d], rows[d])
                         ELSE rows[d] # Nil => RowAdded(s, d, rows[d])

LEMMA PublishedRowsOK ==
  ASSUME RowsTyped, NEW s \in Source, NEW c, NEW was, NEW now,
         NEW ids \in [Item -> Item \cup {Nil}], IdsGrow(pub.ids, ids),
         RowsOK(pub.row, pub.sequence, pub.ids),
         NEW sequence,
         sequence = IF Inserted(s, c, was, now) = {} THEN pub.sequence ELSE pub.sequence + 1
  PROVE  RowsFollow(s, PublishedRows(s, c, was, now, ids), sequence, ids)
  <1> DEFINE rows == PublishedRows(s, c, was, now, ids)
  <1>0. \A d \in Decision : rows[d] =
           IF d \in Inserted(s, c, was, now) THEN NewRow(s, ids, d)
           ELSE IF d \in Updated(s, c, was, now, ids) THEN Rewritten(pub.row[d], s, ids, d)
           ELSE IF d \in Withdrawn(s, c, was, now) THEN [pub.row[d] EXCEPT !.withdrawn = TRUE]
           ELSE pub.row[d]
    BY PublishedRowIs
  <1>1. rows = [d \in Decision |-> rows[d]]
    BY DEF PublishedRows
  <1> HIDE DEF rows
  <1>2. sequence \in Nat /\ pub.sequence <= sequence
    BY DEF RowsTyped
  <1>3. ASSUME NEW d \in Decision
        PROVE  /\ rows[d] \in PublicRow \cup {Nil}
               /\ rows[d] # Nil => RowOK(rows[d], sequence, ids, d)
               /\ IF pub.row[d] # Nil THEN RowKept(pub.row[d], rows[d])
                  ELSE rows[d] # Nil => RowAdded(s, d, rows[d])
    <2>0. /\ pub.row[d] \in PublicRow \cup {Nil} /\ Nil \notin PublicRow
          /\ pub.row[d] # Nil => RowOK(pub.row[d], pub.sequence, pub.ids, d)
      BY NilAssumption DEF RowsTyped, RowsOK
    <2>k. pub.row[d] # Nil => RowOK(pub.row[d], sequence, ids, d)
      BY <1>2, <2>0, LinksGrow DEF RowsTyped
    <2>1. CASE d \in Inserted(s, c, was, now)
      <3>1. /\ pub.row[d] = Nil /\ s.decided[d] # Nil /\ sequence = pub.sequence + 1
            /\ s.decided[d] \in Nat
        BY <2>1 DEF Inserted, Seen, Eligible, Source
      <3>2. rows[d] = NewRow(s, ids, d)
        BY <2>1, <1>0
      <3>3. /\ Content(s, d) \in Contents /\ RunLink(s, ids, d) \in LinksOf(ids, d)
            /\ RunLink(s, ids, d) \in Item \cup {Nil}
        BY ContentTyped, RunLinkIsALink
      <3>4. /\ rows[d] \in PublicRow /\ rows[d].sequence = pub.sequence + 1
            /\ rows[d].created = s.decided[d] /\ rows[d].run = RunLink(s, ids, d)
        BY <3>1, <3>2, <3>3 DEF NewRow, PublicRow, RowsTyped
      <3>5. RowOK(rows[d], sequence, ids, d)
        BY <3>1, <3>3, <3>4 DEF RowOK, RowsTyped
      <3>6. QED
        BY <3>1, <3>4, <3>5 DEF RowAdded
    <2>2. CASE d \notin Inserted(s, c, was, now) /\ d \in Updated(s, c, was, now, ids)
      <3>1. pub.row[d] \in PublicRow
        BY <2>0, <2>2 DEF Updated
      <3>2. rows[d] = Rewritten(pub.row[d], s, ids, d)
        BY <2>2, <1>0
      <3>3. /\ rows[d] \in PublicRow /\ rows[d].created = pub.row[d].created
            /\ rows[d].sequence = pub.row[d].sequence /\ rows[d].revoked = pub.row[d].revoked
            /\ rows[d].run = RunLink(s, ids, d)
        <4> DEFINE row == pub.row[d]
                   next == Rewritten(row, s, ids, d)
        <4>1. row \in PublicRow
          BY <3>1
        <4> HIDE DEF row
        <4>2. /\ next \in PublicRow /\ next.created = row.created
              /\ next.sequence = row.sequence /\ next.revoked = row.revoked
              /\ next.run = RunLink(s, ids, d)
          BY <4>1, RewrittenIs
        <4> HIDE DEF next
        <4>3. rows[d] = next
          BY <3>2 DEF next, row
        <4>4. QED
          BY <4>2, <4>3 DEF row
      <3>4. RowOK(rows[d], sequence, ids, d)
        BY <2>0, <2>k, <3>1, <3>3, RunLinkIsALink DEF RowOK
      <3>5. QED
        BY <2>0, <3>1, <3>3, <3>4 DEF RowKept
    <2>3. CASE /\ d \notin Inserted(s, c, was, now) /\ d \notin Updated(s, c, was, now, ids)
               /\ d \in Withdrawn(s, c, was, now)
      <3>1. pub.row[d] \in PublicRow
        BY <2>0, <2>3 DEF Withdrawn
      <3>2. rows[d] = [pub.row[d] EXCEPT !.withdrawn = TRUE]
        BY <2>3, <1>0
      <3>3. /\ rows[d] \in PublicRow /\ rows[d].created = pub.row[d].created
            /\ rows[d].sequence = pub.row[d].sequence /\ rows[d].revoked = pub.row[d].revoked
            /\ rows[d].run = pub.row[d].run
        BY <3>1, <3>2, WithdrawnIs
      <3>4. RowOK(rows[d], sequence, ids, d)
        BY <2>0, <2>k, <3>1, <3>3 DEF RowOK
      <3>5. QED
        BY <2>0, <3>1, <3>3, <3>4 DEF RowKept
    <2>4. CASE /\ d \notin Inserted(s, c, was, now) /\ d \notin Updated(s, c, was, now, ids)
               /\ d \notin Withdrawn(s, c, was, now)
      <3>1. rows[d] = pub.row[d]
        BY <2>4, <1>0
      <3>2. QED
        BY <2>0, <2>k, <3>1 DEF RowKept
    <2>5. QED
      BY <2>1, <2>2, <2>3, <2>4
  <1>4. rows \in [Decision -> PublicRow \cup {Nil}]
    BY <1>1, <1>3
  <1>5. RowsOK(rows, sequence, ids)
    BY <1>3 DEF RowsOK
  <1>6. QED
    BY <1>2, <1>3, <1>4, <1>5 DEF RowsFollow, rows

(* An item has the id that is kept for it, and no two have the same.       *)
ItemsOK(items, ids) ==
  /\ items \in [Item -> PublicItem \cup {Nil}]
  /\ \A i \in Item : items[i] # Nil => items[i].id = ids[i]
  /\ \A i, j \in Item : i # j /\ items[i] # Nil /\ items[j] # Nil => items[i].id # items[j].id

LEMMA PublishedItemIs ==
  ASSUME NEW s, NEW c, NEW was, NEW now, NEW i \in Item
  PROVE  PublishedItems(s, c, was, now)[i] =
           IF i \in Materialized(s, c, was, now)
           THEN [id |-> IdOf(pub.ids, i), content |-> Activity(s, i, c)]
           ELSE IF i \in Superseded(Materialized(s, c, was, now)) \cup Touched(s, was, now) THEN Nil
           ELSE pub.item[i]
  BY DEF PublishedItems

LEMMA PublishedItemsOK ==
  ASSUME ItemsOK(pub.item, pub.ids), pub.ids \in [Item -> Item \cup {Nil}],
         NEW s \in Source, NEW c \in BOOLEAN, NEW was, NEW now, ~Refused(s, c, was, now)
  PROVE  ItemsOK(PublishedItems(s, c, was, now), PublishedIds(s, c, was, now))
  <1> DEFINE items == PublishedItems(s, c, was, now)
             ids == PublishedIds(s, c, was, now)
             written == Materialized(s, c, was, now)
             gone == Superseded(written) \cup Touched(s, was, now)
             present == written \cup ({j \in Item : pub.item[j] # Nil} \ Superseded(written))
  <1>1. \A i \in Item : items[i] =
           IF i \in written THEN [id |-> IdOf(pub.ids, i), content |-> Activity(s, i, c)]
           ELSE IF i \in gone THEN Nil ELSE pub.item[i]
    BY PublishedItemIs
  <1>2. \A i \in Item : ids[i] = IF i \in written THEN IdOf(pub.ids, i) ELSE pub.ids[i]
    BY DEF PublishedIds
  <1>3. \A i \in written : ids[i] \in Item /\ i \in Item /\ Activity(s, i, c) # Nil
    BY PublishedIdsGrow DEF Materialized, Touched
  <1>4. \A i \in written, j \in present : i # j => ids[i] # ids[j]
    BY DEF Refused
  <1>5. items = [i \in Item |-> items[i]]
    BY DEF PublishedItems
  <1> HIDE DEF items, ids, written, gone
  <1>6. ASSUME NEW i \in Item
        PROVE  /\ items[i] \in PublicItem \cup {Nil}
               /\ items[i] # Nil => items[i].id = ids[i]
               /\ items[i] # Nil /\ i \notin written => i \in present /\ items[i] = pub.item[i]
    <2>1. CASE i \in written
      <3>1. items[i] = [id |-> ids[i], content |-> Activity(s, i, c)]
        BY <1>1, <1>2, <2>1
      <3>2. ids[i] \in Item /\ Activity(s, i, c) \in Activities
        BY <1>3, <2>1, ActivityTyped
      <3>3. items[i] \in PublicItem /\ items[i].id = ids[i]
        BY <3>1, <3>2 DEF PublicItem
      <3>4. QED
        BY <2>1, <3>3
    <2>2. CASE i \notin written /\ i \in gone
      BY <1>1, <2>2
    <2>3. CASE i \notin written /\ i \notin gone
      <3>1. items[i] = pub.item[i] /\ ids[i] = pub.ids[i] /\ i \notin Superseded(written)
        BY <1>1, <1>2, <2>3 DEF gone
      <3>2. QED
        BY <3>1 DEF ItemsOK
    <2>4. QED
      BY <2>1, <2>2, <2>3
  <1>7. ASSUME NEW i \in Item, NEW j \in Item, i # j, items[i] # Nil, items[j] # Nil
        PROVE  items[i].id # items[j].id
    <2>1. CASE i \in written
      <3>1. j \in present
        BY <1>6, <1>7
      <3>2. QED
        BY <1>4, <1>6, <1>7, <2>1, <3>1
    <2>2. CASE j \in written
      <3>1. i \in present
        BY <1>6, <1>7
      <3>2. QED
        BY <1>4, <1>6, <1>7, <2>2, <3>1
    <2>3. CASE i \notin written /\ j \notin written
      <3>1. items[i] = pub.item[i] /\ items[j] = pub.item[j]
        BY <1>6, <1>7, <2>3
      <3>2. QED
        BY <1>7, <3>1 DEF ItemsOK
    <2>4. QED
      BY <2>1, <2>2, <2>3
  <1>8. items \in [Item -> PublicItem \cup {Nil}]
    BY <1>5, <1>6
  <1>9. QED
    BY <1>6, <1>7, <1>8 DEF ItemsOK, items, ids

-----------------------------------------------------------------------------
(* The store and the publishers are well formed.                           *)
WorldInv == Bounded /\ day \in Nat /\ config \in BOOLEAN /\ SourceOK(src)

StoreInv ==
  /\ DOMAIN pub = Columns
  /\ RowsTyped /\ RowsOK(pub.row, pub.sequence, pub.ids)
  /\ pub.revision \in Nat
  /\ pub.ids \in [Item -> Item \cup {Nil}]
  /\ ItemsOK(pub.item, pub.ids)
  /\ pub.checkpoint \in Checkpoints \cup {Nil}

(* A decision was published with the day it was made on.                   *)
CreatedInv == \A d \in Decision : pub.row[d] # Nil => src.decided[d] = pub.row[d].created

Publishers ==
  [at : {"opened", "compared"}, s : Source, day : Nat, config : BOOLEAN,
   previous : Checkpoints \cup {Nil}]

(* What a publisher reads is a snapshot of the source, now or before.      *)
PublisherOK(me) == me \in Publishers /\ SourceOK(me.s) /\ Since(me.s, src)

PublisherInv ==
  /\ DOMAIN publisher = {"watch", "hand"}
  /\ \A p \in DOMAIN publisher : publisher[p] # Nil => PublisherOK(publisher[p])

WellFormed == WorldInv /\ StoreInv /\ CreatedInv /\ PublisherInv

LEMMA InitWellFormed ==
  ASSUME Init
  PROVE  WellFormed
  <1>1. scene \in Scene /\ left = scene.left /\ src = scene.from /\ day = 1 /\ config = TRUE
    BY DEF Init
  <1>2. WorldInv
    BY <1>1, SceneAssumption DEF WorldInv, Bounded
  <1>3. /\ pub = EmptyStore /\ publisher = [p \in {"watch", "hand"} |-> Nil]
    BY DEF Init
  <1>4. /\ DOMAIN pub = Columns /\ pub.row = [d \in Decision |-> Nil] /\ pub.sequence = 0
        /\ pub.revision = 0 /\ pub.item = [i \in Item |-> Nil]
        /\ pub.ids = [i \in Item |-> Nil] /\ pub.checkpoint = Nil
    BY <1>3 DEF EmptyStore, Columns
  <1>5. StoreInv
    BY <1>4 DEF StoreInv, RowsTyped, RowsOK, ItemsOK
  <1>6. CreatedInv /\ PublisherInv
    BY <1>3, <1>4 DEF CreatedInv, PublisherInv
  <1>7. QED
    BY <1>2, <1>5, <1>6 DEF WellFormed

LEMMA ScenePublishers ==
  ASSUME WorldInv
  PROVE  scene.publishers \subseteq {"watch", "hand"} /\ "watch" \in scene.publishers
  BY SceneAssumption DEF WorldInv, Bounded

(* One publication.                                                        *)
LEMMA CommitIs ==
  ASSUME WellFormed, NEW p \in scene.publishers, Commit(p), ~RefusedNow(publisher[p]),
         NEW me, me = publisher[p], NEW now, now = Checkpoint(me.s, me.config, me.day)
  PROVE  /\ PublisherOK(me) /\ me.at = "compared" /\ now \in Checkpoints
         /\ PublishedAs(pub', me.s, me.config, me.previous, now, me.day)
         /\ IF OnlyActivity(me.previous, now)
            THEN /\ pub'.row = pub.row /\ pub'.sequence = pub.sequence
                 /\ RowsOK(pub'.row, pub'.sequence, pub'.ids)
            ELSE RowsFollow(me.s, pub'.row, pub'.sequence, pub'.ids)
         /\ pub'.ids \in [Item -> Item \cup {Nil}]
         /\ ItemsOK(pub'.item, pub'.ids)
         /\ pub'.revision \in Nat /\ pub.revision <= pub'.revision
  <1>1. PublisherOK(me) /\ me.at = "compared"
    BY ScenePublishers DEF WellFormed, PublisherInv, Commit
  <1>2. me.s \in Source /\ me.config \in BOOLEAN /\ me.day \in Nat
    BY <1>1 DEF PublisherOK, Publishers
  <1>3. now \in Checkpoints
    BY <1>2, CheckpointTyped
  <1>4. pub' = Published(me.s, me.config, me.previous, me.day)
    BY DEF Commit
  <1>5. PublishedAs(pub', me.s, me.config, me.previous, now, me.day)
    BY <1>4, PublishedIs DEF WellFormed, StoreInv
  <1>6. /\ pub'.ids = PublishedIds(me.s, me.config, me.previous, now)
        /\ pub'.item = PublishedItems(me.s, me.config, me.previous, now)
    BY <1>5 DEF PublishedAs
  <1>7. pub'.ids \in [Item -> Item \cup {Nil}] /\ IdsGrow(pub.ids, pub'.ids)
    BY <1>6, PublishedIdsGrow DEF WellFormed, StoreInv
  <1>8. ItemsOK(pub'.item, pub'.ids)
    BY <1>2, <1>6, PublishedItemsOK DEF WellFormed, StoreInv, RefusedNow
  <1>9. pub'.revision \in Nat /\ pub.revision <= pub'.revision
    BY <1>5 DEF PublishedAs, WellFormed, StoreInv
  <1>10. CASE OnlyActivity(me.previous, now)
    <2>1. pub'.row = pub.row /\ pub'.sequence = pub.sequence
      BY <1>5, <1>10 DEF PublishedAs
    <2>2. RowsOK(pub'.row, pub'.sequence, pub'.ids)
      BY <1>7, <2>1, LinksGrow DEF WellFormed, StoreInv, RowsTyped, RowsOK
    <2>3. QED
      BY <1>1, <1>3, <1>5, <1>7, <1>8, <1>9, <1>10, <2>1, <2>2
  <1>11. CASE ~OnlyActivity(me.previous, now)
    <2>1. /\ pub'.row = PublishedRows(me.s, me.config, me.previous, now, pub'.ids)
          /\ pub'.sequence = IF Inserted(me.s, me.config, me.previous, now) = {}
                             THEN pub.sequence ELSE pub.sequence + 1
      BY <1>5, <1>11 DEF PublishedAs
    <2>2. RowsFollow(me.s, pub'.row, pub'.sequence, pub'.ids)
      BY <1>2, <1>7, <2>1, PublishedRowsOK DEF WellFormed, StoreInv
    <2>3. QED
      BY <1>1, <1>3, <1>5, <1>7, <1>8, <1>9, <1>11, <2>2
  <1>12. QED
    BY <1>10, <1>11

(* What every step keeps of a row.                                         *)
RowsStay == \A d \in Decision : pub.row[d] # Nil => RowKept(pub.row[d], pub'.row[d])

LEMMA CommitWellFormed ==
  ASSUME WellFormed, NEW p \in scene.publishers, Commit(p)
  PROVE  WellFormed' /\ RowsStay
  <1>0. UNCHANGED <<scene, left, src, day, config>> /\ publisher' = [publisher EXCEPT ![p] = Nil]
    BY DEF Commit
  <1>1. WorldInv' /\ PublisherInv'
    BY <1>0 DEF WellFormed, WorldInv, Bounded, PublisherInv, PublisherOK
  <1>2. CASE RefusedNow(publisher[p])
    <2>1. pub' = pub
      BY <1>2 DEF Commit
    <2>2. StoreInv' /\ CreatedInv' /\ RowsStay
      BY <1>0, <2>1 DEF WellFormed, StoreInv, CreatedInv, RowsTyped, RowsStay, RowKept
    <2>3. QED
      BY <1>1, <2>2 DEF WellFormed
  <1>3. CASE ~RefusedNow(publisher[p])
    <2> DEFINE me == publisher[p]
               now == Checkpoint(me.s, me.config, me.day)
    <2>1. /\ PublisherOK(me) /\ now \in Checkpoints
          /\ PublishedAs(pub', me.s, me.config, me.previous, now, me.day)
          /\ IF OnlyActivity(me.previous, now)
             THEN /\ pub'.row = pub.row /\ pub'.sequence = pub.sequence
                  /\ RowsOK(pub'.row, pub'.sequence, pub'.ids)
             ELSE RowsFollow(me.s, pub'.row, pub'.sequence, pub'.ids)
          /\ pub'.ids \in [Item -> Item \cup {Nil}]
          /\ ItemsOK(pub'.item, pub'.ids)
          /\ pub'.revision \in Nat
      BY <1>3, CommitIs
    <2> HIDE DEF me, now
    <2>2. DOMAIN pub' = Columns /\ pub'.checkpoint = now
      BY <2>1 DEF PublishedAs
    <2>3. /\ pub'.row \in [Decision -> PublicRow \cup {Nil}] /\ pub'.sequence \in Nat
          /\ RowsOK(pub'.row, pub'.sequence, pub'.ids)
          /\ RowsStay
      BY <2>1 DEF RowsFollow, WellFormed, StoreInv, RowsTyped, RowsStay, RowKept
    <2>4. StoreInv'
      BY <2>1, <2>2, <2>3 DEF StoreInv, RowsTyped
    <2>5. ASSUME NEW d \in Decision, pub'.row[d] # Nil
          PROVE  src.decided[d] = pub'.row[d].created
      <3>1. CASE pub.row[d] # Nil
        BY <2>3, <3>1 DEF RowsStay, RowKept, WellFormed, CreatedInv
      <3>2. CASE pub.row[d] = Nil
        <4>1. pub'.row[d].created = me.s.decided[d] /\ me.s.decided[d] # Nil
          BY <2>1, <2>5, <3>2 DEF RowsFollow, RowAdded
        <4>2. QED
          BY <2>1, <4>1 DEF PublisherOK, Since, Grows
      <3>3. QED
        BY <3>1, <3>2
    <2>6. CreatedInv'
      BY <1>0, <2>5 DEF CreatedInv
    <2>7. QED
      BY <1>1, <2>3, <2>4, <2>6 DEF WellFormed
  <1>4. QED
    BY <1>2, <1>3

LEMMA RevokeWellFormed ==
  ASSUME WellFormed, NEW d \in Decision, Revoke(d)
  PROVE  WellFormed' /\ RowsStay /\ pub'.revision = pub.revision + 1
  <1>0. UNCHANGED <<scene, src, day, config, publisher>> /\ Happens("revoke") /\ pub.row[d] # Nil
    BY DEF Revoke
  <1>1. WorldInv' /\ PublisherInv'
    BY <1>0, HappensBounded DEF WellFormed, WorldInv, Bounded, PublisherInv, PublisherOK
  <1>2. /\ DOMAIN pub' = Columns /\ pub'.row = RevokedRows(d)
        /\ pub'.sequence = pub.sequence /\ pub'.revision = pub.revision + 1
        /\ pub'.ids = pub.ids /\ pub'.item = pub.item /\ pub'.checkpoint = pub.checkpoint
    BY DEF Revoke, WellFormed, StoreInv, Columns
  <1>3. pub.row[d] \in PublicRow
    BY <1>0 DEF WellFormed, StoreInv, RowsTyped
  <1>4. /\ [pub.row[d] EXCEPT !.revoked = TRUE] \in PublicRow
        /\ [pub.row[d] EXCEPT !.revoked = TRUE].created = pub.row[d].created
        /\ [pub.row[d] EXCEPT !.revoked = TRUE].sequence = pub.row[d].sequence
        /\ [pub.row[d] EXCEPT !.revoked = TRUE].run = pub.row[d].run
        /\ [pub.row[d] EXCEPT !.revoked = TRUE].revoked = TRUE
    BY <1>3 DEF PublicRow
  <1>5. /\ DOMAIN pub'.row = Decision
        /\ pub'.row[d] = [pub.row[d] EXCEPT !.revoked = TRUE]
        /\ \A e \in Decision : e # d => pub'.row[e] = pub.row[e]
    BY <1>2 DEF RevokedRows, WellFormed, StoreInv, RowsTyped
  <1>6. pub'.row \in [Decision -> PublicRow \cup {Nil}]
    <2>1. pub'.row = [e \in Decision |-> pub'.row[e]]
      BY <1>2 DEF RevokedRows, WellFormed, StoreInv, RowsTyped
    <2>2. \A e \in Decision : pub'.row[e] \in PublicRow \cup {Nil}
      BY <1>4, <1>5 DEF WellFormed, StoreInv, RowsTyped
    <2>3. QED
      BY <2>1, <2>2
  <1>7. RowsOK(pub'.row, pub'.sequence, pub'.ids)
    <2>1. RowsOK(pub.row, pub.sequence, pub.ids)
      BY DEF WellFormed, StoreInv
    <2>2. RowOK(pub'.row[d], pub'.sequence, pub'.ids, d)
      BY <1>0, <1>2, <1>4, <1>5, <2>1 DEF RowsOK, RowOK
    <2>3. QED
      BY <1>2, <1>5, <2>1, <2>2 DEF RowsOK
  <1>8. RowsStay /\ CreatedInv'
    BY <1>0, <1>3, <1>4, <1>5, NilAssumption DEF RowsStay, RowKept, CreatedInv, WellFormed
  <1>9. StoreInv'
    BY <1>2, <1>6, <1>7 DEF StoreInv, RowsTyped, WellFormed
  <1>10. QED
    BY <1>1, <1>2, <1>8, <1>9 DEF WellFormed

LEMMA SourceStepWellFormed ==
  ASSUME WellFormed, SourceStep, left' \in 0..scene.left
  PROVE  WellFormed'
  <1>1. WorldInv' /\ StoreInv'
    BY DEF WellFormed, WorldInv, Bounded, SourceStep, StoreInv, RowsTyped
  <1>2. ASSUME NEW d \in Decision, pub.row[d] # Nil
        PROVE  src'.decided[d] = pub.row[d].created
    <2>1. pub.row[d] \in PublicRow
      BY <1>2 DEF WellFormed, StoreInv, RowsTyped
    <2>2. pub.row[d].created # Nil
      BY <2>1, NilAssumption DEF PublicRow
    <2>3. QED
      BY <1>2, <2>2 DEF WellFormed, CreatedInv, SourceStep, Since, Grows
  <1>3. CreatedInv'
    BY <1>2 DEF CreatedInv, SourceStep
  <1>4. ASSUME NEW p \in DOMAIN publisher, publisher[p] # Nil
        PROVE  PublisherOK(publisher[p])'
    <2>1. PublisherOK(publisher[p])
      BY <1>4 DEF WellFormed, PublisherInv
    <2>2. Since(publisher[p].s, src')
      BY <2>1, SinceTransitive DEF PublisherOK, SourceOK, SourceStep, WellFormed, WorldInv
    <2>3. QED
      BY <2>1, <2>2 DEF PublisherOK, SourceStep
  <1>5. PublisherInv'
    BY <1>4 DEF PublisherInv, SourceStep, WellFormed
  <1>6. QED
    BY <1>1, <1>3, <1>5 DEF WellFormed

LEMMA OpenWellFormed ==
  ASSUME WellFormed, NEW p, Open(p)
  PROVE  WellFormed'
  <1>0. /\ UNCHANGED <<scene, src, day, config, pub>> /\ p \in {"watch", "hand"}
        /\ left' \in 0..scene.left
        /\ publisher' = [publisher EXCEPT ![p] =
             [at |-> "opened", s |-> src, day |-> day, config |-> config, previous |-> Nil]]
    BY ScenePublishers, HappensBounded DEF Open, WellFormed, WorldInv, Bounded
  <1>1. WorldInv' /\ StoreInv' /\ CreatedInv'
    BY <1>0 DEF WellFormed, WorldInv, Bounded, StoreInv, RowsTyped, CreatedInv
  <1>2. PublisherOK([at |-> "opened", s |-> src, day |-> day, config |-> config, previous |-> Nil])
    BY SinceReflexive DEF PublisherOK, Publishers, WellFormed, WorldInv, SourceOK
  <1>3. PublisherInv'
    BY <1>0, <1>2 DEF PublisherInv, PublisherOK, WellFormed
  <1>4. QED
    BY <1>1, <1>3 DEF WellFormed

LEMMA CompareWellFormed ==
  ASSUME WellFormed, NEW p \in scene.publishers, NEW b \in BOOLEAN, Compare(p, b)
  PROVE  WellFormed'
  <1> DEFINE previous == IF b THEN Nil ELSE pub.checkpoint
             next == [publisher[p] EXCEPT !.at = "compared", !.previous = previous]
  <1>0. /\ UNCHANGED <<scene, src, day, config, pub>> /\ p \in {"watch", "hand"}
        /\ left' \in 0..scene.left /\ publisher[p] # Nil
        /\ \/ publisher' = [publisher EXCEPT ![p] = Nil]
           \/ publisher' = [publisher EXCEPT ![p] = next]
    BY ScenePublishers, HappensBounded DEF Compare, WellFormed, WorldInv, Bounded
  <1>1. WorldInv' /\ StoreInv' /\ CreatedInv'
    BY <1>0 DEF WellFormed, WorldInv, Bounded, StoreInv, RowsTyped, CreatedInv
  <1>2. PublisherOK(publisher[p]) /\ previous \in Checkpoints \cup {Nil}
    BY <1>0 DEF WellFormed, PublisherInv, StoreInv
  <1> HIDE DEF previous
  <1>3. PublisherOK(next)
    BY <1>2 DEF PublisherOK, Publishers
  <1> HIDE DEF next
  <1>4. PublisherInv'
    BY <1>0, <1>3 DEF PublisherInv, PublisherOK, WellFormed
  <1>5. QED
    BY <1>1, <1>4 DEF WellFormed

LEMMA OthersWellFormed ==
  ASSUME WellFormed, \/ \E p : Die(p)
                     \/ FirstPage \/ NextPage \/ EndOfPages \/ NextDay \/ Reconfigure
                     \/ UNCHANGED vars
  PROVE  WellFormed' /\ UNCHANGED <<src, pub>>
  <1>1. CASE \E p : Die(p)
    <2>1. PICK p : Die(p)
      BY <1>1
    <2>2. /\ UNCHANGED <<scene, src, day, config, pub>> /\ left' \in 0..scene.left
          /\ publisher' = [publisher EXCEPT ![p] = Nil]
      BY <2>1, HappensBounded DEF Die, WellFormed, WorldInv
    <2>3. QED
      BY <2>2 DEF WellFormed, WorldInv, Bounded, StoreInv, RowsTyped, CreatedInv, PublisherInv,
         PublisherOK
  <1>2. CASE FirstPage \/ NextPage \/ EndOfPages \/ UNCHANGED vars
    <2>1. UNCHANGED <<scene, left, src, day, config, pub, publisher>>
      BY <1>2 DEF FirstPage, NextPage, EndOfPages, vars
    <2>2. QED
      BY <2>1 DEF WellFormed, WorldInv, Bounded, StoreInv, RowsTyped, CreatedInv, PublisherInv,
         PublisherOK
  <1>3. CASE NextDay \/ Reconfigure
    <2>1. /\ UNCHANGED <<scene, src, pub, publisher>> /\ left' \in 0..scene.left
          /\ day' \in Nat /\ config' \in BOOLEAN
      <3>1. left' \in 0..scene.left
        BY <1>3, HappensBounded DEF NextDay, Reconfigure, WellFormed, WorldInv
      <3>2. day' = day + 1 \/ day' = day
        BY <1>3 DEF NextDay, Reconfigure
      <3>3. config' = config \/ config' = ~config
        BY <1>3, Zenon DEF NextDay, Reconfigure
      <3>4. UNCHANGED <<scene, src, pub, publisher>>
        BY <1>3 DEF NextDay, Reconfigure
      <3>5. day \in Nat /\ config \in BOOLEAN
        BY DEF WellFormed, WorldInv
      <3>6. day' \in Nat
        BY <3>2, <3>5
      <3>7. config' \in BOOLEAN
        BY <3>3, <3>5
      <3>8. QED
        BY <3>1, <3>4, <3>6, <3>7
    <2>2. QED
      BY <2>1 DEF WellFormed, WorldInv, Bounded, StoreInv, RowsTyped, CreatedInv, PublisherInv,
         PublisherOK
  <1>4. QED
    BY <1>1, <1>2, <1>3

LEMMA NextWellFormed ==
  ASSUME WellFormed, [Next]_vars
  PROVE  WellFormed' /\ RowsStay
  <1>0. pub' = pub => RowsStay
    BY DEF RowsStay, RowKept
  <1>1. CASE \E p \in scene.publishers : Commit(p)
    BY <1>1, CommitWellFormed
  <1>2. CASE \E p \in scene.publishers : Open(p)
    BY <1>0, <1>2, OpenWellFormed DEF Open
  <1>3. CASE \E p \in scene.publishers, b \in BOOLEAN : Compare(p, b)
    BY <1>0, <1>3, CompareWellFormed DEF Compare
  <1>4. CASE \E d \in Decision : Revoke(d)
    BY <1>4, RevokeWellFormed
  <1>5. CASE Trade \/ Author \/ Runs \/ Schedule
    <2>1. SourceStep /\ \E name : Happens(name)
      BY <1>5, WritesAreSteps DEF WellFormed, WorldInv
    <2>2. left' \in 0..scene.left
      BY <2>1, HappensBounded DEF WellFormed, WorldInv
    <2>3. QED
      BY <1>0, <2>1, <2>2, SourceStepWellFormed DEF SourceStep
  <1>6. CASE \/ \E p \in scene.publishers : Die(p)
             \/ FirstPage \/ NextPage \/ EndOfPages \/ NextDay \/ Reconfigure \/ UNCHANGED vars
    BY <1>0, <1>6, OthersWellFormed
  <1>7. QED
    BY <1>1, <1>2, <1>3, <1>4, <1>5, <1>6 DEF Next

-----------------------------------------------------------------------------
(* Readers find the newest of any rows.                                    *)
LEMMA NewerOrders ==
  ASSUME NEW rows, NEW d \in Decision, NEW e \in Decision, NEW g \in Decision,
         rows[d].created \in Nat, rows[e].created \in Nat, rows[g].created \in Nat
  PROVE  /\ ~Newer(rows, d, d)
         /\ d # e => Newer(rows, d, e) \/ Newer(rows, e, d)
         /\ Newer(rows, d, e) /\ Newer(rows, e, g) => Newer(rows, d, g)
         /\ ~(Newer(rows, d, e) /\ Newer(rows, e, d))
  BY KindAssumption DEF Newer

Newest1(rows, from) == \E d \in from : \A e \in from : e = d \/ Newer(rows, d, e)

Dated(rows, from) == \A d \in from : rows[d].created \in Nat

LEMMA OneIsNewest ==
  ASSUME NEW rows, NEW from \in SUBSET Decision, from # {}, Dated(rows, from)
  PROVE  Newest1(rows, from)
  <1> DEFINE Without(n) == \E X \in SUBSET Decision :
                 X # {} /\ Dated(rows, X) /\ Cardinality(X) = n /\ ~Newest1(rows, X)
             Sizes == {n \in Nat : Without(n)}
  <1>0. ASSUME NEW X \in SUBSET Decision
        PROVE  IsFiniteSet(X) /\ Cardinality(X) \in Nat
    BY FS_Subset, FS_CardinalityType, KindAssumption
  <1> SUFFICES ASSUME ~Newest1(rows, from) PROVE FALSE
    OBVIOUS
  <1>1. Cardinality(from) \in Sizes
    BY <1>0
  <1>2. PICK n \in Sizes : \A m \in Sizes : ~(<<m, n>> \in OpToRel(<, Nat))
    BY <1>1, WFMin, NatLessThanWellFounded, Zenon
  <1>3. n \in Nat /\ Without(n)
    OBVIOUS
  <1>4. \A m \in Sizes : m \in Nat
    OBVIOUS
  <1>5. \A m \in Sizes : ~(m < n)
    BY <1>2, <1>3, <1>4, Zenon DEF OpToRel
  <1>6. PICK X \in SUBSET Decision :
          X # {} /\ Dated(rows, X) /\ Cardinality(X) = n /\ ~Newest1(rows, X)
    BY <1>3
  <1>7. PICK x \in X : TRUE
    BY <1>6
  <1> DEFINE Y == X \ {x}
  <1>8. Y \in SUBSET Decision /\ Dated(rows, Y)
    BY <1>6 DEF Dated
  <1>9. Cardinality(Y) = n - 1 /\ n - 1 \in Nat
    <2>1. Cardinality(Y) = Cardinality(X) - 1
      BY <1>0, <1>7, FS_RemoveElement
    <2>2. QED
      BY <1>0, <1>6, <1>8, <2>1
  <1>10. CASE Y = {}
    <2>1. X = {x}
      BY <1>7, <1>10
    <2>2. QED
      BY <1>6, <2>1 DEF Newest1
  <1>11. CASE Y # {}
    <2>1. n - 1 \notin Sizes
      BY <1>3, <1>5
    <2>2. ~Without(n - 1)
      BY <1>9, <2>1
    <2>3. Newest1(rows, Y)
      BY <1>8, <1>9, <1>11, <2>2
    <2>4. PICK y \in Y : \A e \in Y : e = y \/ Newer(rows, y, e)
      BY <2>3 DEF Newest1
    <2>5. x \in Decision /\ y \in Decision /\ rows[x].created \in Nat /\ rows[y].created \in Nat
      BY <1>6, <1>7 DEF Dated
    <2>6. CASE Newer(rows, y, x)
      <3>1. \A e \in X : e = y \/ Newer(rows, y, e)
        BY <2>4, <2>6
      <3>2. QED
        BY <1>6, <3>1 DEF Newest1
    <2>7. CASE Newer(rows, x, y)
      <3>1. ASSUME NEW e \in X PROVE e = x \/ Newer(rows, x, e)
        <4>1. e \in Decision /\ rows[e].created \in Nat
          BY <1>6 DEF Dated
        <4>2. e = x \/ e = y \/ Newer(rows, y, e)
          BY <2>4
        <4>3. QED
          BY <2>5, <2>7, <4>1, <4>2, NewerOrders
      <3>2. QED
        BY <1>6, <3>1 DEF Newest1
    <2>8. QED
      BY <2>4, <2>5, <2>6, <2>7, NewerOrders
  <1>12. QED
    BY <1>10, <1>11

LEMMA Next1Is ==
  ASSUME NEW rows, NEW from \in SUBSET Decision, from # {}, Dated(rows, from)
  PROVE  /\ Next1(rows, from) \in from
         /\ \A e \in from : e = Next1(rows, from) \/ Newer(rows, Next1(rows, from), e)
  BY OneIsNewest DEF Newest1, Next1

LEMMA ShownAreDated ==
  ASSUME RowsTyped, NEW from \in SUBSET Decision, \A d \in from : Shown(d)
  PROVE  Dated(pub.row, from)
  <1> SUFFICES ASSUME NEW d \in from PROVE pub.row[d].created \in Nat
    BY DEF Dated
  <1>1. pub.row[d] \in PublicRow
    BY DEF RowsTyped, Shown, ShownIn
  <1>2. QED
    BY <1>1 DEF PublicRow

(* Whatever readers find is shown.                                         *)
OnlyShown == \A d \in Surfaces : Shown(d)

LEMMA SurfacesAreShown ==
  ASSUME RowsTyped
  PROVE  OnlyShown
  <1>1. ASSUME NEW from \in SUBSET Decision, \A d \in from : Shown(d)
        PROVE  \A d \in Newest(from) : Shown(d)
    BY <1>1, ShownAreDated, Next1Is DEF Newest
  <1>2. \A x, t : \A d \in PositionLink(x, t) : Shown(d)
    BY <1>1 DEF PositionLink
  <1>3. \A x : \A d \in RuleLink(x) : Shown(d)
    BY <1>1 DEF RuleLink
  <1>4. QED
    BY <1>2, <1>3 DEF Surfaces, OnlyShown

(* A revoked decision is never found again: not in a feed, not behind a    *)
(* position or a rule, whatever is published, withdrawn, rebuilt or        *)
(* revoked, and however many publishers are at it.                         *)
THEOREM RevokedStay == FairSpec => RevokedStaysGone
  <1>1. WellFormed => OnlyShown
    BY SurfacesAreShown DEF WellFormed, StoreInv
  <1>2. RowsStay /\ OnlyShown' =>
          \A d \in Decision : pub.row[d] # Nil /\ pub.row[d].revoked => d \notin Surfaces'
    BY DEF RowsStay, RowKept, OnlyShown, Shown, ShownIn
  <1>3. WellFormed /\ OnlyShown' /\ [Next]_vars =>
          [\A d \in Decision : pub.row[d] # Nil /\ pub.row[d].revoked => d \notin Surfaces']_vars
    BY <1>2, NextWellFormed
  <1>4. Init => WellFormed
    BY InitWellFormed
  <1>5. WellFormed /\ [Next]_vars => WellFormed'
    BY NextWellFormed
  <1>6. QED
    BY <1>1, <1>3, <1>4, <1>5, PTL DEF FairSpec, Spec, RevokedStaysGone

-----------------------------------------------------------------------------
(* Readers.                                                                *)
ReadOf(rows, from) == {<<e, rows[e].content>> : e \in from}

(* While no revision ends them the pages are of one feed, and what was     *)
(* read of it is what is not beyond the cursor.                            *)
Paging(me) ==
  /\ me.high \in Nat /\ me.high <= pub.sequence
  /\ me.after \in Feed(pub.row, me.high)
  /\ me.first = ReadOf(pub.row, Feed(pub.row, me.high))
  /\ me.got = ReadOf(pub.row, Feed(pub.row, me.high) \ Beyond(pub.row, me.high, me.after))

ReaderInv ==
  reader # Nil =>
    /\ DOMAIN reader = {"revision", "high", "after", "got", "first"}
    /\ reader.revision \in Nat /\ reader.revision <= pub.revision
    /\ reader.revision = pub.revision => Paging(reader)

LEMMA FeedIsDated ==
  ASSUME RowsTyped, NEW high
  PROVE  Dated(pub.row, Feed(pub.row, high))
  BY ShownAreDated DEF Feed, Shown

(* A store whose rows stay as they are, but for those beyond what readers  *)
(* page through.                                                           *)
LEMMA PagesStay ==
  ASSUME NEW me, Paging(me), RowsTyped, pub'.sequence \in Nat, pub.sequence <= pub'.sequence,
         \A d \in Decision :
           \/ pub'.row[d] = pub.row[d]
           \/ pub.row[d] = Nil /\ pub'.row[d].sequence = pub.sequence + 1
  PROVE  Paging(me)'
  <1> DEFINE high == me.high
             feed == Feed(pub.row, high)
  <1>0. /\ high \in Nat /\ high <= pub.sequence /\ me.after \in feed /\ pub.sequence \in Nat
        /\ me.first = ReadOf(pub.row, feed)
        /\ me.got = ReadOf(pub.row, feed \ Beyond(pub.row, high, me.after))
    BY DEF Paging, RowsTyped
  <1>1. high <= pub'.sequence
    BY <1>0
  <1>2. \A d \in Decision : pub'.row[d] # pub.row[d] =>
          pub.row[d] = Nil /\ ~(pub'.row[d].sequence <= high)
    BY <1>0
  <1>3. Feed(pub'.row, high) = feed
    <2>1. \A d \in Decision : d \in Feed(pub'.row, high) <=> d \in feed
      BY <1>2 DEF Feed, ShownIn
    <2>2. Feed(pub'.row, high) \subseteq Decision /\ feed \subseteq Decision
      BY DEF Feed
    <2>3. QED
      BY <2>1, <2>2
  <1>4. \A d \in feed : pub'.row[d] = pub.row[d]
    BY <1>2 DEF Feed, ShownIn
  <1> HIDE DEF feed
  <1>5. \A from : from \subseteq feed => ReadOf(pub'.row, from) = ReadOf(pub.row, from)
    BY <1>4 DEF ReadOf
  <1>6. Beyond(pub'.row, high, me.after) = Beyond(pub.row, high, me.after)
    <2>1. \A d \in feed : Newer(pub'.row, me.after, d) <=> Newer(pub.row, me.after, d)
      BY <1>0, <1>4 DEF Newer
    <2>2. QED
      BY <1>3, <2>1 DEF Beyond, feed
  <1>7. ReadOf(pub'.row, feed) = ReadOf(pub.row, feed)
    BY <1>5
  <1>8. ReadOf(pub'.row, feed \ Beyond(pub.row, high, me.after))
          = ReadOf(pub.row, feed \ Beyond(pub.row, high, me.after))
    BY <1>5
  <1>9. /\ me.high \in Nat /\ me.high <= pub'.sequence /\ me.after \in Feed(pub'.row, me.high)
        /\ me.first = ReadOf(pub'.row, Feed(pub'.row, me.high))
        /\ me.got = ReadOf(pub'.row,
                      Feed(pub'.row, me.high) \ Beyond(pub'.row, me.high, me.after))
    BY <1>0, <1>1, <1>3, <1>6, <1>7, <1>8
  <1>10. QED
    BY <1>9 DEF Paging

LEMMA CommitKeepsPages ==
  ASSUME WellFormed, ReaderInv, NEW p \in scene.publishers, Commit(p)
  PROVE  ReaderInv'
  <1>0. reader' = reader
    BY DEF Commit
  <1>1. CASE RefusedNow(publisher[p])
    <2>1. pub' = pub
      BY <1>1 DEF Commit
    <2>2. QED
      BY <1>0, <2>1 DEF ReaderInv, Paging
  <1>2. CASE ~RefusedNow(publisher[p]) /\ reader # Nil
    <2> DEFINE me == publisher[p]
               now == Checkpoint(me.s, me.config, me.day)
    <2>1. /\ PublishedAs(pub', me.s, me.config, me.previous, now, me.day)
          /\ IF OnlyActivity(me.previous, now)
             THEN pub'.row = pub.row /\ pub'.sequence = pub.sequence
             ELSE RowsFollow(me.s, pub'.row, pub'.sequence, pub'.ids)
          /\ pub'.revision \in Nat /\ pub.revision <= pub'.revision
      BY <1>2, CommitIs
    <2> HIDE DEF me, now
    <2>2. /\ DOMAIN reader = {"revision", "high", "after", "got", "first"}
          /\ reader.revision \in Nat /\ reader.revision <= pub.revision
          /\ reader.revision = pub.revision => Paging(reader)
          /\ pub.revision \in Nat /\ RowsTyped
      BY <1>2 DEF ReaderInv, WellFormed, StoreInv
    <2>3. reader.revision <= pub'.revision
      BY <2>1, <2>2
    <2>4. ASSUME reader.revision = pub'.revision
          PROVE  Paging(reader)'
      <3>1. pub'.revision = pub.revision /\ Paging(reader)
        BY <2>1, <2>2, <2>4
      <3>2. pub'.sequence \in Nat /\ pub.sequence <= pub'.sequence
        BY <2>1, <2>2 DEF RowsFollow, RowsTyped
      <3>3. ASSUME NEW d \in Decision
            PROVE  \/ pub'.row[d] = pub.row[d]
                   \/ pub.row[d] = Nil /\ pub'.row[d].sequence = pub.sequence + 1
        <4>1. CASE OnlyActivity(me.previous, now)
          BY <2>1, <4>1
        <4>2. CASE ~OnlyActivity(me.previous, now)
          <5> DEFINE ids == PublishedIds(me.s, me.config, me.previous, now)
          <5>1. /\ pub'.row = PublishedRows(me.s, me.config, me.previous, now, ids)
                /\ ~Revised(me.s, me.config, me.previous, now, ids)
            BY <2>1, <2>2, <3>1, <4>2 DEF PublishedAs
          <5>2. /\ d \notin Updated(me.s, me.config, me.previous, now, ids)
                /\ d \notin Withdrawn(me.s, me.config, me.previous, now)
            BY <5>1 DEF Revised
          <5> DEFINE s == me.s
                     c == me.config
                     was == me.previous
                     rows == PublishedRows(s, c, was, now, ids)
          <5> HIDE DEF ids
          <5>r. rows[d] =
                  IF d \in Inserted(s, c, was, now) THEN NewRow(s, ids, d)
                  ELSE IF d \in Updated(s, c, was, now, ids) THEN Rewritten(pub.row[d], s, ids, d)
                  ELSE IF d \in Withdrawn(s, c, was, now) THEN [pub.row[d] EXCEPT !.withdrawn = TRUE]
                  ELSE pub.row[d]
            BY PublishedRowIs
          <5>q. pub'.row[d] = rows[d]
            BY <5>1
          <5> HIDE DEF rows
          <5>3. CASE d \in Inserted(me.s, me.config, me.previous, now)
            <6>1. pub'.row[d] = NewRow(me.s, ids, d)
              BY <5>r, <5>q, <5>3
            <6>2. QED
              BY <5>3, <6>1 DEF NewRow, Inserted
          <5>4. CASE d \notin Inserted(me.s, me.config, me.previous, now)
            BY <5>r, <5>q, <5>2, <5>4
          <5>5. QED
            BY <5>3, <5>4
        <4>3. QED
          BY <4>1, <4>2
      <3>4. QED
        BY <1>0, <2>2, <3>1, <3>2, <3>3, PagesStay
    <2>5. QED
      BY <1>0, <2>1, <2>2, <2>3, <2>4 DEF ReaderInv
  <1>3. CASE reader = Nil
    BY <1>0, <1>3 DEF ReaderInv
  <1>4. QED
    BY <1>1, <1>2, <1>3

LEMMA FirstPageIsOne ==
  ASSUME WellFormed, FirstPage
  PROVE  ReaderInv'
  <1> DEFINE rows == Feed(pub.row, pub.sequence)
             d == Next1(pub.row, rows)
  <1>0. /\ pub' = pub /\ rows # {} /\ RowsTyped /\ pub.revision \in Nat
        /\ reader' = [revision |-> pub.revision, high |-> pub.sequence, after |-> d,
                      got |-> {<<d, pub.row[d].content>>},
                      first |-> {<<e, pub.row[e].content>> : e \in rows}]
    BY DEF FirstPage, HighWater, WellFormed, StoreInv
  <1>1. rows \in SUBSET Decision /\ Dated(pub.row, rows) /\ pub.sequence \in Nat
    BY <1>0, FeedIsDated DEF Feed, RowsTyped
  <1> HIDE DEF rows
  <1>2. d \in rows /\ \A e \in rows : e = d \/ Newer(pub.row, d, e)
    BY <1>0, <1>1, Next1Is
  <1> HIDE DEF d
  <1>3. d # Nil
    BY <1>1, <1>2, KindAssumption, NilAssumption
  <1>4. ~Newer(pub.row, d, d)
    BY <1>1, <1>2, NewerOrders DEF Dated
  <1>5. rows \ Beyond(pub.row, pub.sequence, d) = {d}
    BY <1>2, <1>3, <1>4 DEF Beyond, rows
  <1>6. ReadOf(pub.row, rows \ Beyond(pub.row, pub.sequence, d)) = {<<d, pub.row[d].content>>}
    BY <1>5 DEF ReadOf
  <1>7. /\ DOMAIN reader' = {"revision", "high", "after", "got", "first"}
        /\ reader'.revision = pub.revision /\ reader'.high = pub.sequence /\ reader'.after = d
        /\ reader'.got = {<<d, pub.row[d].content>>}
        /\ reader'.first = ReadOf(pub.row, rows)
    BY <1>0 DEF ReadOf
  <1>8. Paging(reader)'
    BY <1>0, <1>1, <1>2, <1>6, <1>7 DEF Paging, rows
  <1>9. QED
    BY <1>0, <1>7, <1>8 DEF ReaderInv

LEMMA NextPageIsNext ==
  ASSUME WellFormed, ReaderInv, NextPage
  PROVE  ReaderInv'
  <1> DEFINE feed == Feed(pub.row, reader.high)
             rows == Beyond(pub.row, reader.high, reader.after)
             d == Next1(pub.row, rows)
             after == reader.after
  <1>0. /\ pub' = pub /\ rows # {} /\ RowsTyped /\ reader # Nil
        /\ reader.revision = pub.revision /\ pub.revision \in Nat
        /\ reader' = [reader EXCEPT !.after = d, !.got = @ \cup {<<d, pub.row[d].content>>}]
    BY DEF NextPage, WellFormed, StoreInv
  <1>1. /\ Paging(reader) /\ DOMAIN reader = {"revision", "high", "after", "got", "first"}
    BY <1>0 DEF ReaderInv
  <1>2. /\ reader'.after = d /\ reader'.got = reader.got \cup {<<d, pub.row[d].content>>}
        /\ reader'.high = reader.high /\ reader'.first = reader.first
        /\ reader'.revision = reader.revision
        /\ DOMAIN reader' = {"revision", "high", "after", "got", "first"}
    BY <1>0, <1>1
  <1>3. feed \in SUBSET Decision /\ Dated(pub.row, feed) /\ rows \subseteq feed
    BY <1>0, FeedIsDated DEF Feed, Beyond
  <1>4. after \in feed /\ after # Nil /\ reader.high \in Nat /\ reader.high <= pub.sequence
        /\ reader.first = ReadOf(pub.row, feed) /\ reader.got = ReadOf(pub.row, feed \ rows)
    BY <1>1, <1>3, KindAssumption, NilAssumption DEF Paging
  <1>5. \A e \in feed : e \in rows <=> Newer(pub.row, after, e)
    BY <1>4 DEF Beyond
  <1>6. \A e : e \in Beyond(pub.row, reader.high, d) <=> e \in feed /\ (d = Nil \/ Newer(pub.row, d, e))
    BY DEF Beyond
  <1> HIDE DEF feed, rows
  <1>7. d \in rows /\ \A e \in rows : e = d \/ Newer(pub.row, d, e)
    BY <1>0, <1>3, Next1Is DEF Dated
  <1> HIDE DEF d, after
  <1>8. d # Nil /\ d \in feed
    BY <1>3, <1>7, KindAssumption, NilAssumption
  <1>9. ASSUME NEW e \in feed
        PROVE  e \in Beyond(pub.row, reader.high, d) <=> e \in rows /\ e # d
    <2>1. /\ d \in Decision /\ e \in Decision /\ after \in Decision
          /\ pub.row[d].created \in Nat /\ pub.row[e].created \in Nat
          /\ pub.row[after].created \in Nat
      BY <1>3, <1>4, <1>8 DEF Dated
    <2>2. Newer(pub.row, after, d)
      BY <1>5, <1>7, <1>8
    <2>3. CASE e \in rows
      BY <1>6, <1>7, <1>8, <2>1, <2>3, NewerOrders
    <2>4. CASE e \notin rows
      <3>1. ~Newer(pub.row, after, e)
        BY <1>5, <2>4
      <3>2. ~Newer(pub.row, d, e)
        BY <2>1, <2>2, <3>1, NewerOrders
      <3>3. QED
        BY <1>6, <1>8, <2>4, <3>2
    <2>5. QED
      BY <2>3, <2>4
  <1>10. feed \ Beyond(pub.row, reader.high, d) = (feed \ rows) \cup {d}
    BY <1>8, <1>9
  <1>11. ReadOf(pub.row, (feed \ rows) \cup {d})
           = ReadOf(pub.row, feed \ rows) \cup {<<d, pub.row[d].content>>}
    BY DEF ReadOf
  <1>12. Paging(reader)'
    <2>1. reader'.got = ReadOf(pub.row, feed \ Beyond(pub.row, reader.high, d))
      BY <1>2, <1>4, <1>10, <1>11
    <2>2. QED
      BY <1>0, <1>2, <1>4, <1>8, <2>1 DEF Paging, feed
  <1>13. QED
    BY <1>0, <1>1, <1>2, <1>12 DEF ReaderInv

LEMMA NextKeepsPages ==
  ASSUME WellFormed, ReaderInv, [Next]_vars
  PROVE  ReaderInv'
  <1>1. CASE \E p \in scene.publishers : Commit(p)
    BY <1>1, CommitKeepsPages
  <1>2. CASE \E d \in Decision : Revoke(d)
    <2>1. pub'.revision = pub.revision + 1 /\ pub.revision \in Nat /\ reader' = reader
      BY <1>2, RevokeWellFormed DEF Revoke, WellFormed, StoreInv
    <2>2. reader # Nil => ~(reader.revision = pub'.revision) /\ reader.revision <= pub'.revision
      BY <2>1 DEF ReaderInv
    <2>3. QED
      BY <2>1, <2>2 DEF ReaderInv
  <1>3. CASE FirstPage
    BY <1>3, FirstPageIsOne
  <1>4. CASE NextPage
    BY <1>4, NextPageIsNext
  <1>5. CASE EndOfPages
    BY <1>5 DEF EndOfPages, ReaderInv
  <1>6. CASE UNCHANGED <<pub, reader>>
    BY <1>6 DEF ReaderInv, Paging
  <1>7. CASE \E p \in scene.publishers : Open(p) \/ Die(p) \/ \E b \in BOOLEAN : Compare(p, b)
    BY <1>6, <1>7 DEF Open, Die, Compare
  <1>8. CASE Trade \/ Author \/ Runs \/ Schedule
    BY <1>6, <1>8, WritesAreSteps DEF SourceStep, WellFormed, WorldInv
  <1>9. CASE NextDay \/ Reconfigure \/ UNCHANGED vars
    BY <1>6, <1>9 DEF NextDay, Reconfigure, vars
  <1>10. QED
    BY <1>1, <1>2, <1>3, <1>4, <1>5, <1>7, <1>8, <1>9 DEF Next

(* Who pages through the feed and is never told to start again reads each  *)
(* decision of the feed of the first page once, as it was then: whatever   *)
(* is published in between, and for a feed of any length.                  *)
THEOREM PagesAgree == FairSpec => []PagesAreOneSnapshot
  <1>1. Init => WellFormed /\ ReaderInv
    BY InitWellFormed DEF Init, ReaderInv
  <1>2. WellFormed /\ ReaderInv /\ [Next]_vars => WellFormed' /\ ReaderInv'
    BY NextWellFormed, NextKeepsPages
  <1>3. ReaderInv => PagesAreOneSnapshot
    BY DEF ReaderInv, Paging, PagesAreOneSnapshot, ReadOf
  <1>4. QED
    BY <1>1, <1>2, <1>3, PTL DEF FairSpec, Spec

-----------------------------------------------------------------------------
(* What of the activity is there, and by which ids.                        *)
LEMMA ActivityThere ==
  ASSUME NEW s \in Source, NEW i \in Item, NEW c \in BOOLEAN
  PROVE  /\ i[1] = "runtime" => (Activity(s, i, c) # Nil <=> i[2] \in s.wrapped /\ c)
         /\ i[1] = "legacy" => (Activity(s, i, c) # Nil <=> i[2] \in s.prepared \ s.wrapped /\ c)
         /\ i[1] # "runtime" /\ i[1] # "legacy" =>
              (Activity(s, i, c) # Nil <=> s.occurrence[i[2]] = "skipped" /\ c)
  <1>0. Nil \notin Activities
    BY NilAssumption
  <1>1. CASE i[1] = "runtime"
    <2>1. i[2] \in Run
      BY <1>1, ItemParts
    <2>2. [status |-> IF s.attempt[i[2]] = "none" THEN "prepared" ELSE s.attempt[i[2]],
           beats |-> s.beats[i[2]], weighed |-> s.weighed[i[2]]] \in Activities
      BY <2>1 DEF Source, Activities
    <2>3. QED
      BY <1>0, <1>1, <2>2 DEF Activity
  <1>2. CASE i[1] = "legacy"
    <2>1. [status |-> IF i[2] \in s.completed THEN "completed" ELSE "prepared"] \in Activities
      BY DEF Activities
    <2>2. QED
      BY <1>0, <1>2, <2>1 DEF Activity
  <1>3. CASE i[1] # "runtime" /\ i[1] # "legacy"
    <2>1. [status |-> "skipped"] \in Activities
      BY DEF Activities
    <2>2. QED
      BY <1>0, <1>3, <2>1 DEF Activity
  <1>4. QED
    BY <1>1, <1>2, <1>3

(* An id is of the item itself, or of the reasoning run that it wraps; and *)
(* only what is in the source has one.                                     *)
IdOfItem(ids, s, i) ==
  CASE i[1] = "runtime" -> /\ ids[i] \in {i, LegacyOf(i)} /\ i[2] \in s.wrapped
                           /\ ids[LegacyOf(i)] # Nil => ids[i] = ids[LegacyOf(i)]
    [] i[1] = "legacy" -> ids[i] = i /\ i[2] \in s.prepared
    [] OTHER -> ids[i] = i

IdsOf(ids, s) == \A i \in Item : ids[i] # Nil => IdOfItem(ids, s, i)

LEMMA IdsOfLater ==
  ASSUME NEW ids, NEW s, NEW t, IdsOf(ids, s), Since(s, t)
  PROVE  IdsOf(ids, t)
  BY DEF IdsOf, IdOfItem, Since, Grows

LEMMA MaterializedIs ==
  ASSUME NEW s \in Source, NEW c \in BOOLEAN, NEW was, NEW now,
         NEW i \in Materialized(s, c, was, now)
  PROVE  /\ i \in Item /\ i \in Touched(s, was, now) /\ Activity(s, i, c) # Nil
         /\ i[1] = "runtime" => i[2] \in s.wrapped
         /\ i[1] = "legacy" => i[2] \in s.prepared \ s.wrapped
  BY ActivityThere DEF Materialized, Touched

LEMMA PublishedIdsOf ==
  ASSUME NEW s \in Source, NEW c \in BOOLEAN, NEW was, NEW now,
         pub.ids \in [Item -> Item \cup {Nil}], IdsOf(pub.ids, s)
  PROVE  IdsOf(PublishedIds(s, c, was, now), s)
  <1> DEFINE ids == PublishedIds(s, c, was, now)
             written == Materialized(s, c, was, now)
  <1>1. \A i \in Item : ids[i] = IF i \in written THEN IdOf(pub.ids, i) ELSE pub.ids[i]
    BY DEF PublishedIds
  <1>2. \A i \in Item : i \in written =>
          /\ i[1] = "runtime" => i[2] \in s.wrapped
          /\ i[1] = "legacy" => i[2] \in s.prepared \ s.wrapped
    BY MaterializedIs
  <1> HIDE DEF ids, written
  <1> SUFFICES ASSUME NEW i \in Item, ids[i] # Nil PROVE IdOfItem(ids, s, i)
    BY DEF IdsOf, ids
  <1>3. pub.ids[i] # Nil => IdOfItem(pub.ids, s, i)
    BY DEF IdsOf
  <1>4. CASE i[1] = "runtime"
    <2> DEFINE l == LegacyOf(i)
    <2>1. l \in Item /\ l[1] = "legacy" /\ l[2] = i[2] /\ l # i /\ Nil \notin Item
      BY <1>4, ItemParts, NilAssumption DEF LegacyOf
    <2>2. pub.ids[l] # Nil => pub.ids[l] = l
      BY <2>1 DEF IdsOf, IdOfItem
    <2>3. i[2] \in s.wrapped
      BY <1>1, <1>2, <1>3, <1>4 DEF IdOfItem
    <2>4. l \notin written
      BY <1>2, <2>1, <2>3
    <2>5. ids[l] = pub.ids[l]
      BY <1>1, <2>1, <2>4
    <2> HIDE DEF l
    <2>6. ids[i] \in {i, l} /\ (ids[l] # Nil => ids[i] = ids[l])
      <3>1. CASE pub.ids[i] # Nil
        <4>1. ids[i] = pub.ids[i]
          BY <1>1, <3>1 DEF IdOf
        <4>2. QED
          BY <1>3, <1>4, <2>5, <3>1, <4>1 DEF IdOfItem, l
      <3>2. CASE pub.ids[i] = Nil
        <4>1. ids[i] = IF pub.ids[l] # Nil THEN pub.ids[l] ELSE i
          BY <1>1, <1>4, <3>2 DEF IdOf, l
        <4>2. QED
          BY <2>2, <2>5, <4>1
      <3>3. QED
        BY <3>1, <3>2
    <2>7. QED
      BY <1>4, <2>3, <2>6 DEF IdOfItem, l
  <1>5. CASE i[1] = "legacy"
    <2>1. ids[i] = i
      BY <1>1, <1>3, <1>5 DEF IdOf, IdOfItem
    <2>2. i[2] \in s.prepared
      BY <1>1, <1>2, <1>3, <1>5 DEF IdOfItem
    <2>3. QED
      BY <1>5, <2>1, <2>2 DEF IdOfItem
  <1>6. CASE i[1] # "runtime" /\ i[1] # "legacy"
    <2>1. ids[i] = i
      BY <1>1, <1>3, <1>6 DEF IdOf, IdOfItem
    <2>2. QED
      BY <1>6, <2>1 DEF IdOfItem
  <1>7. QED
    BY <1>4, <1>5, <1>6

(* Of ids that are of its own source no row is refused.                    *)
LEMMA NoneRefused ==
  ASSUME NEW s \in Source, NEW c \in BOOLEAN, NEW was, NEW now,
         pub.ids \in [Item -> Item \cup {Nil}], IdsOf(pub.ids, s), ItemsOK(pub.item, pub.ids)
  PROVE  ~Refused(s, c, was, now)
  <1> DEFINE ids == PublishedIds(s, c, was, now)
             written == Materialized(s, c, was, now)
             there == {j \in Item : pub.item[j] # Nil} \ Superseded(written)
  <1>1. IdsOf(ids, s) /\ IdsGrow(pub.ids, ids) /\ \A i \in written : ids[i] \in Item
    BY PublishedIdsOf, PublishedIdsGrow
  <1>2. \A i \in Item : i \in written =>
          /\ i[1] = "runtime" => i[2] \in s.wrapped
          /\ i[1] = "legacy" => i[2] \in s.prepared \ s.wrapped
    BY MaterializedIs
  <1>3. written \subseteq Item
    BY DEF Materialized, Touched
  <1> SUFFICES ASSUME NEW i \in written, NEW j \in written \cup there, i # j, ids[i] = ids[j]
               PROVE  FALSE
    BY DEF Refused
  <1>4. \A k \in written : k[1] = "runtime" => LegacyOf(k) \in Superseded(written)
    BY DEF Superseded
  <1>5. \A k \in there : k \in Item /\ pub.ids[k] # Nil /\ k \notin Superseded(written)
    <2> SUFFICES ASSUME NEW k \in there PROVE k \in Item /\ pub.ids[k] # Nil /\ k \notin Superseded(written)
      OBVIOUS
    <2>1. k \in Item /\ pub.item[k] # Nil /\ pub.item[k] \in PublicItem
      BY DEF ItemsOK
    <2>2. pub.ids[k] = pub.item[k].id
      BY <2>1 DEF ItemsOK
    <2>3. pub.ids[k] \in Item
      BY <2>1, <2>2 DEF PublicItem
    <2>4. QED
      BY <2>1, <2>3, NilAssumption
  <1> HIDE DEF ids, written, there
  <1>6. /\ i \in Item /\ j \in Item /\ ids[i] # Nil /\ ids[j] # Nil
        /\ IdOfItem(ids, s, i) /\ IdOfItem(ids, s, j)
    BY <1>1, <1>3, <1>5, NilAssumption DEF IdsOf
  <1>7. /\ i = <<i[1], i[2]>> /\ j = <<j[1], j[2]>>
        /\ LegacyOf(i) = <<"legacy", i[2]>> /\ LegacyOf(j) = <<"legacy", j[2]>>
    BY <1>6, ItemParts DEF LegacyOf
  <1>8. \/ i[1] = "runtime" /\ j = LegacyOf(i)
        \/ j[1] = "runtime" /\ i = LegacyOf(j)
    BY <1>6, <1>7 DEF IdOfItem
  <1>9. CASE i[1] = "runtime" /\ j = LegacyOf(i)
    <2>1. i[2] \in s.wrapped /\ j[1] = "legacy" /\ j[2] = i[2]
      BY <1>6, <1>7, <1>9 DEF IdOfItem
    <2>2. j \in there
      BY <1>2, <1>6, <2>1
    <2>3. QED
      BY <1>4, <1>5, <1>9, <2>2
  <1>10. CASE j[1] = "runtime" /\ i = LegacyOf(j)
    <2>1. j[2] \in s.wrapped /\ i[1] = "legacy" /\ i[2] = j[2]
      BY <1>6, <1>7, <1>10 DEF IdOfItem
    <2>2. QED
      BY <1>2, <1>6, <2>1
  <1>11. QED
    BY <1>8, <1>9, <1>10

-----------------------------------------------------------------------------
(* A store that reflects a source.                                         *)
MirrorsItem(item, s, i, c) ==
  IF Activity(s, i, c) = Nil THEN item = Nil
  ELSE item # Nil /\ Settled(item.content) = Settled(Activity(s, i, c))

MirrorsRow(row, s, d, c) ==
  IF Eligible(s, d, c) THEN row # Nil /\ ~row.withdrawn /\ Untraced(row.content) = Untraced(Content(s, d))
  ELSE row = Nil \/ row.withdrawn

Mirrors(s) ==
  LET c == pub.checkpoint.identity
      today == pub.checkpoint.clock
  IN /\ pub.checkpoint = Checkpoint(s, c, today)
     /\ \A i \in Item : MirrorsItem(pub.item[i], s, i, c)
     /\ \A d \in Decision : MirrorsRow(pub.row[d], s, d, c)
     /\ pub.book = [x \in Scope |-> Book(s, x, c, today)]
     /\ pub.board = Board(s, pub.item)

LEMMA SettledIs ==
  ASSUME NEW s \in Source, NEW t \in Source, NEW i \in Item, NEW c \in BOOLEAN,
         SameItem(s, t, i), i[1] = "legacy" => (i[2] \in t.wrapped <=> i[2] \in s.wrapped)
  PROVE  /\ Activity(t, i, c) = Nil <=> Activity(s, i, c) = Nil
         /\ Settled(Activity(t, i, c)) = Settled(Activity(s, i, c))
  <1>1. Activity(t, i, c) = Nil <=> Activity(s, i, c) = Nil
    BY ActivityThere DEF SameItem
  <1>2. CASE i[1] = "runtime"
    <2> DEFINE r == i[2]
               a == [status |-> IF s.attempt[r] = "none" THEN "prepared" ELSE s.attempt[r],
                     beats |-> s.beats[r], weighed |-> s.weighed[r]]
               b == [status |-> IF t.attempt[r] = "none" THEN "prepared" ELSE t.attempt[r],
                     beats |-> t.beats[r], weighed |-> t.weighed[r]]
    <2>1. r \in Run /\ (r \in t.wrapped <=> r \in s.wrapped)
          /\ t.attempt[r] = s.attempt[r] /\ t.beats[r] = s.beats[r]
          /\ (t.weighed[r] = s.weighed[r] \/ s.attempt[r] = "running")
      BY <1>2, ItemParts DEF SameItem
    <2>2. a \in Activities /\ b \in Activities /\ Nil \notin Activities
      BY <2>1, NilAssumption DEF Source, Activities
    <2>3. Settled(b) = Settled(a)
      <3>1. CASE s.attempt[r] = "running"
        <4>1. a.status = "running" /\ b.status = "running"
          BY <2>1, <3>1
        <4>2. [b EXCEPT !.weighed = Nil] = [a EXCEPT !.weighed = Nil]
          BY <2>1
        <4>3. QED
          BY <2>2, <4>1, <4>2 DEF Settled
      <3>2. CASE s.attempt[r] # "running"
        BY <2>1, <3>2
      <3>3. QED
        BY <3>1, <3>2
    <2>4. /\ Activity(s, i, c) = IF r \in s.wrapped /\ c THEN a ELSE Nil
          /\ Activity(t, i, c) = IF r \in t.wrapped /\ c THEN b ELSE Nil
      BY <1>2 DEF Activity
    <2>5. QED
      BY <1>1, <2>1, <2>3, <2>4
  <1>3. CASE i[1] = "legacy"
    BY <1>1, <1>3 DEF Activity, SameItem
  <1>4. CASE i[1] # "runtime" /\ i[1] # "legacy"
    BY <1>1, <1>4 DEF Activity, SameItem
  <1>5. QED
    BY <1>1, <1>2, <1>3, <1>4

(* Whether an item that no counter names is still what it was.             *)
LEMMA UntouchedItem ==
  ASSUME NEW s, SourceOK(s), NEW t, SourceOK(t), Since(s, t), NEW i \in Item, NEW c \in BOOLEAN,
         t.dirty[i] <= s.count.activity,
         i[1] = "legacy" => t.dirty[RuntimeOf(i)] <= s.count.activity
  PROVE  /\ Activity(t, i, c) = Nil <=> Activity(s, i, c) = Nil
         /\ Settled(Activity(t, i, c)) = Settled(Activity(s, i, c))
  <1>1. SameItem(s, t, i)
    BY DEF Since, ItemsSince
  <1>2. i[1] = "legacy" => (i[2] \in t.wrapped <=> i[2] \in s.wrapped)
    <2> SUFFICES ASSUME i[1] = "legacy" PROVE i[2] \in t.wrapped <=> i[2] \in s.wrapped
      OBVIOUS
    <2>1. SameItem(s, t, RuntimeOf(i))
      BY ItemParts DEF Since, ItemsSince
    <2>2. QED
      BY <2>1 DEF SameItem, RuntimeOf
  <1>3. QED
    BY <1>1, <1>2, SettledIs DEF SourceOK

LEMMA PublishedItemsMirror ==
  ASSUME NEW s, SourceOK(s), NEW t, SourceOK(t), Since(s, t), NEW c \in BOOLEAN, NEW was, NEW now,
         Continues(was, now) =>
           was.activity = s.count.activity /\ \A i \in Item : MirrorsItem(pub.item[i], s, i, c),
         pub.ids \in [Item -> Item \cup {Nil}], NEW i \in Item
  PROVE  MirrorsItem(PublishedItems(t, c, was, now)[i], t, i, c)
  <1> DEFINE written == Materialized(t, c, was, now)
             touched == Touched(t, was, now)
             item == PublishedItems(t, c, was, now)[i]
  <1>0. s \in Source /\ t \in Source
    BY DEF SourceOK
  <1>1. item = IF i \in written THEN [id |-> IdOf(pub.ids, i), content |-> Activity(t, i, c)]
               ELSE IF i \in Superseded(written) \cup touched THEN Nil ELSE pub.item[i]
    BY PublishedItemIs
  <1>2. i \in written <=> i \in touched /\ Activity(t, i, c) # Nil
    BY DEF Materialized
  <1>3. touched = IF Continues(was, now) THEN {j \in Item : t.dirty[j] > was.activity} ELSE Item
    BY DEF Touched
  <1>4. i \in Superseded(written) => Activity(t, i, c) = Nil
    <2> SUFFICES ASSUME i \in Superseded(written) PROVE Activity(t, i, c) = Nil
      OBVIOUS
    <2>1. PICK j \in written : j[1] = "runtime" /\ i = LegacyOf(j)
      BY DEF Superseded
    <2>2. j[2] \in t.wrapped /\ i[1] = "legacy" /\ i[2] = j[2]
      BY <1>0, <2>1, MaterializedIs DEF LegacyOf
    <2>3. QED
      BY <1>0, <2>2, ActivityThere
  <1>5. i[1] = "legacy" => RuntimeOf(i) \in Item /\ LegacyOf(RuntimeOf(i)) = i
                           /\ RuntimeOf(i)[1] = "runtime" /\ RuntimeOf(i)[2] = i[2]
    BY ItemParts DEF RuntimeOf, LegacyOf
  <1>6. i[1] = "legacy" /\ RuntimeOf(i) \in written => i \in Superseded(written)
    BY <1>5 DEF Superseded
  <1>7. i[1] = "legacy" => (RuntimeOf(i) \in written <=>
                              RuntimeOf(i) \in touched /\ Activity(t, RuntimeOf(i), c) # Nil)
    BY DEF Materialized
  <1>t. t.dirty[i] \in Nat /\ s.count.activity \in Nat
        /\ (i[1] = "legacy" => t.dirty[RuntimeOf(i)] \in Nat)
    BY <1>0, <1>5, CountersTyped
  <1> HIDE DEF written, touched, item
  <1>8. CASE i \in written
    <2>1. item = [id |-> IdOf(pub.ids, i), content |-> Activity(t, i, c)]
          /\ Activity(t, i, c) # Nil
      BY <1>1, <1>2, <1>8
    <2>2. IdOf(pub.ids, i) \in Item /\ Activity(t, i, c) \in Activities
      BY <1>0, <2>1, ItemParts, ActivityTyped DEF IdOf
    <2>3. item \in PublicItem /\ item.content = Activity(t, i, c)
      BY <2>1, <2>2 DEF PublicItem
    <2>4. QED
      BY <2>1, <2>3, NilAssumption DEF MirrorsItem, item
  <1>9. CASE i \notin written /\ i \in Superseded(written) \cup touched
    BY <1>1, <1>2, <1>4, <1>9 DEF MirrorsItem, item
  <1>10. CASE i \notin written /\ i \notin Superseded(written) \cup touched
    <2>1. Continues(was, now) /\ was.activity = s.count.activity /\ t.dirty[i] <= s.count.activity
      BY <1>3, <1>10, <1>t
    <2>2. item = pub.item[i] /\ MirrorsItem(pub.item[i], s, i, c)
      BY <1>1, <1>10, <2>1
    <2>3. CASE i[1] = "legacy" => t.dirty[RuntimeOf(i)] <= s.count.activity
      <3>1. /\ Activity(t, i, c) = Nil <=> Activity(s, i, c) = Nil
            /\ Settled(Activity(t, i, c)) = Settled(Activity(s, i, c))
        BY <2>1, <2>3, UntouchedItem
      <3>2. QED
        BY <2>2, <3>1 DEF MirrorsItem, item
    <2>4. CASE i[1] = "legacy" /\ ~(t.dirty[RuntimeOf(i)] <= s.count.activity)
      <3>1. RuntimeOf(i) \in touched
        BY <1>3, <1>5, <1>t, <2>1, <2>4
      <3>2. Activity(t, RuntimeOf(i), c) = Nil
        BY <1>6, <1>7, <1>10, <2>4, <3>1
      <3>3. ~(i[2] \in t.wrapped /\ c)
        BY <1>0, <1>5, <2>4, <3>2, ActivityThere
      <3>4. i[2] \in s.wrapped => i[2] \in t.wrapped
        BY DEF Since, Grows
      <3>5. SameItem(s, t, i)
        BY <2>1 DEF Since, ItemsSince
      <3>6. CASE ~c
        BY <1>0, <2>2, <2>4, <3>6, ActivityThere DEF MirrorsItem, item
      <3>7. CASE c
        <4>1. i[2] \in t.wrapped <=> i[2] \in s.wrapped
          BY <3>3, <3>4, <3>7
        <4>2. /\ Activity(t, i, c) = Nil <=> Activity(s, i, c) = Nil
              /\ Settled(Activity(t, i, c)) = Settled(Activity(s, i, c))
          BY <1>0, <3>5, <4>1, SettledIs
        <4>3. QED
          BY <2>2, <4>2 DEF MirrorsItem, item
      <3>8. QED
        BY <3>6, <3>7
    <2>5. QED
      BY <2>3, <2>4
  <1>11. QED
    BY <1>8, <1>9, <1>10 DEF item

LEMMA SameProjection ==
  ASSUME NEW s, NEW t, NEW d \in Decision, SameDecision(s, t, d), NEW c
  PROVE  Untraced(Content(t, d)) = Untraced(Content(s, d)) /\ (Eligible(t, d, c) <=> Eligible(s, d, c))
  <1>1. Eligible(t, d, c) <=> Eligible(s, d, c)
    BY DEF SameDecision, Eligible
  <1>2. Lifecycle(t, d) = Lifecycle(s, d) /\ Claims(t, d) = Claims(s, d)
    BY DEF SameDecision, Lifecycle, Latest, Claims
  <1>3. (d \in t.filled) = (d \in s.filled)
    BY DEF SameDecision
  <1>4. QED
    BY <1>1, <1>2, <1>3 DEF Content, Untraced, SameDecision

LEMMA PublishedRowsMirror ==
  ASSUME RowsTyped, NEW s, SourceOK(s), NEW t, SourceOK(t), Since(s, t), NEW c \in BOOLEAN,
         NEW was, NEW now, NEW ids \in [Item -> Item \cup {Nil}],
         Continues(was, now) =>
           was.details = s.count.details /\ \A d \in Decision : MirrorsRow(pub.row[d], s, d, c),
         NEW d \in Decision
  PROVE  MirrorsRow(PublishedRows(t, c, was, now, ids)[d], t, d, c)
  <1> DEFINE row == PublishedRows(t, c, was, now, ids)[d]
             mine == pub.row[d]
             selected == Selected(t, was, now)
  <1>0. s \in Source /\ t \in Source
    BY DEF SourceOK
  <1>1. row = IF d \in Inserted(t, c, was, now) THEN NewRow(t, ids, d)
              ELSE IF d \in Updated(t, c, was, now, ids) THEN Rewritten(mine, t, ids, d)
              ELSE IF d \in Withdrawn(t, c, was, now) THEN [mine EXCEPT !.withdrawn = TRUE]
              ELSE mine
    BY PublishedRowIs
  <1>2. /\ d \in Inserted(t, c, was, now) <=>
             d \in selected /\ Eligible(t, d, c) /\ mine = Nil
        /\ d \in Updated(t, c, was, now, ids) <=>
             d \in selected /\ Eligible(t, d, c) /\ mine # Nil /\ ~Same(mine, t, ids, d)
        /\ d \in Withdrawn(t, c, was, now) <=>
             d \in selected /\ ~Eligible(t, d, c) /\ mine # Nil /\ ~mine.withdrawn
    BY DEF Inserted, Updated, Withdrawn, Seen
  <1>3. selected = IF Partial(was, now, t) THEN {e \in Decision : t.changed[e] > was.details}
                   ELSE Decision
    BY DEF Selected
  <1>4. mine \in PublicRow \cup {Nil} /\ Nil \notin PublicRow
    BY NilAssumption DEF RowsTyped
  <1> HIDE DEF row, mine, selected
  <1>5. CASE d \in selected /\ Eligible(t, d, c) /\ mine = Nil
    <2>1. row = NewRow(t, ids, d)
      BY <1>1, <1>2, <1>5
    <2>2. row.content = Content(t, d) /\ row.withdrawn = FALSE
      BY <2>1 DEF NewRow
    <2>3. t.decided[d] \in Nat
      BY <1>0, <1>5 DEF Eligible, Source
    <2>4. row \in PublicRow
      BY <1>0, <2>1, <2>3, ContentTyped, RunLinkIsALink DEF NewRow, PublicRow, RowsTyped
    <2>5. QED
      BY <1>4, <1>5, <2>2, <2>4 DEF MirrorsRow, row
  <1>6. CASE d \in selected /\ Eligible(t, d, c) /\ mine # Nil
    <2>1. mine \in PublicRow
      BY <1>4, <1>6
    <2>2. CASE Same(mine, t, ids, d)
      BY <1>1, <1>2, <1>6, <2>2 DEF MirrorsRow, Same, row
    <2>3. CASE ~Same(mine, t, ids, d)
      <3>1. row = Rewritten(mine, t, ids, d)
        BY <1>1, <1>2, <1>6, <2>3
      <3>2. row \in PublicRow /\ row.content = Content(t, d) /\ row.withdrawn = FALSE
        BY <1>0, <2>1, <3>1, RewrittenIs
      <3>3. QED
        BY <1>4, <1>6, <3>2 DEF MirrorsRow, row
    <2>4. QED
      BY <2>2, <2>3
  <1>7. CASE d \in selected /\ ~Eligible(t, d, c)
    <2>1. CASE mine # Nil /\ ~mine.withdrawn
      <3>1. row = [mine EXCEPT !.withdrawn = TRUE]
        BY <1>1, <1>2, <1>7, <2>1
      <3>2. row.withdrawn = TRUE
        BY <1>4, <2>1, <3>1, WithdrawnIs
      <3>3. QED
        BY <1>7, <3>2 DEF MirrorsRow, row
    <2>2. CASE mine = Nil \/ mine.withdrawn
      <3>1. row = mine
        BY <1>1, <1>2, <1>7, <2>2
      <3>2. QED
        BY <1>7, <2>2, <3>1 DEF MirrorsRow, row
    <2>3. QED
      BY <2>1, <2>2
  <1>8. CASE d \notin selected
    <2>1. row = mine
      BY <1>1, <1>2, <1>8
    <2>2. Partial(was, now, t) /\ ~(t.changed[d] > was.details)
      BY <1>3, <1>8
    <2>3. /\ was.details = s.count.details /\ t.rebuilt <= was.details
          /\ MirrorsRow(mine, s, d, c)
      BY <2>2 DEF Partial, mine
    <2>4. t.changed[d] <= s.count.details /\ t.rebuilt <= s.count.details
      BY <1>0, <2>2, <2>3, CountersTyped
    <2>5. SameDecision(s, t, d)
      BY <2>4 DEF Since, DecisionsSince
    <2>6. QED
      BY <2>1, <2>3, <2>5, SameProjection DEF MirrorsRow, row
  <1>9. QED
    BY <1>5, <1>6, <1>7, <1>8

(* What a publication writes reflects its snapshot.                        *)
LEMMA CommitMirrors ==
  ASSUME WellFormed, NEW p \in scene.publishers, Commit(p), ~RefusedNow(publisher[p]),
         NEW me, me = publisher[p], me.previous \in {Nil, pub.checkpoint},
         NEW s, SourceOK(s), Since(s, me.s), IdsOf(pub.ids, s),
         pub.checkpoint # Nil => Mirrors(s)
  PROVE  Mirrors(me.s)' /\ IdsOf(pub'.ids, me.s)
  <1> DEFINE t == me.s
             c == me.config
             was == me.previous
             today == me.day
             now == Checkpoint(t, c, today)
             ids == PublishedIds(t, c, was, now)
  <1>0. /\ PublisherOK(me) /\ now \in Checkpoints
        /\ PublishedAs(pub', t, c, was, now, today)
    BY CommitIs
  <1>1. /\ t \in Source /\ SourceOK(t) /\ s \in Source /\ c \in BOOLEAN /\ today \in Nat
        /\ was \in Checkpoints \cup {Nil}
    BY <1>0 DEF PublisherOK, Publishers, SourceOK
  <1>2. /\ now.identity = c /\ now.clock = today /\ now.details = t.count.details
        /\ now.performance = t.count.performance /\ now.activity = t.count.activity
    BY DEF Checkpoint
  <1>3. /\ pub'.ids = ids /\ pub'.item = PublishedItems(t, c, was, now)
        /\ pub'.board = Board(t, pub'.item) /\ pub'.checkpoint = now
        /\ IF OnlyActivity(was, now) THEN pub'.row = pub.row
           ELSE pub'.row = PublishedRows(t, c, was, now, ids)
        /\ pub'.book = IF ~OnlyActivity(was, now) /\ PerformanceChanged(was, now)
                       THEN [x \in Scope |-> Book(t, x, c, today)] ELSE pub.book
    BY <1>0 DEF PublishedAs
  <1>4. /\ s.count.details <= t.count.details /\ s.count.performance <= t.count.performance
        /\ s.count.activity <= t.count.activity
    BY SectionNames DEF Since, CountersGrow
  <1> DEFINE Follows == /\ was.identity = c
                        /\ was = Checkpoint(s, c, was.clock)
                        /\ \A i \in Item : MirrorsItem(pub.item[i], s, i, c)
                        /\ \A d \in Decision : MirrorsRow(pub.row[d], s, d, c)
                        /\ pub.book = [x \in Scope |-> Book(s, x, c, was.clock)]
  <1>5. was # Nil /\ was.identity = c => Follows
    BY DEF Mirrors
  <1>6. Follows => /\ was.details = s.count.details /\ was.performance = s.count.performance
                   /\ was.activity = s.count.activity
    BY DEF Checkpoint
  <1> HIDE DEF now, Follows, t, c, was, today
  <1>7. Continues(was, now) => Follows
    BY <1>2, <1>5 DEF Continues
  <1>8. OnlyActivity(was, now) =>
          /\ Follows /\ was.details = now.details /\ was.performance = now.performance
          /\ was.clock = now.clock
    <2> SUFFICES ASSUME OnlyActivity(was, now)
                 PROVE  /\ Follows /\ was.details = now.details
                        /\ was.performance = now.performance /\ was.clock = now.clock
      OBVIOUS
    <2>1. was \in Checkpoints /\ was # Nil
      BY <1>1 DEF OnlyActivity
    <2>2. [now EXCEPT !.activity = 0] = [was EXCEPT !.activity = 0]
      BY DEF OnlyActivity
    <2>3. /\ was.identity = now.identity /\ was.details = now.details
          /\ was.performance = now.performance /\ was.clock = now.clock
      BY <1>0, <2>1, <2>2 DEF Checkpoints
    <2>4. QED
      BY <1>2, <1>5, <2>1, <2>3
  <1>9. pub.ids \in [Item -> Item \cup {Nil}] /\ RowsTyped
    BY DEF WellFormed, StoreInv
  <1>10. IdsOf(pub'.ids, t)
    <2>1. IdsOf(pub.ids, t)
      BY IdsOfLater DEF t
    <2>2. QED
      BY <1>1, <1>3, <1>9, <2>1, PublishedIdsOf
  <1>11. ASSUME NEW i \in Item PROVE MirrorsItem(pub'.item[i], t, i, c)
    <2>1. Continues(was, now) =>
            was.activity = s.count.activity /\ \A j \in Item : MirrorsItem(pub.item[j], s, j, c)
      BY <1>6, <1>7 DEF Follows
    <2>2. QED
      BY <1>1, <1>3, <1>9, <2>1, PublishedItemsMirror DEF t
  <1>12. ASSUME NEW d \in Decision PROVE MirrorsRow(pub'.row[d], t, d, c)
    <2>1. CASE OnlyActivity(was, now)
      <3>1. t.count.details = s.count.details /\ MirrorsRow(pub.row[d], s, d, c)
        BY <1>2, <1>6, <1>8, <2>1 DEF Follows
      <3>2. t.changed[d] <= s.count.details /\ t.rebuilt <= s.count.details
        BY <1>1, <3>1 DEF SourceOK, Counted
      <3>3. SameDecision(s, t, d)
        BY <3>2 DEF Since, DecisionsSince, t
      <3>4. pub'.row = pub.row
        BY <1>3, <2>1
      <3>5. QED
        BY <3>1, <3>3, <3>4, SameProjection DEF MirrorsRow
    <2>2. CASE ~OnlyActivity(was, now)
      <3>1. Continues(was, now) =>
              was.details = s.count.details /\ \A e \in Decision : MirrorsRow(pub.row[e], s, e, c)
        BY <1>6, <1>7 DEF Follows
      <3>2. ids \in [Item -> Item \cup {Nil}]
        BY <1>9, PublishedIdsGrow
      <3>3. pub'.row = PublishedRows(t, c, was, now, ids)
        BY <1>3, <2>2
      <3> HIDE DEF ids
      <3>4. QED
        BY <1>1, <1>9, <3>1, <3>2, <3>3, PublishedRowsMirror DEF t
    <2>3. QED
      BY <2>1, <2>2
  <1>13. pub'.book = [x \in Scope |-> Book(t, x, c, today)]
    <2>1. CASE OnlyActivity(was, now) \/ ~PerformanceChanged(was, now)
      <3>1. Follows /\ was.performance = now.performance /\ was.clock = now.clock
        BY <1>7, <1>8, <2>1 DEF PerformanceChanged
      <3>2. t.count.performance = s.count.performance /\ was.clock = today
        BY <1>2, <1>6, <3>1
      <3>3. SameBook(s, t)
        BY <3>2 DEF Since, RestSince, t
      <3>4. \A x \in Scope : Book(s, x, c, today) = Book(t, x, c, today)
        BY <3>3 DEF SameBook, Book
      <3>5. pub'.book = pub.book
        BY <1>3, <2>1
      <3>6. pub.book = [x \in Scope |-> Book(s, x, c, today)]
        BY <3>1, <3>2 DEF Follows
      <3>7. QED
        BY <3>4, <3>5, <3>6
    <2>2. CASE ~OnlyActivity(was, now) /\ PerformanceChanged(was, now)
      BY <1>3, <2>2
    <2>3. QED
      BY <2>1, <2>2
  <1>14. Mirrors(t)'
    <2>1. pub'.checkpoint = now /\ now.identity = c /\ now.clock = today
          /\ now = Checkpoint(t, c, today)
      BY <1>2, <1>3 DEF now
    <2>2. pub'.board = Board(t, pub'.item)
      BY <1>3
    <2>3. QED
      BY <1>11, <1>12, <1>13, <2>1, <2>2 DEF Mirrors, t
  <1>15. QED
    BY <1>10, <1>14 DEF t

-----------------------------------------------------------------------------
(* Of one publisher at a time the store reflects a source that is not      *)
(* later than the snapshot of who publishes next.                          *)
Reflects(s) ==
  /\ SourceOK(s) /\ Since(s, src)
  /\ \A p \in DOMAIN publisher : publisher[p] # Nil => Since(s, publisher[p].s)
  /\ IdsOf(pub.ids, s) /\ (pub.checkpoint # Nil => Mirrors(s))

OneAtWork ==
  \A p, q \in DOMAIN publisher : publisher[p] # Nil /\ publisher[q] # Nil => p = q

FromCheckpoint ==
  \A p \in DOMAIN publisher :
    publisher[p] # Nil /\ publisher[p].at = "compared" => publisher[p].previous \in {Nil, pub.checkpoint}

AloneInv ==
  /\ \A p \in DOMAIN publisher : publisher[p] # Nil => p \in scene.publishers
  /\ alone => OneAtWork /\ FromCheckpoint /\ \E s : Reflects(s)

LEMMA ReflectsNotRefused ==
  ASSUME WellFormed, NEW p \in DOMAIN publisher, publisher[p] # Nil, NEW s, Reflects(s)
  PROVE  ~RefusedNow(publisher[p])
  <1>1. PublisherOK(publisher[p]) /\ Since(s, publisher[p].s) /\ IdsOf(pub.ids, s)
    BY DEF WellFormed, PublisherInv, Reflects
  <1>2. IdsOf(pub.ids, publisher[p].s)
    BY <1>1, IdsOfLater
  <1>3. publisher[p].s \in Source /\ publisher[p].config \in BOOLEAN
    BY <1>1 DEF PublisherOK, Publishers
  <1>4. pub.ids \in [Item -> Item \cup {Nil}] /\ ItemsOK(pub.item, pub.ids)
    BY DEF WellFormed, StoreInv
  <1>5. QED
    BY <1>2, <1>3, <1>4, NoneRefused DEF RefusedNow

LEMMA CommitKeepsAlone ==
  ASSUME WellFormed, AloneInv, NEW p \in scene.publishers, Commit(p)
  PROVE  AloneInv'
  <1>0. /\ UNCHANGED <<scene, src, alone>> /\ publisher' = [publisher EXCEPT ![p] = Nil]
        /\ publisher[p] # Nil /\ publisher[p].at = "compared" /\ p \in DOMAIN publisher
    BY ScenePublishers DEF Commit, WellFormed, PublisherInv
  <1>1. /\ DOMAIN publisher' = DOMAIN publisher
        /\ \A q \in DOMAIN publisher : publisher'[q] # Nil => q # p /\ publisher'[q] = publisher[q]
    BY <1>0
  <1>2. \A q \in DOMAIN publisher' : publisher'[q] # Nil => q \in scene'.publishers
    BY <1>0, <1>1 DEF AloneInv
  <1>3. CASE alone
    <2>1. OneAtWork /\ FromCheckpoint
      BY <1>3 DEF AloneInv
    <2>2. PICK s : Reflects(s)
      BY <1>3 DEF AloneInv
    <2>3. \A q \in DOMAIN publisher' : publisher'[q] = Nil
      BY <1>0, <1>1, <2>1 DEF OneAtWork
    <2>4. ~RefusedNow(publisher[p])
      BY <1>0, <2>2, ReflectsNotRefused
    <2> DEFINE me == publisher[p]
               t == me.s
    <2>5. me.previous \in {Nil, pub.checkpoint}
      BY <1>0, <2>1 DEF FromCheckpoint
    <2>6. /\ SourceOK(s) /\ Since(s, t) /\ IdsOf(pub.ids, s)
          /\ (pub.checkpoint # Nil => Mirrors(s))
      BY <1>0, <2>2 DEF Reflects
    <2>7. PICK m : m = me
      OBVIOUS
    <2>8. Mirrors(m.s)' /\ IdsOf(pub'.ids, m.s)
      BY <2>4, <2>5, <2>6, <2>7, CommitMirrors
    <2>9. SourceOK(m.s) /\ Since(m.s, src)
      BY <1>0, <2>7 DEF WellFormed, PublisherInv, PublisherOK
    <2>10. Reflects(m.s)'
      BY <1>0, <2>3, <2>8, <2>9 DEF Reflects
    <2>11. OneAtWork' /\ FromCheckpoint'
      BY <2>3 DEF OneAtWork, FromCheckpoint
    <2>12. \E u : Reflects(u)'
      BY <2>10
    <2>13. QED
      BY <1>2, <2>11, <2>12 DEF AloneInv
  <1>4. CASE ~alone
    BY <1>0, <1>2, <1>4 DEF AloneInv
  <1>5. QED
    BY <1>3, <1>4

LEMMA OpenKeepsAlone ==
  ASSUME WellFormed, AloneInv, NEW p \in scene.publishers, Open(p)
  PROVE  AloneInv'
  <1> DEFINE next == [at |-> "opened", s |-> src, day |-> day, config |-> config, previous |-> Nil]
  <1>0. /\ UNCHANGED <<scene, src, pub>> /\ p \in DOMAIN publisher
        /\ publisher' = [publisher EXCEPT ![p] = next]
        /\ alone' = (alone /\ \A q \in scene.publishers : publisher[q] = Nil)
    BY ScenePublishers DEF Open, WellFormed, PublisherInv
  <1>1. next.s = src /\ next.at = "opened"
    OBVIOUS
  <1> HIDE DEF next
  <1>2. /\ DOMAIN publisher' = DOMAIN publisher /\ publisher'[p] = next
        /\ \A q \in DOMAIN publisher : q # p => publisher'[q] = publisher[q]
    BY <1>0
  <1>3. \A q \in DOMAIN publisher' : publisher'[q] # Nil => q \in scene'.publishers
    BY <1>0, <1>2 DEF AloneInv
  <1>4. CASE alone'
    <2>1. alone /\ \A q \in DOMAIN publisher : publisher[q] = Nil
      BY <1>0, <1>4 DEF AloneInv
    <2>2. PICK s : Reflects(s)
      BY <2>1 DEF AloneInv
    <2>3. Since(s, src)
      BY <2>2 DEF Reflects
    <2>4. \A q \in DOMAIN publisher' : publisher'[q] # Nil => q = p /\ publisher'[q].s = src /\ publisher'[q].at = "opened"
      BY <1>1, <1>2, <2>1
    <2>5. Reflects(s)'
      BY <1>0, <2>2, <2>3, <2>4 DEF Reflects, Mirrors
    <2>6. OneAtWork' /\ FromCheckpoint'
      BY <2>4 DEF OneAtWork, FromCheckpoint
    <2>7. \E u : Reflects(u)'
      BY <2>5
    <2>8. QED
      BY <1>3, <2>6, <2>7 DEF AloneInv
  <1>5. CASE ~alone'
    BY <1>3, <1>5 DEF AloneInv
  <1>6. QED
    BY <1>4, <1>5

LEMMA CompareKeepsAlone ==
  ASSUME WellFormed, AloneInv, NEW p \in scene.publishers, NEW b \in BOOLEAN, Compare(p, b)
  PROVE  AloneInv'
  <1> DEFINE previous == IF b THEN Nil ELSE pub.checkpoint
             next == [publisher[p] EXCEPT !.at = "compared", !.previous = previous]
  <1>0. /\ UNCHANGED <<scene, src, pub, alone>> /\ p \in DOMAIN publisher /\ publisher[p] # Nil
        /\ \/ publisher' = [publisher EXCEPT ![p] = Nil]
           \/ publisher' = [publisher EXCEPT ![p] = next]
    BY ScenePublishers DEF Compare, WellFormed, PublisherInv
  <1>1. publisher[p] \in Publishers
    BY <1>0 DEF WellFormed, PublisherInv, PublisherOK
  <1>2. next.s = publisher[p].s /\ next.previous \in {Nil, pub.checkpoint}
    BY <1>1 DEF Publishers
  <1> HIDE DEF next
  <1>3. /\ DOMAIN publisher' = DOMAIN publisher
        /\ \A q \in DOMAIN publisher : publisher'[q] # Nil =>
             /\ publisher[q] # Nil /\ publisher'[q].s = publisher[q].s
             /\ publisher'[q] = publisher[q] \/ publisher'[q].previous \in {Nil, pub.checkpoint}
    BY <1>0, <1>2
  <1>4. \A q \in DOMAIN publisher' : publisher'[q] # Nil => q \in scene'.publishers
    BY <1>0, <1>3 DEF AloneInv
  <1>5. CASE alone
    <2>1. OneAtWork /\ FromCheckpoint
      BY <1>5 DEF AloneInv
    <2>2. PICK s : Reflects(s)
      BY <1>5 DEF AloneInv
    <2>3. Reflects(s)'
      BY <1>0, <1>3, <2>2 DEF Reflects, Mirrors
    <2>4. OneAtWork' /\ FromCheckpoint'
      BY <1>0, <1>3, <2>1 DEF OneAtWork, FromCheckpoint
    <2>5. \E u : Reflects(u)'
      BY <2>3
    <2>6. QED
      BY <1>4, <2>4, <2>5 DEF AloneInv
  <1>6. CASE ~alone
    BY <1>0, <1>4, <1>6 DEF AloneInv
  <1>7. QED
    BY <1>5, <1>6

(* Steps that leave the publishers alone, or let one die.                  *)
LEMMA QuietKeepsAlone ==
  ASSUME WellFormed, WellFormed', AloneInv, UNCHANGED <<scene, alone>>, Since(src, src'),
         \/ UNCHANGED publisher
         \/ \E p : publisher' = [publisher EXCEPT ![p] = Nil],
         pub'.checkpoint = pub.checkpoint, pub'.ids = pub.ids,
         \A s : Mirrors(s) => Mirrors(s)'
  PROVE  AloneInv'
  <1>1. /\ DOMAIN publisher' = DOMAIN publisher
        /\ \A q \in DOMAIN publisher : publisher'[q] # Nil => publisher'[q] = publisher[q]
    OBVIOUS
  <1>2. \A q \in DOMAIN publisher' : publisher'[q] # Nil => q \in scene'.publishers
    BY <1>1 DEF AloneInv
  <1>3. CASE alone
    <2>1. OneAtWork /\ FromCheckpoint
      BY <1>3 DEF AloneInv
    <2>2. PICK s : Reflects(s)
      BY <1>3 DEF AloneInv
    <2>3. Since(s, src')
      BY <2>2, SinceTransitive DEF Reflects, SourceOK, WellFormed, WorldInv
    <2>4. Reflects(s)'
      BY <1>1, <2>2, <2>3 DEF Reflects
    <2>5. OneAtWork' /\ FromCheckpoint'
      BY <1>1, <2>1 DEF OneAtWork, FromCheckpoint
    <2>6. \E u : Reflects(u)'
      BY <2>4
    <2>7. QED
      BY <1>2, <2>5, <2>6 DEF AloneInv
  <1>4. CASE ~alone
    BY <1>2, <1>4 DEF AloneInv
  <1>5. QED
    BY <1>3, <1>4

LEMMA RevokeMirrors ==
  ASSUME WellFormed, NEW d \in Decision, Revoke(d), NEW s, Mirrors(s)
  PROVE  Mirrors(s)'
  <1>0. pub.row[d] # Nil /\ pub.row[d] \in PublicRow
    BY DEF Revoke, WellFormed, StoreInv, RowsTyped
  <1>1. /\ pub'.row = RevokedRows(d) /\ pub'.item = pub.item /\ pub'.book = pub.book
        /\ pub'.board = pub.board /\ pub'.checkpoint = pub.checkpoint
    BY DEF Revoke, WellFormed, StoreInv, Columns
  <1>2. /\ [pub.row[d] EXCEPT !.revoked = TRUE] \in PublicRow
        /\ [pub.row[d] EXCEPT !.revoked = TRUE].content = pub.row[d].content
        /\ [pub.row[d] EXCEPT !.revoked = TRUE].withdrawn = pub.row[d].withdrawn
    BY <1>0 DEF PublicRow
  <1>3. /\ pub'.row[d] = [pub.row[d] EXCEPT !.revoked = TRUE]
        /\ \A e \in Decision : e # d => pub'.row[e] = pub.row[e]
    BY <1>1 DEF RevokedRows, WellFormed, StoreInv, RowsTyped
  <1>4. ASSUME NEW e \in Decision, NEW c, MirrorsRow(pub.row[e], s, e, c)
        PROVE  MirrorsRow(pub'.row[e], s, e, c)
    <2>1. CASE e = d
      <3>1. /\ pub'.row[e] # Nil /\ pub.row[e] # Nil /\ pub'.row[e].content = pub.row[e].content
            /\ pub'.row[e].withdrawn = pub.row[e].withdrawn
        BY <1>0, <1>2, <1>3, <2>1, NilAssumption
      <3>2. QED
        BY <1>4, <3>1 DEF MirrorsRow
    <2>2. CASE e # d
      BY <1>3, <1>4, <2>2
    <2>3. QED
      BY <2>1, <2>2
  <1>5. QED
    BY <1>1, <1>4 DEF Mirrors

LEMMA NextKeepsAlone ==
  ASSUME WellFormed, AloneInv, [Next]_vars
  PROVE  AloneInv'
  <1>0. WellFormed' /\ Since(src, src)
    BY NextWellFormed, SinceReflexive DEF WellFormed, WorldInv, SourceOK
  <1>1. CASE \E p \in scene.publishers : Commit(p)
    BY <1>1, CommitKeepsAlone
  <1>2. CASE \E p \in scene.publishers : Open(p)
    BY <1>2, OpenKeepsAlone
  <1>3. CASE \E p \in scene.publishers, b \in BOOLEAN : Compare(p, b)
    BY <1>3, CompareKeepsAlone
  <1>4. pub' = pub => \A s : Mirrors(s) => Mirrors(s)'
    BY DEF Mirrors
  <1>5. CASE \E p \in scene.publishers : Die(p)
    <2>1. /\ UNCHANGED <<scene, src, pub, alone>>
          /\ \E p : publisher' = [publisher EXCEPT ![p] = Nil]
      BY <1>5 DEF Die
    <2>2. Since(src, src')
      BY <1>0, <2>1
    <2>3. QED
      BY <1>0, <1>4, <2>1, <2>2, QuietKeepsAlone
  <1>6. CASE \E d \in Decision : Revoke(d)
    <2>1. PICK d \in Decision : Revoke(d)
      BY <1>6
    <2>2. UNCHANGED <<scene, src, publisher, alone>>
      BY <2>1 DEF Revoke
    <2>3. pub'.checkpoint = pub.checkpoint /\ pub'.ids = pub.ids
      BY <2>1 DEF Revoke, WellFormed, StoreInv, Columns
    <2>4. \A s : Mirrors(s) => Mirrors(s)'
      BY <2>1, RevokeMirrors
    <2>5. Since(src, src')
      BY <1>0, <2>2
    <2>6. QED
      BY <1>0, <2>2, <2>3, <2>4, <2>5, QuietKeepsAlone
  <1>7. CASE Trade \/ Author \/ Runs \/ Schedule
    <2>1. SourceStep
      BY <1>7, WritesAreSteps DEF WellFormed, WorldInv
    <2>2. QED
      BY <1>0, <1>4, <2>1, QuietKeepsAlone DEF SourceStep
  <1>8. CASE FirstPage \/ NextPage \/ EndOfPages \/ NextDay \/ Reconfigure \/ UNCHANGED vars
    <2>1. UNCHANGED <<scene, src, pub, publisher, alone>>
      BY <1>8 DEF FirstPage, NextPage, EndOfPages, NextDay, Reconfigure, vars
    <2>2. Since(src, src')
      BY <1>0, <2>1
    <2>3. QED
      BY <1>0, <1>4, <2>1, <2>2, QuietKeepsAlone
  <1>9. QED
    BY <1>1, <1>2, <1>3, <1>5, <1>6, <1>7, <1>8 DEF Next

LEMMA InitAlone ==
  ASSUME Init
  PROVE  AloneInv
  <1>1. /\ publisher = [p \in {"watch", "hand"} |-> Nil] /\ pub = EmptyStore
        /\ SourceOK(src)
    BY InitWellFormed DEF Init, WellFormed, WorldInv
  <1>2. pub.checkpoint = Nil /\ pub.ids = [i \in Item |-> Nil]
    BY <1>1 DEF EmptyStore
  <1>3. Reflects(src)
    BY <1>1, <1>2, SinceReflexive DEF Reflects, IdsOf, SourceOK
  <1>4. OneAtWork /\ FromCheckpoint
    BY <1>1 DEF OneAtWork, FromCheckpoint
  <1>5. QED
    BY <1>1, <1>3, <1>4 DEF AloneInv

(* The store and the publishers are well formed, no two items of the       *)
(* activity share an id, and of one publisher at a time none is refused:   *)
(* the id that a wrapped run takes over is never still in use, so that the *)
(* public site does not get stuck on it, however many runs there are.      *)
THEOREM TypeCorrect == FairSpec => []TypeOK
  <1>1. Init => WellFormed /\ AloneInv
    BY InitWellFormed, InitAlone
  <1>2. WellFormed /\ AloneInv /\ [Next]_vars => WellFormed' /\ AloneInv'
    BY NextWellFormed, NextKeepsAlone
  <1>3. WellFormed /\ AloneInv => TypeOK
    <2> SUFFICES ASSUME WellFormed, AloneInv PROVE TypeOK
      OBVIOUS
    <2>1. scene \in Scene /\ left \in 0..scene.left /\ day \in Nat /\ config \in BOOLEAN
      BY DEF WellFormed, WorldInv, Bounded
    <2>2. /\ pub.row \in [Decision -> PublicRow \cup {Nil}]
          /\ pub.item \in [Item -> PublicItem \cup {Nil}]
          /\ pub.ids \in [Item -> Item \cup {Nil}] /\ pub.checkpoint \in Checkpoints \cup {Nil}
      BY DEF WellFormed, StoreInv, RowsTyped, ItemsOK
    <2>3. ASSUME NEW d \in Decision, pub.row[d] # Nil
          PROVE  pub.row[d].sequence \in 1..pub.sequence /\ src.decided[d] = pub.row[d].created
      <3>1. pub.row[d] \in PublicRow /\ pub.row[d].sequence <= pub.sequence /\ pub.sequence \in Nat
        BY <2>3 DEF WellFormed, StoreInv, RowsTyped, RowsOK, RowOK
      <3>2. pub.row[d].sequence \in Nat \ {0}
        BY <3>1 DEF PublicRow
      <3>3. QED
        BY <2>3, <3>1, <3>2 DEF WellFormed, CreatedInv
    <2>4. \A i, j \in Item : i # j /\ pub.item[i] # Nil /\ pub.item[j] # Nil =>
            pub.item[i].id # pub.item[j].id
      BY DEF WellFormed, StoreInv, ItemsOK
    <2>5. ASSUME NEW p \in DOMAIN publisher, publisher[p] # Nil
          PROVE  /\ publisher[p].at \in {"opened", "compared"} /\ SourceOK(publisher[p].s)
                 /\ alone /\ publisher[p].at = "compared" => ~RefusedNow(publisher[p])
      <3>1. publisher[p].at \in {"opened", "compared"} /\ SourceOK(publisher[p].s)
        BY <2>5 DEF WellFormed, PublisherInv, PublisherOK, Publishers
      <3>2. alone => ~RefusedNow(publisher[p])
        BY <2>5, ReflectsNotRefused DEF AloneInv
      <3>3. QED
        BY <3>1, <3>2
    <2>6. QED
      BY <2>1, <2>2, <2>3, <2>4, <2>5 DEF TypeOK
  <1>4. QED
    BY <1>1, <1>2, <1>3, PTL DEF FairSpec, Spec

-----------------------------------------------------------------------------
(* What the checkpoint covers.                                             *)

LEMMA RunsLeadSomewhere ==
  ASSUME WellFormed, NEW s, Reflects(s), Checked # Nil, NEW d \in Decision,
         pub.row[d] # Nil, pub.row[d].run # Nil, InScope(Checked.identity, Kind[d].scope)
  PROVE  \E i \in Item : pub.item[i] # Nil /\ pub.item[i].id = pub.row[d].run
  <1> DEFINE r == Kind[d].run
             rt == <<"runtime", r>>
             lg == <<"legacy", r>>
             run == pub.row[d].run
  <1>1. Live(d) /\ run \in {pub.ids[rt], pub.ids[lg]}
    BY DEF WellFormed, StoreInv, RowsOK, RowOK, LinksOf
  <1>2. r \in Run /\ rt \in Item /\ lg \in Item /\ lg = LegacyOf(rt)
        /\ rt[1] = "runtime" /\ rt[2] = r /\ lg[1] = "legacy" /\ lg[2] = r
    BY <1>1, KindAssumption DEF Live, Item, LegacyOf
  <1>3. Checked.identity = TRUE
    <2>1. Checked \in Checkpoints
      BY DEF WellFormed, StoreInv, Checked
    <2>2. Checked.identity \in BOOLEAN
      BY <2>1 DEF Checkpoints
    <2>3. Kind[d].scope = "live"
      BY <1>1 DEF Live
    <2>4. QED
      BY <2>2, <2>3 DEF InScope
  <1>4. /\ MirrorsItem(pub.item[rt], s, rt, TRUE) /\ MirrorsItem(pub.item[lg], s, lg, TRUE)
        /\ s \in Source /\ IdsOf(pub.ids, s)
    BY <1>2, <1>3 DEF Reflects, Mirrors, Checked, SourceOK
  <1>5. \A i \in Item : pub.item[i] # Nil =>
          pub.item[i].id = pub.ids[i] /\ pub.ids[i] # Nil
    <2> SUFFICES ASSUME NEW i \in Item, pub.item[i] # Nil
                 PROVE  pub.item[i].id = pub.ids[i] /\ pub.ids[i] # Nil
      OBVIOUS
    <2>1. pub.item[i] \in PublicItem /\ pub.item[i].id = pub.ids[i]
      BY DEF WellFormed, StoreInv, ItemsOK
    <2>2. pub.item[i].id \in Item
      BY <2>1 DEF PublicItem
    <2>3. QED
      BY <2>1, <2>2, NilAssumption
  <1>6. pub.item[rt] # Nil <=> r \in s.wrapped
    BY <1>2, <1>4, ActivityThere DEF MirrorsItem
  <1>7. pub.item[lg] # Nil <=> r \in s.prepared \ s.wrapped
    BY <1>2, <1>4, ActivityThere DEF MirrorsItem
  <1>8. pub.ids[rt] # Nil => r \in s.wrapped /\ (pub.ids[lg] # Nil => pub.ids[rt] = pub.ids[lg])
    BY <1>2, <1>4 DEF IdsOf, IdOfItem
  <1>9. pub.ids[lg] # Nil => r \in s.prepared
    BY <1>2, <1>4 DEF IdsOf, IdOfItem
  <1> HIDE DEF rt, lg, r
  <1>10. CASE pub.ids[rt] # Nil
    <2>1. pub.item[rt] # Nil /\ run = pub.ids[rt]
      BY <1>1, <1>6, <1>8, <1>10
    <2>2. QED
      BY <1>2, <1>5, <2>1
  <1>11. CASE pub.ids[rt] = Nil
    <2>1. r \notin s.wrapped /\ run = pub.ids[lg]
      BY <1>1, <1>2, <1>5, <1>6, <1>11
    <2>2. pub.item[lg] # Nil
      BY <1>7, <1>9, <2>1
    <2>3. QED
      BY <1>2, <1>5, <2>1, <2>2
  <1>12. QED
    BY <1>10, <1>11

LEMMA ReflectsIsHonest ==
  ASSUME WellFormed, NEW s, Reflects(s), Checked # Nil
  PROVE  /\ \A d \in Decision : HonestDecision(d)
         /\ \A i \in Item : HonestItem(i)
         /\ HonestBook
         /\ src.count.activity = Checked.activity => pub.board = Board(src, pub.item)
  <1> DEFINE c == Checked.identity
  <1>0. /\ SourceOK(s) /\ SourceOK(src) /\ Since(s, src) /\ c \in BOOLEAN
        /\ Checked = Checkpoint(s, c, Checked.clock)
        /\ \A i \in Item : MirrorsItem(pub.item[i], s, i, c)
        /\ \A d \in Decision : MirrorsRow(pub.row[d], s, d, c)
        /\ pub.book = [x \in Scope |-> Book(s, x, c, Checked.clock)]
        /\ pub.board = Board(s, pub.item)
    BY DEF Reflects, Mirrors, Checked, WellFormed, WorldInv, StoreInv, Checkpoints
  <1>1. /\ Checked.details = s.count.details /\ Checked.performance = s.count.performance
        /\ Checked.activity = s.count.activity
    BY <1>0 DEF Checkpoint
  <1>2. ASSUME NEW d \in Decision PROVE HonestDecision(d)
    <2> SUFFICES ASSUME src.changed[d] <= Checked.details, src.rebuilt <= Checked.details
                 PROVE  IF Eligible(src, d, c)
                        THEN /\ pub.row[d] # Nil /\ ~pub.row[d].withdrawn
                             /\ Untraced(pub.row[d].content) = Untraced(Content(src, d))
                             /\ pub.row[d].run # Nil =>
                                  \E i \in Item : pub.item[i] # Nil /\ pub.item[i].id = pub.row[d].run
                        ELSE pub.row[d] = Nil \/ pub.row[d].withdrawn
      BY DEF HonestDecision
    <2>1. SameDecision(s, src, d)
      BY <1>0, <1>1 DEF Since, DecisionsSince
    <2>2. MirrorsRow(pub.row[d], src, d, c)
      BY <1>0, <2>1, SameProjection DEF MirrorsRow
    <2>3. Eligible(src, d, c) => InScope(c, Kind[d].scope)
      BY DEF Eligible
    <2>4. QED
      BY <2>2, <2>3, RunsLeadSomewhere DEF MirrorsRow
  <1>3. ASSUME NEW i \in Item PROVE HonestItem(i)
    <2> SUFFICES ASSUME src.dirty[i] <= Checked.activity,
                        i[1] = "legacy" => src.dirty[RuntimeOf(i)] <= Checked.activity
                 PROVE  IF Activity(src, i, c) = Nil THEN pub.item[i] = Nil
                        ELSE pub.item[i] # Nil
                             /\ Settled(pub.item[i].content) = Settled(Activity(src, i, c))
      BY DEF HonestItem, RuntimeOf
    <2>1. /\ Activity(src, i, c) = Nil <=> Activity(s, i, c) = Nil
          /\ Settled(Activity(src, i, c)) = Settled(Activity(s, i, c))
      BY <1>0, <1>1, UntouchedItem
    <2>2. QED
      BY <1>0, <2>1 DEF MirrorsItem
  <1>4. HonestBook
    <2> SUFFICES ASSUME src.count.performance = Checked.performance, NEW x \in Scope
                 PROVE  pub.book[x] = Book(src, x, c, Checked.clock)
      BY DEF HonestBook
    <2>1. SameBook(s, src)
      BY <1>0, <1>1 DEF Since, RestSince
    <2>2. QED
      BY <1>0, <2>1 DEF SameBook, Book
  <1>5. src.count.activity = Checked.activity => pub.board = Board(src, pub.item)
    BY <1>0, <1>1 DEF Since, RestSince, Board
  <1>6. QED
    BY <1>2, <1>3, <1>4, <1>5

(* Whatever the counters of the checkpoint cover is in the store as it is  *)
(* in the source: the triggers name enough of every transaction, and the   *)
(* incremental publications write enough of what they name, for any        *)
(* decisions, runs and occurrences, any sources from which they start, and *)
(* any interleaving of one publisher at a time with the writers.           *)
THEOREM CheckpointHonest == FairSpec => []CheckpointIsHonest
  <1>1. Init => WellFormed /\ AloneInv
    BY InitWellFormed, InitAlone
  <1>2. WellFormed /\ AloneInv /\ [Next]_vars => WellFormed' /\ AloneInv'
    BY NextWellFormed, NextKeepsAlone
  <1>3. WellFormed /\ AloneInv => CheckpointIsHonest
    BY ReflectsIsHonest DEF AloneInv, CheckpointIsHonest
  <1>4. QED
    BY <1>1, <1>2, <1>3, PTL DEF FairSpec, Spec

-----------------------------------------------------------------------------
(* Two publishers that overlap may set the store back, but only to what    *)
(* was true.  The history keeps all that a publisher could have seen; it   *)
(* constrains nothing, so every behaviour of Spec has one.                 *)
VARIABLE past  \* history: the source, the day and the profiles, now and before

World == [s |-> src, day |-> day, config |-> config]

RememberSpec ==
  Init /\ past = {World} /\ [][Next /\ past' = past \cup {World'}]_<<vars, past>>

WorldOf(me) == [s |-> me.s, day |-> me.day, config |-> me.config]

Remembered ==
  World \in past /\ \A p \in DOMAIN publisher : publisher[p] # Nil => WorldOf(publisher[p]) \in past

TrueRow(w, d, row) == row.content = Content(w.s, d) /\ Eligible(w.s, d, w.config)

TrueRows(rows, worlds) ==
  \A d \in Decision : rows[d] # Nil => \E w \in worlds : TrueRow(w, d, rows[d])

TrueItems(items, worlds) ==
  \A i \in Item : items[i] # Nil => \E w \in worlds : items[i].content = Activity(w.s, i, w.config)

TrueBooks(books, worlds) ==
  \A x \in Scope : books[x] # Nil => \E w \in worlds : books[x] = Book(w.s, x, w.config, w.day)

TrueBoard(board, items, worlds) ==
  board # Nil => \E w \in worlds : board = Board(w.s, items)

TrueCheckpoint(checkpoint, worlds) ==
  checkpoint # Nil => \E w \in worlds : checkpoint = Checkpoint(w.s, w.config, w.day)

(* Every row, item, portfolio, schedule and checkpoint of the store is one *)
(* that a single state of the private database had, under the profiles and *)
(* on the day of a publisher, and a row was eligible then: whoever         *)
(* overlaps, dies or revokes, nothing that was never true, or never        *)
(* public, is published, and the runs on the board are those of the items. *)
NothingInvented ==
  /\ TrueRows(pub.row, past) /\ TrueItems(pub.item, past) /\ TrueBooks(pub.book, past)
  /\ TrueBoard(pub.board, pub.item, past) /\ TrueCheckpoint(pub.checkpoint, past)

Remember == Next /\ past' = past \cup {World'}

LEMMA TruthLasts ==
  ASSUME NEW rows, NEW items, NEW books, NEW board, NEW checkpoint, NEW old, NEW new,
         old \subseteq new
  PROVE  /\ TrueRows(rows, old) => TrueRows(rows, new)
         /\ TrueItems(items, old) => TrueItems(items, new)
         /\ TrueBooks(books, old) => TrueBooks(books, new)
         /\ TrueBoard(board, items, old) => TrueBoard(board, items, new)
         /\ TrueCheckpoint(checkpoint, old) => TrueCheckpoint(checkpoint, new)
  BY DEF TrueRows, TrueItems, TrueBooks, TrueBoard, TrueCheckpoint

LEMMA UntouchedStaysTrue ==
  ASSUME NothingInvented, pub' = pub, past \subseteq past'
  PROVE  NothingInvented'
  BY TruthLasts DEF NothingInvented

LEMMA PublishedRowsAreTrue ==
  ASSUME RowsTyped, NEW w, NEW was, NEW now, NEW ids \in [Item -> Item \cup {Nil}],
         w.s \in Source, w \in past, TrueRows(pub.row, past)
  PROVE  TrueRows(PublishedRows(w.s, w.config, was, now, ids), past)
  <1> DEFINE rows == PublishedRows(w.s, w.config, was, now, ids)
  <1>1. SUFFICES ASSUME NEW d \in Decision, rows[d] # Nil
                 PROVE  \E v \in past : TrueRow(v, d, rows[d])
    BY DEF TrueRows
  <1>2. CASE d \in Inserted(w.s, w.config, was, now)
    <2>1. rows[d] = NewRow(w.s, ids, d) /\ Eligible(w.s, d, w.config)
      BY <1>2, PublishedRowIs DEF Inserted, Seen
    <2>2. rows[d].content = Content(w.s, d)
      BY <2>1 DEF NewRow
    <2>3. QED
      BY <2>1, <2>2 DEF TrueRow
  <1>3. CASE d \notin Inserted(w.s, w.config, was, now) /\ d \in Updated(w.s, w.config, was, now, ids)
    <2>1. /\ rows[d] = Rewritten(pub.row[d], w.s, ids, d) /\ Eligible(w.s, d, w.config)
          /\ pub.row[d] \in PublicRow
      BY <1>3, PublishedRowIs DEF Updated, Seen, RowsTyped
    <2>2. Rewritten(pub.row[d], w.s, ids, d).content = Content(w.s, d)
      BY <2>1, RewrittenIs
    <2>3. QED
      BY <2>1, <2>2 DEF TrueRow
  <1>4. CASE /\ d \notin Inserted(w.s, w.config, was, now)
             /\ d \notin Updated(w.s, w.config, was, now, ids)
    <2>1. /\ rows[d] = pub.row[d] \/ rows[d] = [pub.row[d] EXCEPT !.withdrawn = TRUE]
          /\ pub.row[d] # Nil
      BY <1>1, <1>4, PublishedRowIs DEF Withdrawn
    <2>2. rows[d].content = pub.row[d].content
      BY <2>1, WithdrawnIs DEF RowsTyped
    <2>3. PICK v \in past : TrueRow(v, d, pub.row[d])
      BY <2>1 DEF TrueRows
    <2>4. QED
      BY <2>2, <2>3 DEF TrueRow
  <1>5. QED
    BY <1>2, <1>3, <1>4

LEMMA PublishedItemsAreTrue ==
  ASSUME NEW w, NEW was, NEW now, w \in past, TrueItems(pub.item, past)
  PROVE  TrueItems(PublishedItems(w.s, w.config, was, now), past)
  <1> DEFINE items == PublishedItems(w.s, w.config, was, now)
  <1>1. SUFFICES ASSUME NEW i \in Item, items[i] # Nil
                 PROVE  \E v \in past : items[i].content = Activity(v.s, i, v.config)
    BY DEF TrueItems
  <1>2. items[i] = [id |-> IdOf(pub.ids, i), content |-> Activity(w.s, i, w.config)]
        \/ items[i] = pub.item[i]
    BY <1>1, PublishedItemIs
  <1>3. QED
    BY <1>1, <1>2 DEF TrueItems

LEMMA CommitInventsNothing ==
  ASSUME WellFormed, Remembered, NothingInvented, NEW p \in scene.publishers, Commit(p),
         past \subseteq past'
  PROVE  NothingInvented'
  <1>1. CASE RefusedNow(publisher[p])
    BY <1>1, UntouchedStaysTrue DEF Commit
  <1>2. CASE ~RefusedNow(publisher[p])
    <2> DEFINE me == publisher[p]
               w == WorldOf(me)
               now == Checkpoint(w.s, w.config, w.day)
    <2>1. w.s = me.s /\ w.config = me.config /\ w.day = me.day
      BY DEF WorldOf
    <2>2. w \in past
      BY ScenePublishers DEF WellFormed, PublisherInv, Remembered, Commit
    <2>3. /\ PublisherOK(me)
          /\ PublishedAs(pub', w.s, w.config, me.previous, now, w.day)
          /\ pub'.ids \in [Item -> Item \cup {Nil}]
      BY <1>2, <2>1, CommitIs
    <2>4. w.s \in Source
      BY <2>1, <2>3 DEF PublisherOK, Publishers
    <2> HIDE DEF me, w, now
    <2>5. /\ pub'.item = PublishedItems(w.s, w.config, me.previous, now)
          /\ pub'.board = Board(w.s, pub'.item) /\ pub'.checkpoint = now
          /\ \/ pub'.row = pub.row
             \/ pub'.row = PublishedRows(w.s, w.config, me.previous, now, pub'.ids)
          /\ \/ pub'.book = pub.book
             \/ pub'.book = [x \in Scope |-> Book(w.s, x, w.config, w.day)]
      BY <2>3 DEF PublishedAs
    <2>6. TrueRows(pub'.row, past)
      BY <2>2, <2>3, <2>4, <2>5, PublishedRowsAreTrue DEF NothingInvented, WellFormed, StoreInv
    <2>7. TrueItems(pub'.item, past)
      BY <2>2, <2>5, PublishedItemsAreTrue DEF NothingInvented
    <2>8. TrueBooks(pub'.book, past)
      BY <2>2, <2>5 DEF TrueBooks, NothingInvented
    <2>9. TrueBoard(pub'.board, pub'.item, past)
      BY <2>2, <2>5 DEF TrueBoard
    <2>10. TrueCheckpoint(pub'.checkpoint, past)
      BY <2>2, <2>5 DEF TrueCheckpoint, now
    <2>11. QED
      BY <2>6, <2>7, <2>8, <2>9, <2>10, TruthLasts DEF NothingInvented
  <1>3. QED
    BY <1>1, <1>2

LEMMA RevokeInventsNothing ==
  ASSUME WellFormed, NothingInvented, NEW d \in Decision, Revoke(d), past \subseteq past'
  PROVE  NothingInvented'
  <1>1. /\ pub'.row = RevokedRows(d) /\ pub'.item = pub.item /\ pub'.book = pub.book
        /\ pub'.board = pub.board /\ pub'.checkpoint = pub.checkpoint
    BY DEF Revoke, WellFormed, StoreInv, Columns
  <1>2. pub.row[d] # Nil /\ pub.row[d] \in PublicRow /\ DOMAIN pub.row = Decision
    BY DEF Revoke, WellFormed, StoreInv, RowsTyped
  <1>3. [pub.row[d] EXCEPT !.revoked = TRUE].content = pub.row[d].content
    BY <1>2 DEF PublicRow
  <1>4. \A e \in Decision : \/ pub'.row[e] = pub.row[e]
                            \/ pub.row[e] # Nil /\ pub'.row[e].content = pub.row[e].content
    BY <1>1, <1>2, <1>3 DEF RevokedRows
  <1>5. TrueRows(pub'.row, past)
    BY <1>4 DEF NothingInvented, TrueRows, TrueRow
  <1>6. QED
    BY <1>1, <1>5, TruthLasts DEF NothingInvented

LEMMA StepRemembers ==
  ASSUME WellFormed, Remembered, [Remember]_<<vars, past>>
  PROVE  Remembered' /\ past \subseteq past'
  <1>1. past \subseteq past' /\ World' \in past'
    BY DEF Remember, Remembered, World, vars
  <1>2. ASSUME NEW p \in DOMAIN publisher', publisher'[p] # Nil
        PROVE  WorldOf(publisher'[p]) \in past'
    <2>1. CASE \E q \in scene.publishers : Open(q)
      <3>1. PICK q \in scene.publishers : Open(q)
        BY <2>1
      <3>2. CASE p = q
        <4>1. publisher'[p] =
                [at |-> "opened", s |-> src, day |-> day, config |-> config, previous |-> Nil]
          BY <1>2, <3>1, <3>2 DEF Open, WellFormed, PublisherInv
        <4>2. WorldOf(publisher'[p]) = World
          BY <4>1 DEF WorldOf, World
        <4>3. QED
          BY <1>1, <4>2 DEF Remembered
      <3>3. CASE p # q
        <4>1. p \in DOMAIN publisher /\ publisher'[p] = publisher[p]
          BY <1>2, <3>1, <3>3 DEF Open
        <4>2. QED
          BY <1>1, <1>2, <4>1 DEF Remembered
      <3>4. QED
        BY <3>2, <3>3
    <2>2. CASE \E q \in scene.publishers, b \in BOOLEAN : Compare(q, b)
      <3>1. PICK q \in scene.publishers, b \in BOOLEAN : Compare(q, b)
        BY <2>2
      <3> DEFINE previous == IF b THEN Nil ELSE pub.checkpoint
      <3>2. /\ p \in DOMAIN publisher /\ q \in DOMAIN publisher /\ publisher[q] # Nil
            /\ \/ publisher' = [publisher EXCEPT ![q] = Nil]
               \/ publisher' = [publisher EXCEPT ![q] =
                                  [publisher[q] EXCEPT !.at = "compared", !.previous = previous]]
        BY <1>2, <3>1, ScenePublishers DEF Compare, WellFormed, PublisherInv
      <3>3. publisher[q] \in Publishers
        BY <3>2 DEF WellFormed, PublisherInv, PublisherOK
      <3> HIDE DEF previous
      <3>4. WorldOf([publisher[q] EXCEPT !.at = "compared", !.previous = previous])
              = WorldOf(publisher[q])
        BY <3>3 DEF WorldOf, Publishers
      <3>5. publisher[p] # Nil /\ WorldOf(publisher'[p]) = WorldOf(publisher[p])
        BY <1>2, <3>2, <3>4
      <3>6. QED
        BY <1>1, <3>2, <3>5 DEF Remembered
    <2>3. CASE \E q \in scene.publishers : Commit(q) \/ Die(q)
      <3>1. PICK q \in scene.publishers : publisher' = [publisher EXCEPT ![q] = Nil]
        BY <2>3 DEF Commit, Die
      <3>2. p \in DOMAIN publisher /\ publisher'[p] = publisher[p]
        BY <1>2, <3>1
      <3>3. QED
        BY <1>1, <1>2, <3>2 DEF Remembered
    <2>4. CASE UNCHANGED publisher
      BY <1>1, <1>2, <2>4 DEF Remembered
    <2>5. CASE \/ \E d \in Decision : Revoke(d)
               \/ FirstPage \/ NextPage \/ EndOfPages \/ NextDay \/ Reconfigure \/ UNCHANGED vars
      <3>1. UNCHANGED publisher
        BY <2>5 DEF Revoke, FirstPage, NextPage, EndOfPages, NextDay, Reconfigure, vars
      <3>2. QED
        BY <2>4, <3>1
    <2>6. CASE Trade \/ Author \/ Runs \/ Schedule
      <3>1. UNCHANGED publisher
        BY <2>6, WritesAreSteps DEF SourceStep, WellFormed, WorldInv
      <3>2. QED
        BY <2>4, <3>1
    <2>7. QED
      BY <2>1, <2>2, <2>3, <2>5, <2>6 DEF Remember, Next, vars
  <1>3. QED
    BY <1>1, <1>2 DEF Remembered

LEMMA StepInventsNothing ==
  ASSUME WellFormed, Remembered, NothingInvented, [Remember]_<<vars, past>>
  PROVE  NothingInvented'
  <1>1. past \subseteq past'
    BY StepRemembers
  <1>2. CASE \E p \in scene.publishers : Commit(p)
    BY <1>1, <1>2, CommitInventsNothing
  <1>3. CASE \E d \in Decision : Revoke(d)
    BY <1>1, <1>3, RevokeInventsNothing
  <1>4. CASE UNCHANGED pub
    BY <1>1, <1>4, UntouchedStaysTrue
  <1>5. CASE Trade \/ Author \/ Runs \/ Schedule
    <2>1. UNCHANGED pub
      BY <1>5, WritesAreSteps DEF SourceStep, WellFormed, WorldInv
    <2>2. QED
      BY <1>4, <2>1
  <1>6. CASE \/ \E p \in scene.publishers : Open(p) \/ Die(p) \/ \E b \in BOOLEAN : Compare(p, b)
             \/ FirstPage \/ NextPage \/ EndOfPages \/ NextDay \/ Reconfigure \/ UNCHANGED vars
    <2>1. UNCHANGED pub
      BY <1>6 DEF Open, Die, Compare, FirstPage, NextPage, EndOfPages, NextDay, Reconfigure, vars
    <2>2. QED
      BY <1>4, <2>1
  <1>7. QED
    BY <1>2, <1>3, <1>5, <1>6 DEF Remember, Next, vars

LEMMA InitRemembers ==
  ASSUME Init, past = {World}
  PROVE  Remembered /\ NothingInvented
  <1>1. publisher = [p \in {"watch", "hand"} |-> Nil] /\ pub = EmptyStore
    BY DEF Init
  <1>2. Remembered
    BY <1>1 DEF Remembered
  <1>3. /\ pub.row = [d \in Decision |-> Nil] /\ pub.item = [i \in Item |-> Nil]
        /\ pub.book = [x \in Scope |-> Nil] /\ pub.board = Nil /\ pub.checkpoint = Nil
    BY <1>1 DEF EmptyStore
  <1>4. NothingInvented
    BY <1>3 DEF NothingInvented, TrueRows, TrueItems, TrueBooks, TrueBoard, TrueCheckpoint
  <1>5. QED
    BY <1>2, <1>4

(* In a store that several publishers write, each from a snapshot that the *)
(* others have overtaken and against a checkpoint that they have replaced, *)
(* there is never anything that was not so in the private database.        *)
THEOREM OverlapsInventNothing == RememberSpec => []NothingInvented
  <1>1. Init /\ past = {World} => WellFormed /\ Remembered /\ NothingInvented
    BY InitWellFormed, InitRemembers
  <1>2. [Remember]_<<vars, past>> => [Next]_vars
    BY DEF Remember, vars
  <1>3. /\ WellFormed /\ Remembered /\ NothingInvented /\ [Remember]_<<vars, past>>
        => (WellFormed /\ Remembered /\ NothingInvented)'
    BY <1>2, NextWellFormed, StepRemembers, StepInventsNothing
  <1>4. QED
    BY <1>1, <1>3, PTL DEF RememberSpec, Remember
=============================================================================
