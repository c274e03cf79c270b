--------------------------- MODULE Schedule_proofs ---------------------------
(***************************************************************************)
(* Proofs about the schedules of an account, for any number of schedules,  *)
(* ticks and operators, any calendar and any plans.                        *)
(***************************************************************************)
EXTENDS Schedule, FiniteSetTheorems, TLAPS

-----------------------------------------------------------------------------
(* Days and due times.                                                     *)

LEMMA Division ==
  ASSUME NEW n \in Nat \ {0}, NEW t \in Nat
  PROVE  t \div n \in Nat /\ (t \div n) * n <= t
  OBVIOUS

LEMMA DivisionIsLargest ==
  ASSUME NEW n \in Nat \ {0}, NEW t \in Nat, NEW d \in Nat, d * n <= t
  PROVE  d <= t \div n
  OBVIOUS

LEMMA DayOfTime ==
  ASSUME NEW t \in Nat
  PROVE  Day(t) \in Nat /\ Day(t) * DayLength <= t
  <1>1. DayLength \in Nat \ {0}
    BY ConstantsAssumption
  <1>2. QED
    BY <1>1, Division DEF Day

LEMMA DayIsLargest ==
  ASSUME NEW t \in Nat, NEW d \in Nat, d * DayLength <= t
  PROVE  d <= Day(t)
  <1>1. DayLength \in Nat \ {0}
    BY ConstantsAssumption
  <1>2. QED
    BY <1>1, DivisionIsLargest DEF Day

LEMMA DayMonotonic ==
  ASSUME NEW t \in Nat, NEW u \in Nat, t <= u
  PROVE  Day(t) <= Day(u)
  <1>1. DayLength \in Nat /\ Day(t) \in Nat /\ Day(t) * DayLength <= t
    BY DayOfTime, ConstantsAssumption
  <1>2. Day(t) * DayLength <= u
    BY <1>1
  <1>3. QED
    BY <1>1, <1>2, DayIsLargest

LEMMA DayInDays ==
  ASSUME NEW t \in Time
  PROVE  t \in Nat /\ Day(t) \in Days
  <1>1. Horizon \in Nat /\ t \in Nat /\ t <= Horizon
    BY ConstantsAssumption DEF Time
  <1>2. Day(t) \in Nat /\ Day(Horizon) \in Nat /\ Day(t) <= Day(Horizon)
    BY <1>1, DayOfTime, DayMonotonic
  <1>3. Days = 0..Day(Horizon)
    BY DEF Days, Day
  <1>4. QED
    BY <1>1, <1>2, <1>3

LEMMA DaysAreNat ==
  /\ \A d \in Days : d \in Nat
  /\ \A d \in Days, c \in Nat : c <= d => c \in Days
  <1>1. Days = 0..Day(Horizon) /\ Day(Horizon) \in Nat
    BY DayOfTime, ConstantsAssumption DEF Days, Day
  <1>2. QED
    BY <1>1

(* A session is due on its own day.                                        *)
LEMMA DueInItsDay ==
  ASSUME NEW plan \in Plan, NEW d \in Days, DueAt(plan, d) # NoDue
  PROVE  DueAt(plan, d) \in Nat /\ d * DayLength <= DueAt(plan, d)
  <1>1. Session[d] \in {"full", "half", "closed"}
    BY ConstantsAssumption DEF Days
  <1>2. Session[d] \in {"full", "half"} /\ plan[Session[d]] # NoDue
        /\ DueAt(plan, d) = d * DayLength + plan[Session[d]]
    BY <1>1 DEF DueAt
  <1>3. plan[Session[d]] \in 0..(DayLength - 1)
    BY <1>2, ConstantsAssumption
  <1>4. d * DayLength \in Nat
    BY DaysAreNat, ConstantsAssumption
  <1>5. QED
    BY <1>2, <1>3, <1>4, ConstantsAssumption

-----------------------------------------------------------------------------
(* The greatest member of a finite set of numbers.                         *)
LEMMA Greatest ==
  ASSUME NEW n \in Nat, NEW S \in SUBSET (0..n), S # {}
  PROVE  \E d \in S : \A c \in S : c <= d
  <1> DEFINE Bounds == {b \in Nat : \A c \in S : c <= b}
  <1>1. n \in Bounds
    OBVIOUS
  <1>2. PICK b \in Bounds : \A c \in Bounds : ~(<<c, b>> \in OpToRel(<, Nat))
    BY <1>1, WFMin, NatLessThanWellFounded, Zenon
  <1>3. \A c \in Bounds : ~(c < b)
    BY <1>2, Zenon DEF OpToRel
  <1>4. b \in Nat /\ \A c \in S : c \in Nat /\ c <= b
    OBVIOUS
  <1>5. b \in S
    <2> SUFFICES ASSUME b \notin S PROVE FALSE
      OBVIOUS
    <2>1. \A c \in S : c \in Nat /\ c < b
      BY <1>4
    <2>2. b - 1 \in Nat
      <3>1. PICK c \in S : TRUE
        OBVIOUS
      <3>2. c \in Nat /\ c < b /\ b \in Nat
        BY <1>4, <2>1
      <3>3. QED
        BY <3>2
    <2>3. b - 1 \in Bounds
      <3>1. ASSUME NEW c \in S PROVE c <= b - 1
        <4>1. c \in Nat /\ c < b /\ b \in Nat
          BY <1>4, <2>1
        <4>2. QED
          BY <4>1
      <3>2. QED
        BY <2>2, <3>1
    <2>4. b - 1 < b
      BY <1>4
    <2>5. QED
      BY <1>3, <2>3, <2>4
  <1>6. QED
    BY <1>4, <1>5

-----------------------------------------------------------------------------
(* The inductive invariant.                                                *)

(* Who is about to write a revision saw one that could still be followed,  *)
(* and if it is the latest, then as it is.                                 *)
EditorsFollow ==
  \A e \in Editor : editors[e].pc = "read" =>
    LET seen == editors[e].seen
        latest == schedules[editors[e].of]
    IN /\ seen.revision < MaxRevisions
       /\ seen.revision <= latest.revision
       /\ seen.revision = latest.revision => seen = latest

(* Only what was saved is observed, ...                                    *)
ObservedAreSaved == \A s \in DOMAIN observations : Saved(s)

(* ... a tick's clock is not ahead, ...                                    *)
TicksArePast == \A k \in Tick : ticks[k] # Idle => ticks[k].now <= clock

(* ... and only sessions that have begun are recorded.                     *)
RecordedHaveBegun == \A o \in DOMAIN occurrences : o[2] <= Day(clock)

(* TypeOK, with what it needs to be inductive. *)
TypeInv == TypeOK /\ EditorsFollow /\ ObservedAreSaved /\ TicksArePast /\ RecordedHaveBegun

(* Which cases a step has. *)
LEMMA Cases ==
  ASSUME TypeOK, [Next]_vars
  PROVE  \/ \E e \in Editor, s \in ScheduleId : Read(e, s)
         \/ \E e \in Editor : Configure(e) \/ PauseOrResume(e) \/ Abandon(e)
         \/ \E k \in Tick, s \in ScheduleId : StartTick(k, s)
         \/ \E k \in Tick : \/ Observe(k) \/ RecordDue(k) \/ LookForOverlap(k)
                            \/ SkipOverlap(k) \/ Prepare(k) \/ ClaimTick(k) \/ StopTick(k)
         \/ \E s \in ScheduleId : ObserveByHand(s) \/ RecordDueByHand(s)
         \/ \E o \in Occurrence : PrepareByHand(o) \/ ClaimByHand(o)
         \/ ClaimUnscheduled \/ End \/ Pass
         \/ UNCHANGED vars
  <1>1. /\ scene.schedules \subseteq ScheduleId
        /\ scene.ticks \subseteq Tick
        /\ scene.editors \subseteq Editor
    BY ConstantsAssumption DEF TypeOK
  <1>2. QED
    BY <1>1 DEF Next

LEMMA SampledTyped ==
  ASSUME TypeOK, NEW t \in Sampled
  PROVE  /\ t \in Time /\ t \in Nat /\ t <= clock /\ clock \in Nat
         /\ Day(t) \in Days /\ Day(t) \in Nat /\ Day(t) <= Day(clock)
  <1>1. t \in Time /\ t \in Nat /\ t <= clock /\ clock \in Nat
    BY ConstantsAssumption DEF Sampled, TypeOK, Time
  <1>2. QED
    BY <1>1, DayInDays, DayOfTime, DayMonotonic

(* The shapes of ticks and editors, by their program counters.             *)
LEMMA TickShape ==
  ASSUME TypeOK, NEW k \in Tick, ticks[k] # Idle
  PROVE  /\ ticks[k].of \in ScheduleId /\ ticks[k].now \in Time
         /\ ticks[k].pc \in {"started", "observed", "polled", "overlap", "clear", "prepared"}
         /\ ticks[k].pc = "started" => ticks[k].revision \in 1..MaxRevisions
                                       /\ ticks[k].enabled \in BOOLEAN
         /\ ticks[k].pc # "started" =>
              ticks[k] = [pc |-> ticks[k].pc, of |-> ticks[k].of, now |-> ticks[k].now]
  BY DEF TypeOK, TickState

LEMMA EditorShape ==
  ASSUME TypeOK, NEW e \in Editor, editors[e].pc = "read"
  PROVE  /\ editors[e].of \in ScheduleId /\ editors[e].now \in Time
         /\ editors[e].seen \in Revision
  BY DEF TypeOK, EditorState, Idle

-----------------------------------------------------------------------------
(* Type correctness, operation by operation.                               *)

(* A revision that is saved is typed, follows the latest one, and keeps    *)
(* which occurrences there are.                                            *)
LEMMA SaveTyped ==
  ASSUME TypeOK, NEW s \in ScheduleId, NEW record \in Revision, record.revision \in 1..MaxRevisions,
         Save(s, record)
  PROVE  /\ schedules' \in [ScheduleId -> Revision]
         /\ DOMAIN occurrences' = DOMAIN occurrences
         /\ \A o \in DOMAIN occurrences : occurrences'[o] \in OccurrenceRow
  <1>1. schedules' = [schedules EXCEPT ![s] = record]
    BY DEF Save
  <1>2. DOMAIN occurrences' = DOMAIN occurrences
    BY DEF Save
  <1>3. ASSUME NEW o \in DOMAIN occurrences
        PROVE  occurrences'[o] \in OccurrenceRow
    <2> DEFINE due == DueAt(record.plan, o[2])
    <2>1. occurrences[o] \in OccurrenceRow /\ o[2] \in Days
      BY DEF TypeOK, Occurrence
    <2>2. record.plan \in Plan
      BY DEF Revision
    <2>3. due = NoDue \/ due \in Nat
      BY <2>1, <2>2, DueInItsDay
    <2>4. Revised(occurrences[o], record.revision, due) \in OccurrenceRow
      BY <2>1, <2>3 DEF Revised, OccurrenceRow
    <2>5. occurrences'[o] = IF o[1] = s /\ occurrences[o].status = "waiting"
                            THEN Revised(occurrences[o], record.revision, due)
                            ELSE occurrences[o]
      BY DEF Save
    <2>6. QED
      BY <2>1, <2>4, <2>5
  <1>4. QED
    BY <1>1, <1>2, <1>3 DEF TypeOK

(* The days of a schedule that were recorded, and where a poll begins.     *)
LEMMA FirstDayTyped ==
  ASSUME TypeOK, NEW s \in ScheduleId
  PROVE  /\ DaysRecorded(s) # {} => /\ FirstDay(s) \in DaysRecorded(s)
                                    /\ \A d \in DaysRecorded(s) : d <= FirstDay(s)
         /\ DaysRecorded(s) = {} => FirstDay(s) = Day(schedules[s].configured)
         /\ FirstDay(s) \in Days
  <1>1. schedules[s].configured \in Time
    BY DEF TypeOK, Revision
  <1>2. CASE DaysRecorded(s) = {}
    BY <1>1, <1>2, DayInDays DEF FirstDay
  <1>3. CASE DaysRecorded(s) # {}
    <2>1. Day(Horizon) \in Nat /\ DaysRecorded(s) \in SUBSET (0..Day(Horizon))
      BY DayOfTime, ConstantsAssumption DEF DaysRecorded, Days, Day
    <2>2. \E d \in DaysRecorded(s) : \A c \in DaysRecorded(s) : c <= d
      BY <1>3, <2>1, Greatest
    <2>3. FirstDay(s) \in DaysRecorded(s) /\ \A d \in DaysRecorded(s) : d <= FirstDay(s)
      BY <1>3, <2>2 DEF FirstDay
    <2>4. FirstDay(s) \in Days
      BY <2>3 DEF DaysRecorded
    <2>5. QED
      BY <1>3, <2>3, <2>4
  <1>4. QED
    BY <1>2, <1>3

LEMMA DueDaysTyped ==
  ASSUME TypeOK, NEW s \in ScheduleId, NEW now \in Time, NEW d \in DueDays(s, now)
  PROVE  /\ d \in Days /\ d \in Nat /\ d <= Day(now)
         /\ DueAt(schedules[s].plan, d) \in Nat
         /\ DueAt(schedules[s].plan, d) # NoDue
  <1>1. FirstDay(s) \in Nat /\ Day(now) \in Nat /\ Day(now) \in Days
    BY FirstDayTyped, DayInDays, DaysAreNat
  <1>2. d \in Nat /\ d <= Day(now) /\ d \in Days
    BY <1>1, DaysAreNat DEF DueDays
  <1>3. schedules[s].plan \in Plan
    BY DEF TypeOK, Revision
  <1>4. DueAt(schedules[s].plan, d) # NoDue
    BY DEF DueDays, IsDue
  <1>5. QED
    BY <1>2, <1>3, <1>4, DueInItsDay

(* A poll keeps every row, skips those that waited too long, ...           *)
LEMMA PolledRow ==
  ASSUME TypeOK, NEW s \in ScheduleId, NEW now \in Time, NEW o \in DOMAIN occurrences
  PROVE  /\ o \in DOMAIN Recorded(s, now)
         /\ \/ Recorded(s, now)[o] = occurrences[o]
            \/ /\ occurrences[o].status = "waiting"
               /\ Recorded(s, now)[o] = [occurrences[o] EXCEPT !.status = "skipped"]
  <1>1. o \in Occurrence /\ occurrences[o] \in OccurrenceRow
    BY DEF TypeOK
  <1>2. o = <<o[1], o[2]>>
    BY <1>1 DEF Occurrence
  <1>3. /\ o \in DOMAIN Recorded(s, now)
        /\ Recorded(s, now)[o] = IF o[1] = s /\ o[2] \in DueDays(s, now) THEN Polled(s, o[2], now)
                                 ELSE occurrences[o]
    BY DEF Recorded
  <1>4. o[1] = s => Polled(s, o[2], now) =
          [occurrences[o] EXCEPT !.status =
             IF @ = "waiting" /\ Expired(s, o[2], now) THEN "skipped" ELSE @]
    BY <1>2 DEF Polled
  <1>5. [occurrences[o] EXCEPT !.status = occurrences[o].status] = occurrences[o]
    BY <1>1 DEF OccurrenceRow
  <1>6. QED
    BY <1>3, <1>4, <1>5

(* ... and adds rows of the latest revision.                               *)
LEMMA AddedRow ==
  ASSUME TypeOK, NEW s \in ScheduleId, NEW now \in Time, Saved(s),
         NEW o \in DOMAIN Recorded(s, now) \ DOMAIN occurrences
  PROVE  /\ o \in Occurrence /\ o[1] = s /\ o[2] \in DueDays(s, now)
         /\ Recorded(s, now)[o].revision = schedules[s].revision
         /\ Recorded(s, now)[o].due = DueAt(schedules[s].plan, o[2])
         /\ Recorded(s, now)[o].status \in {"waiting", "skipped"}
         /\ Recorded(s, now)[o] \in OccurrenceRow
  <1>1. PICK d \in DueDays(s, now) : o = <<s, d>>
    BY DEF Recorded
  <1>2. Recorded(s, now)[o] = Polled(s, d, now)
    BY <1>1 DEF Recorded
  <1>3. Polled(s, d, now) = [revision |-> schedules[s].revision,
                             due |-> DueAt(schedules[s].plan, d),
                             status |-> IF Expired(s, d, now) THEN "skipped" ELSE "waiting"]
    BY <1>1 DEF Polled
  <1>4. schedules[s].revision \in 1..MaxRevisions /\ DueAt(schedules[s].plan, d) \in Nat
    BY DueDaysTyped, ConstantsAssumption DEF TypeOK, Saved, Revision
  <1>5. d \in Days
    BY DueDaysTyped
  <1>6. QED
    BY <1>1, <1>2, <1>3, <1>4, <1>5 DEF OccurrenceRow, Occurrence

LEMMA TypeInit == Init => TypeInv
  <1> SUFFICES ASSUME Init PROVE TypeInv
    OBVIOUS
  <1>1. (CHOOSE p \in Plan : TRUE) \in Plan
    BY ConstantsAssumption
  <1>2. 0 \in Time /\ 0 \in 0..MaxRevisions
    BY ConstantsAssumption DEF Time
  <1>3. scene \in Scene /\ clock \in Time
    BY <1>2 DEF Init
  <1>4. schedules \in [ScheduleId -> Revision]
    BY <1>1, <1>2 DEF Init, Revision
  <1>5. ticks \in [Tick -> TickState] /\ editors \in [Editor -> EditorState]
    BY DEF Init, TickState, EditorState
  <1>6. DOMAIN observations = {} /\ DOMAIN occurrences = {} /\ DOMAIN prepared = {}
        /\ attempts \in Seq(Attempt)
    BY DEF Init
  <1>7. EditorsFollow
    BY DEF Init, EditorsFollow, Idle
  <1>8. QED
    BY <1>3, <1>4, <1>5, <1>6, <1>7
    DEF Init, TypeInv, TypeOK, ObservedAreSaved, TicksArePast, RecordedHaveBegun

(* What an operator saves: a revision that was read and is still followed. *)
LEMMA EditTyped ==
  ASSUME TypeInv, NEW e \in Editor, editors[e].pc = "read",
         NEW active \in BOOLEAN, NEW paused \in BOOLEAN, NEW plan \in Plan,
         Save(editors[e].of, Edited(e, active, paused, plan)), Closes(e)
  PROVE  TypeInv'
  <1> DEFINE s == editors[e].of
             record == Edited(e, active, paused, plan)
  <1>1. s \in ScheduleId /\ editors[e].now \in Time /\ editors[e].seen \in Revision
    BY EditorShape DEF TypeInv
  <1>2. record \in Revision /\ record.revision \in 1..MaxRevisions
        /\ record.revision = schedules[s].revision + 1 /\ schedules[s].revision \in Nat
    <2>1. editors[e].seen.revision \in Nat /\ editors[e].seen.revision < MaxRevisions
      BY <1>1, ConstantsAssumption DEF TypeInv, EditorsFollow, Revision
    <2>2. record.revision = editors[e].seen.revision + 1
      BY DEF Edited
    <2>3. record.revision = schedules[s].revision + 1
      BY DEF Save, Follows
    <2>4. schedules[s].revision \in Nat
      BY <1>1 DEF TypeInv, TypeOK, Revision
    <2>5. record \in Revision
      BY <1>1, <2>1, ConstantsAssumption DEF Edited, Revision
    <2>7. MaxRevisions \in Nat
      BY ConstantsAssumption
    <2> HIDE DEF record
    <2>6. QED
      BY <2>1, <2>2, <2>3, <2>4, <2>5, <2>7
  <1>3. /\ schedules' \in [ScheduleId -> Revision]
        /\ DOMAIN occurrences' = DOMAIN occurrences
        /\ \A o \in DOMAIN occurrences : occurrences'[o] \in OccurrenceRow
    BY <1>1, <1>2, SaveTyped DEF TypeInv
  <1>4. /\ editors' = [editors EXCEPT ![e] = Idle]
        /\ UNCHANGED <<scene, observations, prepared, attempts, ticks, clock>>
    BY DEF Closes
  <1>5. TypeOK'
    <2>1. editors' \in [Editor -> EditorState]
      BY <1>4 DEF TypeInv, TypeOK, EditorState
    <2>2. QED
      BY <1>3, <1>4, <2>1 DEF TypeInv, TypeOK
  <1>6. schedules' = [schedules EXCEPT ![s] = record]
    BY DEF Save
  <1>7. EditorsFollow'
    <2> SUFFICES ASSUME NEW f \in Editor, editors'[f].pc = "read"
                 PROVE  /\ editors'[f].seen.revision < MaxRevisions
                        /\ editors'[f].seen.revision <= schedules'[editors'[f].of].revision
                        /\ editors'[f].seen.revision = schedules'[editors'[f].of].revision =>
                             editors'[f].seen = schedules'[editors'[f].of]
      BY DEF EditorsFollow
    <2>1. f # e /\ editors'[f] = editors[f]
      BY <1>4 DEF Idle, TypeInv, TypeOK
    <2>2. /\ editors[f].of \in ScheduleId /\ editors[f].seen \in Revision
          /\ editors[f].seen.revision < MaxRevisions
          /\ editors[f].seen.revision <= schedules[editors[f].of].revision
          /\ editors[f].seen.revision = schedules[editors[f].of].revision =>
               editors[f].seen = schedules[editors[f].of]
      BY <2>1, EditorShape DEF TypeInv, EditorsFollow
    <2>3. CASE editors[f].of = s
      <3>1. schedules'[s].revision = schedules[s].revision + 1
        BY <1>1, <1>2, <1>6 DEF TypeInv, TypeOK
      <3>2. editors[f].seen.revision \in Nat
        BY <2>2 DEF Revision
      <3>3. QED
        BY <1>2, <2>1, <2>2, <2>3, <3>1, <3>2
    <2>4. CASE editors[f].of # s
      <3>1. schedules'[editors[f].of] = schedules[editors[f].of]
        BY <1>6, <2>2, <2>4 DEF TypeInv, TypeOK
      <3>2. QED
        BY <2>1, <2>2, <3>1
    <2>5. QED
      BY <2>3, <2>4
  <1>8. ObservedAreSaved'
    <2>1. \A x \in ScheduleId : schedules[x].revision > 0 => schedules'[x].revision > 0
      BY <1>1, <1>2, <1>6 DEF TypeInv, TypeOK
    <2>2. QED
      BY <1>4, <2>1 DEF TypeInv, TypeOK, ObservedAreSaved, Saved
  <1>9. RecordedHaveBegun' /\ TicksArePast'
    BY <1>3, <1>4 DEF TypeInv, RecordedHaveBegun, TicksArePast
  <1>10. QED
    BY <1>5, <1>7, <1>8, <1>9 DEF TypeInv

(* A tick goes on with its schedule and its time.                          *)
LEMMA TickGoesOn ==
  ASSUME TypeOK, NEW k \in Tick, ticks[k] # Idle, ticks[k].pc # "started",
         NEW next \in {"observed", "polled", "overlap", "clear", "prepared"}
  PROVE  [ticks[k] EXCEPT !.pc = next] \in TickState
  <1>1. ticks[k] = [pc |-> ticks[k].pc, of |-> ticks[k].of, now |-> ticks[k].now]
    BY TickShape
  <1>2. [ticks[k] EXCEPT !.pc = next] = [pc |-> next, of |-> ticks[k].of, now |-> ticks[k].now]
    BY <1>1
  <1>3. QED
    BY <1>2, TickShape DEF TickState

LEMMA ObservationTyped ==
  ASSUME TypeInv, NEW s \in ScheduleId, Saved(s), NEW record \in Observation,
         SaveObservation(s, record)
  PROVE  /\ DOMAIN observations' \subseteq ScheduleId
         /\ \A x \in DOMAIN observations' : observations'[x] \in Observation /\ Saved(x)
  <1>1. /\ DOMAIN observations' = DOMAIN observations \cup {s}
        /\ observations'[s] = record
        /\ \A x \in DOMAIN observations : x # s => observations'[x] = observations[x]
    BY DEF SaveObservation, With
  <1>2. /\ DOMAIN observations \subseteq ScheduleId
        /\ \A x \in DOMAIN observations : observations[x] \in Observation /\ Saved(x)
    BY DEF TypeInv, TypeOK, ObservedAreSaved
  <1>3. QED
    BY <1>1, <1>2

LEMMA PollTyped ==
  ASSUME TypeInv, NEW s \in ScheduleId, NEW now \in Time, now <= clock, Saved(s),
         occurrences' = Recorded(s, now)
  PROVE  /\ DOMAIN occurrences' \subseteq Occurrence
         /\ \A o \in DOMAIN occurrences' : occurrences'[o] \in OccurrenceRow
         /\ \A o \in DOMAIN occurrences' : o[2] <= Day(clock)
  <1> DEFINE row == Recorded(s, now)
  <1>1. ASSUME NEW o \in DOMAIN occurrences
        PROVE  o \in Occurrence /\ row[o] \in OccurrenceRow /\ o[2] <= Day(clock)
    <2>1. o \in Occurrence /\ occurrences[o] \in OccurrenceRow /\ o[2] <= Day(clock)
      BY DEF TypeInv, TypeOK, RecordedHaveBegun
    <2>2. [occurrences[o] EXCEPT !.status = "skipped"] \in OccurrenceRow
      BY <2>1 DEF OccurrenceRow
    <2>3. QED
      BY <2>1, <2>2, PolledRow DEF TypeInv
  <1>2. ASSUME NEW o \in DOMAIN row \ DOMAIN occurrences
        PROVE  o \in Occurrence /\ row[o] \in OccurrenceRow /\ o[2] <= Day(clock)
    <2>1. o \in Occurrence /\ o[2] \in DueDays(s, now) /\ row[o] \in OccurrenceRow
      BY AddedRow DEF TypeInv
    <2>2. o[2] \in Nat /\ o[2] <= Day(now)
      BY <2>1, DueDaysTyped DEF TypeInv
    <2>3. clock \in Time /\ clock \in Nat /\ now \in Nat
      BY DayInDays DEF TypeInv, TypeOK
    <2>4. Day(now) \in Nat /\ Day(clock) \in Nat /\ Day(now) <= Day(clock)
      BY <2>3, DayMonotonic, DayOfTime
    <2>5. QED
      BY <2>1, <2>2, <2>4
  <1>3. QED
    BY <1>1, <1>2

(* Changes of a row's status keep the rows.                                *)
LEMMA StatusTyped ==
  ASSUME TypeInv, NEW o, NEW row \in OccurrenceRow, occurrences' = [occurrences EXCEPT ![o] = row]
  PROVE  /\ DOMAIN occurrences' = DOMAIN occurrences
         /\ \A q \in DOMAIN occurrences' : occurrences'[q] \in OccurrenceRow
  BY DEF TypeInv, TypeOK

LEMMA ClaimTyped ==
  ASSUME TypeInv, NEW o \in Occurrence, NEW now \in Sampled, NEW retry \in BOOLEAN,
         Claim(o, now, retry)
  PROVE  /\ DOMAIN occurrences' = DOMAIN occurrences
         /\ \A q \in DOMAIN occurrences' : occurrences'[q] \in OccurrenceRow
         /\ attempts' \in Seq(Attempt)
  <1>1. o \in DOMAIN occurrences /\ occurrences[o] \in OccurrenceRow
    BY DEF Claim, Eligible, TypeInv, TypeOK
  <1>2. [occurrences[o] EXCEPT !.status = "claimed"] \in OccurrenceRow
    BY <1>1 DEF OccurrenceRow
  <1>3. occurrences' = [occurrences EXCEPT ![o] = [occurrences[o] EXCEPT !.status = "claimed"]]
    BY DEF Claim
  <1>4. now \in Time
    BY SampledTyped DEF TypeInv
  <1>5. [of |-> o, retry |-> retry, at |-> now, status |-> "running"] \in Attempt
    BY <1>4 DEF Attempt
  <1>6. attempts' \in Seq(Attempt)
    BY <1>5 DEF Claim, TypeInv, TypeOK
  <1>7. QED
    BY <1>2, <1>3, <1>6, StatusTyped

LEMMA TypeStep == TypeInv /\ [Next]_vars => TypeInv'
  <1> SUFFICES ASSUME TypeInv, [Next]_vars PROVE TypeInv'
    OBVIOUS
  <1>0. TypeOK /\ EditorsFollow /\ ObservedAreSaved /\ TicksArePast /\ RecordedHaveBegun
    BY DEF TypeInv
  <1>1. ASSUME NEW e \in Editor, NEW s \in ScheduleId, Read(e, s)
        PROVE  TypeInv'
    <2>1. PICK now \in Sampled :
            editors' = [editors EXCEPT ![e] =
                          [pc |-> "read", of |-> s, now |-> now, seen |-> schedules[s]]]
      BY <1>1 DEF Read
    <2>2. now \in Time /\ schedules[s] \in Revision /\ schedules[s].revision < MaxRevisions
      BY <1>0, <1>1, SampledTyped DEF Read, TypeOK
    <2>3. schedules[s].revision \in Nat
      BY <2>2 DEF Revision
    <2>4. editors' \in [Editor -> EditorState]
      BY <1>0, <2>1, <2>2 DEF TypeOK, EditorState
    <2>5. EditorsFollow'
      BY <1>0, <1>1, <2>1, <2>2, <2>3 DEF EditorsFollow, Read, TypeOK
    <2>6. QED
      BY <1>0, <1>1, <2>4, <2>5
      DEF Read, TypeInv, TypeOK, ObservedAreSaved, TicksArePast, RecordedHaveBegun, Saved
  <1>2. ASSUME NEW e \in Editor, Configure(e)
        PROVE  TypeInv'
    <2>1. PICK f \in scene.files : Save(editors[e].of, Edited(e, f.active, f.paused, f.plan))
      BY <1>2 DEF Configure
    <2>2. f.active \in BOOLEAN /\ f.paused \in BOOLEAN /\ f.plan \in Plan
      BY <1>0, ConstantsAssumption DEF TypeOK
    <2>3. editors[e].pc = "read" /\ Closes(e)
      BY <1>2 DEF Configure
    <2>4. QED
      BY <2>1, <2>2, <2>3, EditTyped
  <1>3. ASSUME NEW e \in Editor, PauseOrResume(e)
        PROVE  TypeInv'
    <2>1. PICK paused \in BOOLEAN :
            Save(editors[e].of, Edited(e, editors[e].seen.active, paused, editors[e].seen.plan))
      BY <1>3 DEF PauseOrResume
    <2>2. editors[e].pc = "read" /\ Closes(e)
      BY <1>3 DEF PauseOrResume
    <2>3. editors[e].seen.active \in BOOLEAN /\ editors[e].seen.plan \in Plan
      BY <1>0, <2>2, EditorShape DEF Revision
    <2>4. QED
      BY <2>1, <2>2, <2>3, EditTyped
  <1>4. ASSUME NEW e \in Editor, Abandon(e)
        PROVE  TypeInv'
    <2>1. editors' \in [Editor -> EditorState]
      BY <1>0, <1>4 DEF Abandon, TypeOK, EditorState
    <2>2. EditorsFollow'
      BY <1>0, <1>4 DEF Abandon, EditorsFollow, TypeOK, Idle
    <2>3. QED
      BY <1>0, <1>4, <2>1, <2>2
      DEF Abandon, TypeInv, TypeOK, ObservedAreSaved, TicksArePast, RecordedHaveBegun, Saved
  <1> DEFINE Elsewhere == UNCHANGED <<scene, schedules, editors, clock>>
  <1>5. ASSUME Elsewhere,
               /\ DOMAIN observations' \subseteq ScheduleId
               /\ \A x \in DOMAIN observations' : observations'[x] \in Observation /\ Saved(x),
               /\ DOMAIN occurrences' \subseteq Occurrence
               /\ \A o \in DOMAIN occurrences' : occurrences'[o] \in OccurrenceRow
               /\ \A o \in DOMAIN occurrences' : o[2] <= Day(clock),
               /\ DOMAIN prepared' \subseteq Occurrence
               /\ \A o \in DOMAIN prepared' : prepared'[o] \in Time,
               attempts' \in Seq(Attempt), ticks' \in [Tick -> TickState], TicksArePast'
        PROVE  TypeInv'
    BY <1>0, <1>5 DEF TypeInv, TypeOK, EditorsFollow, ObservedAreSaved, RecordedHaveBegun, Saved
  <1>6. /\ DOMAIN observations \subseteq ScheduleId
        /\ \A x \in DOMAIN observations : observations[x] \in Observation /\ Saved(x)
        /\ DOMAIN occurrences \subseteq Occurrence
        /\ \A o \in DOMAIN occurrences : occurrences[o] \in OccurrenceRow
        /\ \A o \in DOMAIN occurrences : o[2] <= Day(clock)
        /\ DOMAIN prepared \subseteq Occurrence
        /\ \A o \in DOMAIN prepared : prepared[o] \in Time
        /\ attempts \in Seq(Attempt) /\ ticks \in [Tick -> TickState]
    BY <1>0 DEF TypeOK, ObservedAreSaved, RecordedHaveBegun
  <1>. HIDE DEF Elsewhere
  <1>10. ASSUME UNCHANGED <<ticks, clock>>
         PROVE  TicksArePast'
    BY <1>0, <1>10 DEF TicksArePast
  (* A tick goes on, ends, or starts. *)
  <1>11. ASSUME NEW k \in Tick, UNCHANGED clock,
                \/ ticks' = [ticks EXCEPT ![k] = Idle]
                \/ /\ ticks[k] # Idle
                   /\ \E next \in TickState : /\ ticks' = [ticks EXCEPT ![k] = next]
                                              /\ next.now = ticks[k].now
                \/ \E next \in TickState : /\ ticks' = [ticks EXCEPT ![k] = next]
                                           /\ next.now <= clock
         PROVE  TicksArePast' /\ ticks' \in [Tick -> TickState]
    <2>1. Idle \in TickState /\ ticks[k] \in TickState
      BY <1>6 DEF TickState
    <2>2. PICK next \in TickState :
            /\ ticks' = [ticks EXCEPT ![k] = next]
            /\ next = Idle \/ (ticks[k] # Idle /\ next.now = ticks[k].now) \/ next.now <= clock
      BY <1>11, <2>1
    <2>3. ticks' \in [Tick -> TickState]
      BY <1>6, <2>2
    <2>4. ticks'[k] = next /\ \A j \in Tick \ {k} : ticks'[j] = ticks[j]
      BY <1>6, <2>2
    <2>5. TicksArePast'
      BY <1>0, <1>11, <2>2, <2>4 DEF TicksArePast
    <2>6. QED
      BY <2>3, <2>5
  <1>7. ASSUME NEW k \in Tick, NEW s \in ScheduleId, StartTick(k, s)
        PROVE  TypeInv'
    <2>1. PICK now \in Sampled :
            ticks' = [ticks EXCEPT ![k] = [pc |-> "started", of |-> s, now |-> now,
                        revision |-> schedules[s].revision, enabled |-> schedules[s].active]]
      BY <1>7 DEF StartTick
    <2>2. /\ now \in Time /\ now <= clock /\ schedules[s].revision \in 1..MaxRevisions
          /\ schedules[s].active \in BOOLEAN
      BY <1>0, <1>7, SampledTyped, ConstantsAssumption DEF StartTick, Saved, TypeOK, Revision
    <2> DEFINE next == [pc |-> "started", of |-> s, now |-> now,
                        revision |-> schedules[s].revision, enabled |-> schedules[s].active]
    <2>3. next \in TickState /\ next.now <= clock
      BY <2>2 DEF TickState
    <2>4. TicksArePast' /\ ticks' \in [Tick -> TickState]
      BY <1>7, <1>11, <2>1, <2>3 DEF StartTick
    <2>5. QED
      BY <1>5, <1>6, <1>7, <2>4 DEF StartTick, Elsewhere
  <1>8. ASSUME NEW k \in Tick, Observe(k)
        PROVE  TypeInv'
    <2> DEFINE s == ticks[k].of
               record == [revision |-> ticks[k].revision, at |-> ticks[k].now,
                          enabled |-> ticks[k].enabled]
               next == [pc |-> "observed", of |-> ticks[k].of, now |-> ticks[k].now]
    <2>1. SaveObservation(s, record) /\ ticks[k].pc = "started" /\ ticks[k] # Idle
      BY <1>8 DEF Observe, Idle
    <2>2. /\ s \in ScheduleId /\ ticks[k].now \in Time /\ ticks[k].enabled \in BOOLEAN
          /\ ticks[k].revision \in 1..MaxRevisions
      BY <1>0, <2>1, TickShape
    <2>3. record \in Observation /\ Saved(s)
      BY <2>1, <2>2, ConstantsAssumption DEF Observation, SaveObservation, Saved
    <2>4. /\ DOMAIN observations' \subseteq ScheduleId
          /\ \A x \in DOMAIN observations' : observations'[x] \in Observation /\ Saved(x)
      BY <2>1, <2>2, <2>3, ObservationTyped
    <2>5. next \in TickState /\ next.now = ticks[k].now
      BY <2>2 DEF TickState
    <2>6. TicksArePast' /\ ticks' \in [Tick -> TickState]
      BY <1>8, <1>11, <2>1, <2>5 DEF Observe
    <2>7. QED
      BY <1>5, <1>6, <1>8, <2>4, <2>6 DEF Observe, Elsewhere
  <1>9. ASSUME NEW k \in Tick, ticks[k] # Idle, ticks[k].pc # "started", UNCHANGED clock,
               NEW step \in {"polled", "overlap", "clear", "prepared"},
               \/ ticks' = [ticks EXCEPT ![k] = Idle]
               \/ ticks' = [ticks EXCEPT ![k] = [ticks[k] EXCEPT !.pc = step]]
        PROVE  TicksArePast' /\ ticks' \in [Tick -> TickState]
    <2>1. [ticks[k] EXCEPT !.pc = step] \in TickState
      BY <1>0, <1>9, TickGoesOn
    <2>2. [ticks[k] EXCEPT !.pc = step].now = ticks[k].now
      BY <1>0, <1>9, TickShape
    <2>3. QED
      BY <1>9, <1>11, <2>1, <2>2
  <1>12. ASSUME NEW k \in Tick, RecordDue(k)
         PROVE  TypeInv'
    <2> DEFINE s == ticks[k].of
               now == ticks[k].now
    <2>1. ticks[k].pc = "observed" /\ ticks[k] # Idle /\ Authority(s, now)
          /\ occurrences' = Recorded(s, now)
      BY <1>12 DEF RecordDue, Idle
    <2>2. s \in ScheduleId /\ now \in Time /\ now <= clock
      BY <1>0, <2>1, TickShape DEF TicksArePast
    <2>3. Saved(s)
      BY <1>6, <2>1 DEF Authority, Fresh
    <2>4. /\ DOMAIN occurrences' \subseteq Occurrence
          /\ \A o \in DOMAIN occurrences' : occurrences'[o] \in OccurrenceRow
          /\ \A o \in DOMAIN occurrences' : o[2] <= Day(clock)
      BY <2>1, <2>2, <2>3, PollTyped
    <2>5. TicksArePast' /\ ticks' \in [Tick -> TickState]
      BY <1>9, <1>12, <2>1 DEF RecordDue
    <2>6. QED
      BY <1>5, <1>6, <1>12, <2>4, <2>5 DEF RecordDue, Elsewhere
  <1>13. ASSUME NEW s \in ScheduleId, RecordDueByHand(s)
         PROVE  TypeInv'
    <2>1. PICK now \in Sampled : occurrences' = Recorded(s, now)
      BY <1>13 DEF RecordDueByHand
    <2>2. now \in Time /\ now <= clock /\ Saved(s)
      BY <1>0, <1>13, SampledTyped DEF RecordDueByHand
    <2>3. /\ DOMAIN occurrences' \subseteq Occurrence
          /\ \A o \in DOMAIN occurrences' : occurrences'[o] \in OccurrenceRow
          /\ \A o \in DOMAIN occurrences' : o[2] <= Day(clock)
      BY <2>1, <2>2, PollTyped
    <2>4. QED
      BY <1>5, <1>6, <1>10, <1>13, <2>3 DEF RecordDueByHand, Elsewhere
  <1>14. ASSUME NEW k \in Tick, LookForOverlap(k)
         PROVE  TypeInv'
    <2>1. ticks[k] # Idle /\ ticks[k].pc # "started"
      BY <1>14 DEF LookForOverlap, Idle
    <2>2. TicksArePast' /\ ticks' \in [Tick -> TickState]
      <3>1. CASE Overlap
        BY <1>9, <1>14, <2>1, <3>1 DEF LookForOverlap
      <3>2. CASE ~Overlap
        BY <1>9, <1>14, <2>1, <3>2 DEF LookForOverlap
      <3>3. QED
        BY <3>1, <3>2
    <2>3. QED
      BY <1>5, <1>6, <1>14, <2>2 DEF LookForOverlap, Elsewhere
  <1>15. ASSUME NEW k \in Tick, SkipOverlap(k)
         PROVE  TypeInv'
    <2>1. TicksArePast' /\ ticks' \in [Tick -> TickState]
      BY <1>11, <1>15 DEF SkipOverlap
    <2>2. /\ DOMAIN occurrences' = DOMAIN occurrences
          /\ \A o \in DOMAIN occurrences' : occurrences'[o] \in OccurrenceRow
      <3>1. DOMAIN occurrences' = DOMAIN occurrences
        BY <1>15 DEF SkipOverlap
      <3>2. \A row \in OccurrenceRow : GivesUp(row) \in OccurrenceRow
        BY DEF GivesUp, OccurrenceRow
      <3>3. \A o \in DOMAIN occurrences :
              occurrences'[o] = IF o = Today(k) THEN GivesUp(occurrences[o]) ELSE occurrences[o]
        BY <1>15 DEF SkipOverlap
      <3>4. QED
        BY <1>6, <3>1, <3>2, <3>3
    <2>3. QED
      BY <1>5, <1>6, <1>15, <2>1, <2>2 DEF SkipOverlap, Elsewhere
  <1>16. ASSUME NEW o \in Occurrence, NEW now \in Time,
                prepared' = With(prepared, o, now) \/ prepared' = prepared
         PROVE  /\ DOMAIN prepared' \subseteq Occurrence
                /\ \A q \in DOMAIN prepared' : prepared'[q] \in Time
    BY <1>6, <1>16 DEF With
  <1>17. ASSUME NEW k \in Tick, Prepare(k)
         PROVE  TypeInv'
    <2>1. ticks[k] # Idle /\ ticks[k].pc # "started"
      BY <1>17 DEF Prepare, Idle
    <2>2. ticks[k].now \in Time /\ Today(k) \in Occurrence
      BY <1>0, <2>1, TickShape, DayInDays DEF Today, Occurrence
    <2>3. TicksArePast' /\ ticks' \in [Tick -> TickState]
      BY <1>9, <1>17, <2>1 DEF Prepare
    <2>4. /\ DOMAIN prepared' \subseteq Occurrence
          /\ \A q \in DOMAIN prepared' : prepared'[q] \in Time
      BY <1>16, <1>17, <2>2 DEF Prepare
    <2>5. QED
      BY <1>5, <1>6, <1>17, <2>3, <2>4 DEF Prepare, Elsewhere
  <1>18. ASSUME NEW o \in Occurrence, PrepareByHand(o)
         PROVE  TypeInv'
    <2>1. PICK now \in Sampled : prepared' = With(prepared, o, now)
      BY <1>18 DEF PrepareByHand
    <2>2. /\ DOMAIN prepared' \subseteq Occurrence
          /\ \A q \in DOMAIN prepared' : prepared'[q] \in Time
      BY <1>0, <1>16, <2>1, SampledTyped
    <2>3. QED
      BY <1>5, <1>6, <1>10, <1>18, <2>2 DEF PrepareByHand, Elsewhere
  <1>19. ASSUME NEW k \in Tick, ClaimTick(k)
         PROVE  TypeInv'
    <2>1. PICK now \in Sampled : Claim(Today(k), now, FALSE)
      BY <1>19 DEF ClaimTick
    <2>2. Today(k) \in Occurrence
      <3>1. ticks[k] # Idle
        BY <1>19 DEF ClaimTick, Idle
      <3>2. QED
        BY <1>0, <3>1, TickShape, DayInDays DEF Today, Occurrence
    <2>3. TicksArePast' /\ ticks' \in [Tick -> TickState]
      BY <1>11, <1>19, <2>1 DEF ClaimTick, Claim
    <2>4. /\ DOMAIN occurrences' = DOMAIN occurrences
          /\ \A q \in DOMAIN occurrences' : occurrences'[q] \in OccurrenceRow
          /\ attempts' \in Seq(Attempt)
      BY <2>1, <2>2, ClaimTyped
    <2>5. QED
      BY <1>5, <1>6, <2>1, <2>3, <2>4 DEF Claim, Elsewhere
  <1>20. ASSUME NEW o \in Occurrence, ClaimByHand(o)
         PROVE  TypeInv'
    <2>1. PICK now \in Sampled, retry \in BOOLEAN : Claim(o, now, retry)
      BY <1>20 DEF ClaimByHand
    <2>2. /\ DOMAIN occurrences' = DOMAIN occurrences
          /\ \A q \in DOMAIN occurrences' : occurrences'[q] \in OccurrenceRow
          /\ attempts' \in Seq(Attempt)
      BY <2>1, ClaimTyped
    <2>3. UNCHANGED <<ticks, clock>>
      BY <1>20, <2>1 DEF ClaimByHand, Claim
    <2>4. QED
      BY <1>5, <1>6, <1>10, <2>1, <2>2, <2>3 DEF Claim, Elsewhere
  <1>21. CASE ClaimUnscheduled
    <2>1. PICK now \in Sampled :
            attempts' = Append(attempts, [of |-> Unscheduled, retry |-> FALSE, at |-> now,
                                          status |-> "running"])
      BY <1>21 DEF ClaimUnscheduled
    <2>2. attempts' \in Seq(Attempt)
      BY <1>0, <1>6, <2>1, SampledTyped DEF Attempt
    <2>3. QED
      BY <1>5, <1>6, <1>10, <1>21, <2>2 DEF ClaimUnscheduled, Elsewhere
  <1>22. CASE End
    <2>1. PICK i \in DOMAIN attempts, status \in {"succeeded", "failed"} :
            attempts' = [attempts EXCEPT ![i].status = status]
      BY <1>22 DEF End
    <2>2. attempts' \in Seq(Attempt)
      <3>1. attempts[i] \in Attempt
        BY <1>6
      <3>2. [attempts[i] EXCEPT !.status = status] \in Attempt
        BY <3>1 DEF Attempt
      <3>3. QED
        BY <1>6, <2>1, <3>2
    <2>3. QED
      BY <1>5, <1>6, <1>10, <1>22, <2>2 DEF End, Elsewhere
  <1>23. ASSUME NEW k \in Tick, StopTick(k)
         PROVE  TypeInv'
    <2>1. TicksArePast' /\ ticks' \in [Tick -> TickState]
      BY <1>11, <1>23 DEF StopTick
    <2>2. QED
      BY <1>5, <1>6, <1>23, <2>1 DEF StopTick, Elsewhere
  <1>24. ASSUME NEW s \in ScheduleId, ObserveByHand(s)
         PROVE  TypeInv'
    <2>1. PICK at \in Sampled, enabled \in scene.reports :
            SaveObservation(s, [revision |-> schedules[s].revision, at |-> at,
                                enabled |-> enabled])
      BY <1>24 DEF ObserveByHand
    <2>2. [revision |-> schedules[s].revision, at |-> at, enabled |-> enabled] \in Observation
      BY <1>0, SampledTyped, ConstantsAssumption DEF TypeOK, Observation, Revision
    <2>3. /\ DOMAIN observations' \subseteq ScheduleId
          /\ \A x \in DOMAIN observations' : observations'[x] \in Observation /\ Saved(x)
      BY <1>24, <2>1, <2>2, ObservationTyped DEF ObserveByHand
    <2>4. QED
      BY <1>5, <1>6, <1>10, <1>24, <2>3 DEF ObserveByHand, Elsewhere
  <1>25. CASE Pass
    <2>1. clock' = clock + 1 /\ clock < scene.end /\ scene.end \in 0..Horizon
      BY <1>0, <1>25, ConstantsAssumption DEF Pass, TypeOK
    <2>2. clock \in Nat /\ clock' \in Nat /\ clock' \in Time
      BY <1>0, <2>1, ConstantsAssumption DEF TypeOK, Time
    <2>3. Day(clock) \in Nat /\ Day(clock') \in Nat /\ Day(clock) <= Day(clock')
      BY <2>1, <2>2, DayOfTime, DayMonotonic
    <2>4. TicksArePast'
      <3>1. \A k \in Tick : ticks[k] # Idle => ticks[k].now \in Nat /\ ticks[k].now <= clock
        BY <1>0, TickShape, DayInDays DEF TicksArePast
      <3>2. QED
        BY <1>25, <2>1, <2>2, <3>1 DEF Pass, TicksArePast
    <2>5. RecordedHaveBegun'
      <3>1. \A o \in DOMAIN occurrences : o[2] \in Nat /\ o[2] <= Day(clock)
        BY <1>0, DaysAreNat DEF RecordedHaveBegun, TypeOK, Occurrence
      <3>2. Day(clock)' = Day(clock')
        BY DEF Day
      <3>3. QED
        BY <1>25, <2>3, <3>1, <3>2 DEF Pass, RecordedHaveBegun
    <2>6. QED
      BY <1>0, <1>25, <2>2, <2>4, <2>5
      DEF Pass, TypeInv, TypeOK, EditorsFollow, ObservedAreSaved, Saved
  <1>26. CASE UNCHANGED vars
    BY <1>5, <1>6, <1>10, <1>26 DEF vars, Elsewhere
  <1>27. QED
    BY <1>0, <1>1, <1>2, <1>3, <1>4, <1>7, <1>8, <1>12, <1>13, <1>14, <1>15, <1>17, <1>18, <1>19,
       <1>20, <1>21, <1>22, <1>23, <1>24, <1>25, <1>26, Cases

(* Every reachable state of the tables, ticks and operators is well typed. *)
THEOREM TypeCorrect == Spec => []TypeOK
  <1>1. TypeInv => TypeOK
    BY DEF TypeInv
  <1>2. QED
    BY <1>1, TypeInit, TypeStep, PTL DEF Spec

-----------------------------------------------------------------------------
(* What a step does to the rows of occurrences and to the attempts.  All   *)
(* that the next theorems need of the actions is here.                     *)

(* How one row may change: it is carried to a revision that is saved, or   *)
(* skipped, while it waits, or claimed with an attempt.                    *)
Kept(o) == o \in DOMAIN occurrences' /\ occurrences'[o] = occurrences[o]

Skipped(o) ==
  /\ o \in DOMAIN occurrences'
  /\ occurrences[o].status = "waiting"
  /\ occurrences'[o] = [occurrences[o] EXCEPT !.status = "skipped"]

Carried(o, record) ==
  /\ o \in DOMAIN occurrences'
  /\ occurrences[o].status = "waiting"
  /\ occurrences'[o] = Revised(occurrences[o], record.revision, DueAt(record.plan, o[2]))

Inserted(o) ==
  /\ o \in Occurrence
  /\ occurrences'[o].revision = schedules[o[1]].revision
  /\ occurrences'[o].due = DueAt(schedules[o[1]].plan, o[2])
  /\ occurrences'[o].status \in {"waiting", "skipped"}

(* The three kinds of steps.                                               *)
Edits ==
  /\ UNCHANGED attempts
  /\ DOMAIN occurrences' = DOMAIN occurrences
  /\ \E e \in Editor, record \in Revision :
       LET s == editors[e].of IN
       /\ editors[e].pc = "read" /\ s \in ScheduleId
       /\ record.revision = editors[e].seen.revision + 1
       /\ Follows(s, record)
       /\ schedules' = [schedules EXCEPT ![s] = record]
       /\ \A o \in DOMAIN occurrences :
            IF o[1] = s /\ occurrences[o].status = "waiting" THEN Carried(o, record) ELSE Kept(o)

Claims ==
  \E o \in Occurrence, now \in Sampled, retry \in BOOLEAN : Claim(o, now, retry)

Moves ==
  /\ UNCHANGED schedules
  /\ \A o \in DOMAIN occurrences : Kept(o) \/ Skipped(o)
  /\ \A o \in DOMAIN occurrences' \ DOMAIN occurrences : Inserted(o)
  /\ \/ UNCHANGED attempts
     \/ \E now \in Sampled :
          attempts' = Append(attempts, [of |-> Unscheduled, retry |-> FALSE, at |-> now,
                                        status |-> "running"])
     \/ \E i \in DOMAIN attempts, status \in {"succeeded", "failed"} :
          attempts' = [attempts EXCEPT ![i].status = status]

LEMMA SaveEdits ==
  ASSUME TypeInv, NEW e \in Editor, editors[e].pc = "read",
         NEW active \in BOOLEAN, NEW paused \in BOOLEAN, NEW plan \in Plan,
         Save(editors[e].of, Edited(e, active, paused, plan)), Closes(e)
  PROVE  Edits
  <1> DEFINE s == editors[e].of
             record == Edited(e, active, paused, plan)
  <1>1. s \in ScheduleId /\ editors[e].now \in Time /\ editors[e].seen \in Revision
        /\ editors[e].seen.revision < MaxRevisions
    BY EditorShape DEF TypeInv, EditorsFollow
  <1>2. record \in Revision /\ record.revision = editors[e].seen.revision + 1
    BY <1>1, ConstantsAssumption DEF Edited, Revision
  <1>3. /\ Follows(s, record)
        /\ schedules' = [schedules EXCEPT ![s] = record]
        /\ DOMAIN occurrences' = DOMAIN occurrences
    BY DEF Save
  <1>4. ASSUME NEW o \in DOMAIN occurrences
        PROVE  IF o[1] = s /\ occurrences[o].status = "waiting" THEN Carried(o, record) ELSE Kept(o)
    BY DEF Save, Carried, Kept
  <1>5. UNCHANGED attempts
    BY DEF Closes
  <1>6. QED
    BY <1>1, <1>2, <1>3, <1>4, <1>5 DEF Edits

LEMMA PollMoves ==
  ASSUME TypeOK, NEW s \in ScheduleId, NEW now \in Time, Saved(s),
         occurrences' = Recorded(s, now), UNCHANGED <<schedules, attempts>>
  PROVE  Moves
  <1>1. ASSUME NEW o \in DOMAIN occurrences
        PROVE  Kept(o) \/ Skipped(o)
    BY PolledRow DEF Kept, Skipped
  <1>2. ASSUME NEW o \in DOMAIN occurrences' \ DOMAIN occurrences
        PROVE  Inserted(o)
    BY AddedRow DEF Inserted
  <1>3. QED
    BY <1>1, <1>2 DEF Moves

LEMMA Steps ==
  ASSUME TypeInv, [Next]_vars
  PROVE  Edits \/ Claims \/ Moves
  <1>0. TypeOK /\ TicksArePast
    BY DEF TypeInv
  <1>1. ASSUME UNCHANGED <<schedules, occurrences, attempts>>
        PROVE  Moves
    BY <1>1 DEF Moves, Kept
  <1>2. ASSUME NEW e \in Editor, Configure(e)
        PROVE  Edits
    <2>1. PICK f \in scene.files : Save(editors[e].of, Edited(e, f.active, f.paused, f.plan))
      BY <1>2 DEF Configure
    <2>2. f.active \in BOOLEAN /\ f.paused \in BOOLEAN /\ f.plan \in Plan
      BY <1>0, ConstantsAssumption DEF TypeOK
    <2>3. editors[e].pc = "read" /\ Closes(e)
      BY <1>2 DEF Configure
    <2>4. QED
      BY <2>1, <2>2, <2>3, SaveEdits
  <1>3. ASSUME NEW e \in Editor, PauseOrResume(e)
        PROVE  Edits
    <2>1. PICK paused \in BOOLEAN :
            Save(editors[e].of, Edited(e, editors[e].seen.active, paused, editors[e].seen.plan))
      BY <1>3 DEF PauseOrResume
    <2>2. editors[e].pc = "read" /\ Closes(e)
      BY <1>3 DEF PauseOrResume
    <2>3. editors[e].seen.active \in BOOLEAN /\ editors[e].seen.plan \in Plan
      BY <1>0, <2>2, EditorShape DEF Revision
    <2>4. QED
      BY <2>1, <2>2, <2>3, SaveEdits
  <1>4. ASSUME NEW k \in Tick, RecordDue(k)
        PROVE  Moves
    <2>1. ticks[k] # Idle
      BY <1>4 DEF RecordDue, Idle
    <2>2. ticks[k].of \in ScheduleId /\ ticks[k].now \in Time
      BY <1>0, <2>1, TickShape
    <2>3. Saved(ticks[k].of)
      BY <1>4 DEF RecordDue, Authority, Fresh, TypeInv, ObservedAreSaved
    <2>4. occurrences' = Recorded(ticks[k].of, ticks[k].now) /\ UNCHANGED <<schedules, attempts>>
      BY <1>4 DEF RecordDue
    <2>5. QED
      BY <1>0, <2>2, <2>3, <2>4, PollMoves
  <1>5. ASSUME NEW s \in ScheduleId, RecordDueByHand(s)
        PROVE  Moves
    <2>1. PICK now \in Sampled : occurrences' = Recorded(s, now)
      BY <1>5 DEF RecordDueByHand
    <2>2. now \in Time
      BY <1>0, SampledTyped
    <2>3. Saved(s) /\ UNCHANGED <<schedules, attempts>>
      BY <1>5 DEF RecordDueByHand
    <2>4. QED
      BY <1>0, <2>1, <2>2, <2>3, PollMoves
  <1>6. ASSUME NEW k \in Tick, SkipOverlap(k)
        PROVE  Moves
    <2>1. /\ occurrences' = [occurrences EXCEPT ![Today(k)] = GivesUp(@)]
          /\ UNCHANGED <<schedules, attempts>>
      BY <1>6 DEF SkipOverlap
    <2>2. ASSUME NEW o \in DOMAIN occurrences
          PROVE  Kept(o) \/ Skipped(o)
      <3>1. [occurrences[o] EXCEPT !.status = occurrences[o].status] = occurrences[o]
        BY <1>0 DEF TypeOK, OccurrenceRow
      <3>2. QED
        BY <2>1, <3>1 DEF Kept, Skipped, GivesUp
    <2>3. QED
      BY <2>1, <2>2 DEF Moves
  <1>7. ASSUME NEW k \in Tick, ClaimTick(k)
        PROVE  Claims
    <2>1. ticks[k] # Idle
      BY <1>7 DEF ClaimTick, Idle
    <2>2. Today(k) \in Occurrence
      BY <1>0, <2>1, TickShape, DayInDays DEF Today, Occurrence
    <2>3. QED
      BY <1>7, <2>2 DEF ClaimTick, Claims
  <1>8. ASSUME NEW o \in Occurrence, ClaimByHand(o)
        PROVE  Claims
    BY <1>8 DEF ClaimByHand, Claims
  <1>9. CASE ClaimUnscheduled
    BY <1>9 DEF ClaimUnscheduled, Moves, Kept
  <1>10. CASE End
    BY <1>10 DEF End, Moves, Kept
  <1>11. ASSUME NEW e \in Editor, NEW s \in ScheduleId, Read(e, s)
         PROVE  Moves
    BY <1>1, <1>11 DEF Read
  <1>12. ASSUME NEW e \in Editor, Abandon(e)
         PROVE  Moves
    BY <1>1, <1>12 DEF Abandon
  <1>13. ASSUME NEW k \in Tick, \/ \E s \in ScheduleId : StartTick(k, s)
                                \/ Observe(k) \/ LookForOverlap(k) \/ Prepare(k) \/ StopTick(k)
         PROVE  Moves
    BY <1>1, <1>13 DEF StartTick, Observe, LookForOverlap, Prepare, StopTick
  <1>14. ASSUME NEW s \in ScheduleId, ObserveByHand(s)
         PROVE  Moves
    BY <1>1, <1>14 DEF ObserveByHand
  <1>15. ASSUME NEW o \in Occurrence, PrepareByHand(o)
         PROVE  Moves
    BY <1>1, <1>15 DEF PrepareByHand
  <1>16. CASE Pass \/ UNCHANGED vars
    BY <1>1, <1>16 DEF Pass, vars
  <1>17. QED
    BY <1>0, <1>2, <1>3, <1>4, <1>5, <1>6, <1>7, <1>8, <1>9, <1>10, <1>11, <1>12, <1>13, <1>14,
       <1>15, <1>16, Cases

-----------------------------------------------------------------------------
(* One attempt for an occurrence, in its window.                           *)

AttemptsInv == OncePerOccurrence /\ FirstInWindow

LEMMA UnscheduledIsNone == Unscheduled \notin Occurrence
  BY DEF Unscheduled, Occurrence

LEMMA AttemptRows ==
  ASSUME TypeOK, NEW i \in DOMAIN attempts
  PROVE  /\ attempts[i].of \in Occurrence \cup {Unscheduled}
         /\ attempts[i].retry \in BOOLEAN /\ attempts[i].at \in Time
         /\ attempts[i] \in Attempt
  <1>1. attempts[i] \in Attempt
    BY DEF TypeOK
  <1>2. QED
    BY <1>1 DEF Attempt

(* Steps that keep which attempts there are, and for what, keep it if they *)
(* neither claim nor unclaim a row and carry those that wait.              *)
LEMMA RowsKeep ==
  ASSUME TypeOK, AttemptsInv,
         DOMAIN attempts' = DOMAIN attempts,
         \A i \in DOMAIN attempts : /\ attempts'[i].of = attempts[i].of
                                    /\ attempts'[i].retry = attempts[i].retry
                                    /\ attempts'[i].at = attempts[i].at,
         \A o \in DOMAIN occurrences :
           occurrences[o].status = "claimed" => o \in DOMAIN occurrences' /\ occurrences'[o] = occurrences[o],
         \A o \in DOMAIN occurrences' : occurrences'[o].status = "claimed" =>
           o \in DOMAIN occurrences /\ occurrences[o].status = "claimed",
         \A o \in DOMAIN occurrences' : occurrences'[o].status = "waiting" =>
           /\ occurrences'[o].revision = schedules'[o[1]].revision
           /\ occurrences'[o].due = DueAt(schedules'[o[1]].plan, o[2])
  PROVE  AttemptsInv'
  <1>1. \A o : Of(o)' = Of(o)
    BY DEF Of
  <1>2. \A o \in Occurrence :
          Of(o) # {} <=> o \in DOMAIN occurrences /\ occurrences[o].status = "claimed"
    BY DEF AttemptsInv, OncePerOccurrence
  <1>3. \A i, j \in DOMAIN attempts :
          /\ attempts[i].of = attempts[j].of /\ attempts[i].of # Unscheduled
          /\ ~attempts[i].retry /\ ~attempts[j].retry
          => i = j
    BY DEF AttemptsInv, OncePerOccurrence
  <1>4. OncePerOccurrence'
    BY <1>1, <1>2, <1>3 DEF OncePerOccurrence
  <1>5. ASSUME NEW i \in DOMAIN attempts, attempts[i].of # Unscheduled, ~attempts[i].retry
        PROVE  LET o == attempts[i].of IN
               /\ Day(attempts[i].at) = o[2]
               /\ attempts[i].at - occurrences'[o].due \in 0..Grace
    <2>1. attempts[i].of \in Occurrence /\ Of(attempts[i].of) # {}
      BY <1>5, AttemptRows DEF Of
    <2>2. occurrences'[attempts[i].of] = occurrences[attempts[i].of]
      BY <1>2, <2>1
    <2>3. QED
      BY <1>5, <2>2 DEF AttemptsInv, FirstInWindow
  <1>6. \A t : Day(t)' = Day(t')
    BY DEF Day
  <1>7. FirstInWindow'
    <2>1. \A i \in DOMAIN attempts' : Day(attempts[i].at)' = Day(attempts'[i].at)
      BY DEF Day
    <2>2. QED
      BY <1>5, <2>1 DEF FirstInWindow, DueAt
  <1>8. QED
    BY <1>4, <1>7 DEF AttemptsInv

LEMMA EditsKeep ==
  ASSUME TypeOK, AttemptsInv, Edits
  PROVE  AttemptsInv'
  <1>1. PICK e \in Editor, record \in Revision :
          LET s == editors[e].of IN
          /\ s \in ScheduleId
          /\ schedules' = [schedules EXCEPT ![s] = record]
          /\ \A o \in DOMAIN occurrences :
               IF o[1] = s /\ occurrences[o].status = "waiting" THEN Carried(o, record) ELSE Kept(o)
    BY DEF Edits
  <1> DEFINE s == editors[e].of
  <1>2. DOMAIN occurrences' = DOMAIN occurrences /\ UNCHANGED attempts
    BY DEF Edits
  <1>3. schedules'[s] = record /\ \A x \in ScheduleId : x # s => schedules'[x] = schedules[x]
    BY <1>1 DEF TypeOK
  <1>4. ASSUME NEW o \in DOMAIN occurrences
        PROVE  /\ o[1] \in ScheduleId /\ o[2] \in Days
               /\ occurrences[o].status = "claimed" => occurrences'[o] = occurrences[o]
               /\ occurrences'[o].status = "claimed" => occurrences[o].status = "claimed"
               /\ occurrences'[o].status = "waiting" =>
                    /\ occurrences'[o].revision = schedules'[o[1]].revision
                    /\ occurrences'[o].due = DueAt(schedules'[o[1]].plan, o[2])
    <2>1. o[1] \in ScheduleId /\ o[2] \in Days
      BY DEF TypeOK, Occurrence
    <2>2. CASE o[1] = s /\ occurrences[o].status = "waiting"
      <3>1. occurrences'[o] = Revised(occurrences[o], record.revision, DueAt(record.plan, o[2]))
        BY <1>1, <2>2 DEF Carried
      <3>2. QED
        BY <1>3, <2>1, <2>2, <3>1 DEF Revised
    <2>3. CASE ~(o[1] = s /\ occurrences[o].status = "waiting")
      <3>1. occurrences'[o] = occurrences[o]
        BY <1>1, <2>3 DEF Kept
      <3>2. occurrences[o].status = "waiting" =>
              /\ occurrences[o].revision = schedules[o[1]].revision
              /\ occurrences[o].due = DueAt(schedules[o[1]].plan, o[2])
        BY DEF AttemptsInv, FirstInWindow
      <3>3. QED
        BY <1>3, <2>1, <2>3, <3>1, <3>2
    <2>4. QED
      BY <2>2, <2>3, <2>1
  <1>5. QED
    BY <1>2, <1>4, RowsKeep

LEMMA AppendedAttempt ==
  ASSUME TypeOK, NEW a, attempts' = Append(attempts, a)
  PROVE  /\ Len(attempts) + 1 \notin DOMAIN attempts
         /\ DOMAIN attempts' = DOMAIN attempts \cup {Len(attempts) + 1}
         /\ attempts'[Len(attempts) + 1] = a
         /\ \A i \in DOMAIN attempts : attempts'[i] = attempts[i]
  <1>1. attempts \in Seq(Attempt) /\ Len(attempts) \in Nat
    BY DEF TypeOK
  <1>2. QED
    BY <1>1

(* A new attempt is for no occurrence, or for one that is claimed with it: *)
(* again, or for the first time and in its window.                         *)
LEMMA AppendKeeps ==
  ASSUME TypeOK, AttemptsInv, NEW a, attempts' = Append(attempts, a),
         \A o \in DOMAIN occurrences :
           occurrences[o].status = "claimed" => o \in DOMAIN occurrences' /\ occurrences'[o] = occurrences[o],
         \A o \in DOMAIN occurrences' : occurrences'[o].status = "claimed" =>
           \/ o \in DOMAIN occurrences /\ occurrences[o].status = "claimed"
           \/ o = a.of,
         \A o \in DOMAIN occurrences' : occurrences'[o].status = "waiting" =>
           /\ occurrences'[o].revision = schedules'[o[1]].revision
           /\ occurrences'[o].due = DueAt(schedules'[o[1]].plan, o[2]),
         \/ a.of = Unscheduled
         \/ /\ a.of \in Occurrence /\ a.of \in DOMAIN occurrences'
            /\ occurrences'[a.of].status = "claimed"
            /\ ~a.retry => /\ Of(a.of) = {}
                           /\ Day(a.at) = a.of[2]
                           /\ a.at - occurrences'[a.of].due \in 0..Grace
  PROVE  AttemptsInv'
  <1> DEFINE n == Len(attempts) + 1
  <1>1. /\ n \notin DOMAIN attempts
        /\ DOMAIN attempts' = DOMAIN attempts \cup {n}
        /\ attempts'[n] = a
        /\ \A i \in DOMAIN attempts : attempts'[i] = attempts[i]
    BY AppendedAttempt
  <1> HIDE DEF n
  <1>2. \A x : Of(x)' = IF x = a.of THEN Of(x) \cup {n} ELSE Of(x)
    BY <1>1 DEF Of
  <1>3. \A o \in Occurrence :
          Of(o) # {} <=> o \in DOMAIN occurrences /\ occurrences[o].status = "claimed"
    BY DEF AttemptsInv, OncePerOccurrence
  <1>4. ASSUME NEW o \in Occurrence
        PROVE  Of(o)' # {} <=> o \in DOMAIN occurrences' /\ occurrences'[o].status = "claimed"
    <2>1. CASE o = a.of
      BY <1>2, <2>1, UnscheduledIsNone
    <2>2. CASE o # a.of
      BY <1>2, <1>3, <2>2
    <2>3. QED
      BY <2>1, <2>2
  <1>5. ASSUME NEW i \in DOMAIN attempts', NEW j \in DOMAIN attempts',
               attempts'[i].of = attempts'[j].of, attempts'[i].of # Unscheduled,
               ~attempts'[i].retry, ~attempts'[j].retry
        PROVE  i = j
    <2>1. CASE i = n \/ j = n
      <3>1. a.of # Unscheduled /\ ~a.retry /\ Of(a.of) = {}
        BY <1>1, <1>5, <2>1
      <3>2. \A k \in DOMAIN attempts : attempts[k].of # a.of
        BY <3>1 DEF Of
      <3>3. QED
        BY <1>1, <1>5, <2>1, <3>2
    <2>2. CASE i # n /\ j # n
      BY <1>1, <1>5, <2>2 DEF AttemptsInv, OncePerOccurrence
    <2>3. QED
      BY <2>1, <2>2
  <1>6. ASSUME NEW i \in DOMAIN attempts', attempts'[i].of # Unscheduled, ~attempts'[i].retry
        PROVE  LET o == attempts'[i].of IN
               /\ Day(attempts'[i].at) = o[2]
               /\ attempts'[i].at - occurrences'[o].due \in 0..Grace
    <2>1. CASE i = n
      BY <1>1, <1>6, <2>1
    <2>2. CASE i # n
      <3>1. i \in DOMAIN attempts /\ attempts'[i] = attempts[i]
        BY <1>1, <2>2
      <3>2. attempts[i].of \in Occurrence /\ Of(attempts[i].of) # {}
        BY <1>6, <3>1, AttemptRows DEF Of
      <3>3. occurrences'[attempts[i].of] = occurrences[attempts[i].of]
        BY <1>3, <3>2
      <3>4. QED
        BY <1>6, <3>1, <3>3 DEF AttemptsInv, FirstInWindow
    <2>3. QED
      BY <2>1, <2>2
  <1>7. OncePerOccurrence'
    BY <1>4, <1>5 DEF OncePerOccurrence
  <1>8. FirstInWindow'
    <2>1. \A i \in DOMAIN attempts' : Day(attempts[i].at)' = Day(attempts'[i].at)
      BY DEF Day
    <2>2. QED
      BY <1>6, <2>1 DEF FirstInWindow, DueAt
  <1>9. QED
    BY <1>7, <1>8 DEF AttemptsInv

LEMMA ClaimsKeep ==
  ASSUME TypeOK, AttemptsInv, Claims
  PROVE  AttemptsInv'
  <1>1. PICK o \in Occurrence, now \in Sampled, retry \in BOOLEAN : Claim(o, now, retry)
    BY DEF Claims
  <1> DEFINE a == [of |-> o, retry |-> retry, at |-> now, status |-> "running"]
  <1>2. /\ o \in DOMAIN occurrences
        /\ occurrences' = [occurrences EXCEPT ![o].status = "claimed"]
        /\ attempts' = Append(attempts, a)
        /\ schedules' = schedules
    BY <1>1 DEF Claim, Eligible
  <1>3. occurrences[o] \in OccurrenceRow
    BY <1>2 DEF TypeOK
  <1>4. /\ occurrences'[o].status = "claimed" /\ occurrences'[o].due = occurrences[o].due
        /\ occurrences[o].status = "claimed" => occurrences'[o] = occurrences[o]
    BY <1>2, <1>3 DEF OccurrenceRow
  <1>5. DOMAIN occurrences' = DOMAIN occurrences
        /\ \A q \in DOMAIN occurrences : q # o => occurrences'[q] = occurrences[q]
    BY <1>2
  <1>6. ASSUME NEW q \in DOMAIN occurrences', occurrences'[q].status = "waiting"
        PROVE  /\ occurrences'[q].revision = schedules'[q[1]].revision
               /\ occurrences'[q].due = DueAt(schedules'[q[1]].plan, q[2])
    <2>1. q # o /\ q \in DOMAIN occurrences /\ occurrences'[q] = occurrences[q]
      BY <1>4, <1>5, <1>6
    <2>2. QED
      BY <1>2, <1>6, <2>1 DEF AttemptsInv, FirstInWindow
  <1>7. ~retry => /\ Of(o) = {} /\ Day(now) = o[2]
                  /\ now - occurrences[o].due \in 0..Grace
    BY <1>1 DEF Claim, Allows, Eligible, InWindow
  <1>8. a.of = o /\ a.retry = retry /\ a.at = now
    OBVIOUS
  <1> HIDE DEF a
  <1>9. QED
    BY <1>2, <1>4, <1>5, <1>6, <1>7, <1>8, AppendKeeps

LEMMA MovesKeep ==
  ASSUME TypeOK, AttemptsInv, Moves
  PROVE  AttemptsInv'
  <1>1. ASSUME NEW o \in DOMAIN occurrences
        PROVE  /\ o \in DOMAIN occurrences'
               /\ occurrences[o].status = "claimed" => occurrences'[o] = occurrences[o]
               /\ occurrences'[o].status # "skipped" => occurrences'[o] = occurrences[o]
    BY DEF Moves, Kept, Skipped, TypeOK, OccurrenceRow
  <1>2. ASSUME NEW o \in DOMAIN occurrences'
        PROVE  /\ occurrences'[o].status = "claimed" =>
                    o \in DOMAIN occurrences /\ occurrences[o].status = "claimed"
               /\ occurrences'[o].status = "waiting" =>
                    /\ occurrences'[o].revision = schedules'[o[1]].revision
                    /\ occurrences'[o].due = DueAt(schedules'[o[1]].plan, o[2])
    <2>1. schedules' = schedules
      BY DEF Moves
    <2>2. CASE o \in DOMAIN occurrences
      BY <1>1, <2>1, <2>2 DEF AttemptsInv, FirstInWindow
    <2>3. CASE o \notin DOMAIN occurrences
      BY <2>1, <2>3 DEF Moves, Inserted
    <2>4. QED
      BY <2>2, <2>3
  <1>3. CASE UNCHANGED attempts
    BY <1>1, <1>2, <1>3, RowsKeep
  <1>4. CASE \E i \in DOMAIN attempts, status \in {"succeeded", "failed"} :
               attempts' = [attempts EXCEPT ![i].status = status]
    <2>1. \A j \in DOMAIN attempts : attempts[j] \in Attempt
      BY AttemptRows
    <2>2. /\ DOMAIN attempts' = DOMAIN attempts
          /\ \A i \in DOMAIN attempts : /\ attempts'[i].of = attempts[i].of
                                        /\ attempts'[i].retry = attempts[i].retry
                                        /\ attempts'[i].at = attempts[i].at
      BY <1>4, <2>1 DEF Attempt
    <2>3. QED
      BY <1>1, <1>2, <2>2, RowsKeep
  <1>5. CASE \E now \in Sampled :
               attempts' = Append(attempts, [of |-> Unscheduled, retry |-> FALSE, at |-> now,
                                             status |-> "running"])
    <2>1. PICK a : attempts' = Append(attempts, a) /\ a.of = Unscheduled
      BY <1>5
    <2>2. QED
      BY <1>1, <1>2, <2>1, AppendKeeps
  <1>6. QED
    BY <1>3, <1>4, <1>5 DEF Moves

LEMMA AttemptsInit == Init => AttemptsInv
  BY DEF Init, AttemptsInv, OncePerOccurrence, FirstInWindow, Of

LEMMA AttemptsStep ==
  ASSUME TypeInv, AttemptsInv, [Next]_vars
  PROVE  AttemptsInv'
  BY Steps, EditsKeep, ClaimsKeep, MovesKeep DEF TypeInv

(* For any number of ticks and operators, an occurrence is attempted once  *)
(* unless someone asks for a retry, and is claimed exactly if it was.      *)
THEOREM Once == Spec => []OncePerOccurrence
  <1>1. AttemptsInv => OncePerOccurrence
    BY DEF AttemptsInv
  <1>2. QED
    BY <1>1, TypeInit, TypeStep, AttemptsInit, AttemptsStep, PTL DEF Spec

(* Whatever is edited meanwhile, what waits can be claimed under the       *)
(* latest revision, and a first attempt is on its day and in its grace.    *)
THEOREM InTheWindow == Spec => []FirstInWindow
  <1>1. AttemptsInv => FirstInWindow
    BY DEF AttemptsInv
  <1>2. QED
    BY <1>1, TypeInit, TypeStep, AttemptsInit, AttemptsStep, PTL DEF Spec

-----------------------------------------------------------------------------
(* The countdown.                                                          *)

(* Both ask the same of today's session: that it can still be claimed.     *)
LEMMA TodayIsReady ==
  ASSUME TypeInv, NEW s \in ScheduleId, Authority(s, clock)
  PROVE  /\ Ready(s, clock) # {} <=> /\ CanStillRun(s, Day(clock), clock)
                                     /\ DueAt(schedules[s].plan, Day(clock)) <= clock
         /\ PreviewSaysDue(s, clock) <=> /\ CanStillRun(s, Day(clock), clock)
                                         /\ DueAt(schedules[s].plan, Day(clock)) <= clock
  <1> DEFINE today == Day(clock)
             due(d) == DueAt(schedules[s].plan, d)
             Ripe == CanStillRun(s, today, clock) /\ due(today) <= clock
  <1>1. /\ TypeOK /\ clock \in Time /\ clock \in Nat /\ today \in Days /\ today \in Nat
        /\ schedules[s].plan \in Plan /\ schedules[s].configured \in Time
        /\ schedules[s].configured \in Nat /\ Grace \in Nat
    BY DayInDays, DaysAreNat, ConstantsAssumption DEF TypeInv, TypeOK, Revision
  <1>2. ASSUME NEW d \in Days, due(d) # NoDue, due(d) <= clock
        PROVE  d <= today
    <2>1. due(d) \in Nat /\ d * DayLength <= due(d) /\ d \in Nat /\ DayLength \in Nat
      BY <1>1, <1>2, DueInItsDay, DaysAreNat, ConstantsAssumption
    <2>2. d * DayLength <= clock
      BY <1>1, <1>2, <2>1
    <2>3. QED
      BY <1>1, <2>1, <2>2, DayIsLargest
  <1>3. FirstDay(s) \in Nat /\ (due(today) # NoDue /\ schedules[s].configured <= due(today)
                                /\ due(today) <= clock => FirstDay(s) <= today)
    <2>1. FirstDay(s) \in Days /\ FirstDay(s) \in Nat
      BY <1>1, FirstDayTyped, DaysAreNat
    <2>2. CASE DaysRecorded(s) = {}
      <3>1. FirstDay(s) = Day(schedules[s].configured)
        BY <1>1, <2>2, FirstDayTyped
      <3>2. ASSUME due(today) # NoDue, schedules[s].configured <= due(today), due(today) <= clock
            PROVE  FirstDay(s) <= today
        <4>1. due(today) \in Nat
          BY <1>1, <3>2, DueInItsDay
        <4>2. schedules[s].configured <= clock
          BY <1>1, <3>2, <4>1
        <4>3. QED
          BY <1>1, <3>1, <4>2, DayMonotonic
      <3>3. QED
        BY <2>1, <3>2
    <2>3. CASE DaysRecorded(s) # {}
      <3>1. FirstDay(s) \in DaysRecorded(s)
        BY <1>1, <2>3, FirstDayTyped
      <3>2. <<s, FirstDay(s)>> \in DOMAIN occurrences
        BY <3>1 DEF DaysRecorded
      <3>3. FirstDay(s) <= today
        BY <3>2 DEF TypeInv, RecordedHaveBegun
      <3>4. QED
        BY <2>1, <3>3
    <2>4. QED
      BY <2>2, <2>3
  <1>4. ASSUME NEW d \in Ready(s, clock)
        PROVE  Ripe
    <2>1. d \in DueDays(s, clock) /\ ~Expired(s, d, clock) /\ Waits(<<s, d>>)
      BY DEF Ready
    <2>2. d \in Nat /\ d <= today /\ ~(today > d)
      BY <1>1, <2>1, DueDaysTyped DEF Expired
    <2>3. d = today
      BY <1>1, <2>2
    <2>4. /\ due(d) \in Nat /\ due(d) # NoDue /\ ~(clock > due(d) + Grace)
          /\ schedules[s].configured <= due(d) /\ due(d) <= clock
      BY <1>1, <2>1, DueDaysTyped DEF DueDays, IsDue, Expired
    <2>5. QED
      BY <1>1, <2>1, <2>3, <2>4 DEF CanStillRun
  <1>5. ASSUME Ripe
        PROVE  today \in Ready(s, clock)
    <2>1. /\ due(today) # NoDue /\ schedules[s].configured <= due(today)
          /\ clock <= due(today) + Grace /\ Waits(<<s, today>>) /\ due(today) <= clock
      BY <1>5 DEF CanStillRun
    <2>2. due(today) \in Nat
      BY <1>1, <2>1, DueInItsDay
    <2>3. today \in FirstDay(s)..today
      BY <1>1, <1>3, <2>1
    <2>4. today \in DueDays(s, clock)
      BY <2>1, <2>3 DEF DueDays, IsDue
    <2>5. ~Expired(s, today, clock)
      BY <1>1, <2>1, <2>2 DEF Expired
    <2>6. QED
      BY <2>1, <2>4, <2>5 DEF Ready
  <1>6. ASSUME PreviewSaysDue(s, clock)
        PROVE  Ripe
    <2>1. PICK d \in NextDays(s, clock) : due(d) <= clock
      BY <1>6 DEF PreviewSaysDue
    <2>2. d \in Days /\ d >= today /\ CanStillRun(s, d, clock) /\ due(d) # NoDue
      BY <2>1 DEF NextDays, CanStillRun
    <2>3. d <= today /\ d \in Nat
      BY <1>2, <2>1, <2>2, DaysAreNat
    <2>4. d = today
      BY <1>1, <2>2, <2>3
    <2>5. QED
      BY <2>1, <2>2, <2>4
  <1>7. ASSUME Ripe
        PROVE  PreviewSaysDue(s, clock)
    <2>1. today \in NextDays(s, clock)
      BY <1>1, <1>7 DEF NextDays
    <2>2. \A c \in NextDays(s, clock) : today <= c
      BY <1>1, DaysAreNat DEF NextDays
    <2>3. QED
      BY <1>7, <2>1, <2>2 DEF PreviewSaysDue
  <1>8. QED
    BY <1>4, <1>5, <1>6, <1>7

(* For any calendar, plans and edits: the countdown says that a review is  *)
(* due exactly when a tick of that instant would take one up.              *)
THEOREM CountdownAgrees == Spec => []PreviewAgrees
  <1>1. TypeInv => PreviewAgrees
    <2> SUFFICES ASSUME TypeInv, NEW s \in ScheduleId
                 PROVE  PreviewSaysDue(s, clock) <=> Ready(s, clock) # {}
      BY DEF PreviewAgrees
    <2>1. CASE Authority(s, clock)
      BY <2>1, TodayIsReady
    <2>2. CASE ~Authority(s, clock)
      BY <2>2 DEF PreviewSaysDue, Ready
    <2>3. QED
      BY <2>1, <2>2
  <1>2. QED
    BY <1>1, TypeInit, TypeStep, PTL DEF Spec

-----------------------------------------------------------------------------
(* What writers that overlap leave alone.                                  *)

(* Whoever lifts a pause had read it, however old what they read is.       *)
THEOREM NoneResumesBlindly == Spec => NoBlindResume
  <1>1. TypeInv /\ [Next]_vars => [SeenBeforeLifted]_vars
    <2> SUFFICES ASSUME TypeInv, [Next]_vars, NEW x \in ScheduleId,
                        schedules[x].paused, ~schedules'[x].paused
                 PROVE  \E e \in Editor : /\ editors[e].pc = "read" /\ editors[e].of = x
                                          /\ editors[e].seen = schedules[x]
      BY DEF SeenBeforeLifted
    <2>1. Edits
      BY Steps DEF Claims, Claim, Moves
    <2>2. PICK e \in Editor, record \in Revision :
            LET s == editors[e].of IN
            /\ editors[e].pc = "read" /\ s \in ScheduleId
            /\ record.revision = editors[e].seen.revision + 1
            /\ Follows(s, record)
            /\ schedules' = [schedules EXCEPT ![s] = record]
      BY <2>1 DEF Edits
    <2>3. editors[e].of = x
      BY <2>2 DEF TypeInv, TypeOK
    <2>4. editors[e].seen.revision = schedules[x].revision
      <3>1. editors[e].seen.revision \in Nat /\ schedules[x].revision \in Nat
        BY <2>2, EditorShape DEF TypeInv, TypeOK, Revision
      <3>2. editors[e].seen.revision + 1 = schedules[x].revision + 1
        BY <2>2, <2>3 DEF Follows
      <3>3. QED
        BY <3>1, <3>2
    <2>5. QED
      BY <2>2, <2>3, <2>4 DEF TypeInv, EditorsFollow
  <1>2. QED
    BY <1>1, TypeInit, TypeStep, PTL DEF Spec, NoBlindResume

(* However edits, polls and ticks that began before overlap it, what was   *)
(* claimed or skipped keeps its row.                                       *)
THEOREM SettledIsFinal == Spec => NothingReopened
  <1>1. TypeInv /\ [Next]_vars => [SettledStays]_vars
    <2> SUFFICES ASSUME TypeInv, [Next]_vars,
                        NEW o \in DOMAIN occurrences, occurrences[o].status # "waiting"
                 PROVE  o \in DOMAIN occurrences' /\ occurrences'[o] = occurrences[o]
      BY DEF SettledStays
    <2>1. occurrences[o] \in OccurrenceRow
      BY DEF TypeInv, TypeOK
    <2>2. CASE Edits
      <3>1. PICK s \in ScheduleId, record \in Revision :
              IF o[1] = s /\ occurrences[o].status = "waiting" THEN Carried(o, record) ELSE Kept(o)
        BY <2>2, Zenon DEF Edits
      <3>2. QED
        BY <3>1 DEF Kept
    <2>3. CASE Claims
      <3>1. PICK q \in Occurrence, now \in Sampled, retry \in BOOLEAN : Claim(q, now, retry)
        BY <2>3 DEF Claims
      <3>2. occurrences' = [occurrences EXCEPT ![q].status = "claimed"]
            /\ occurrences[q].status \in {"waiting", "claimed"}
        BY <3>1 DEF Claim, Eligible, InWindow
      <3>3. CASE o = q
        BY <2>1, <3>2, <3>3 DEF OccurrenceRow
      <3>4. CASE o # q
        BY <3>2, <3>4
      <3>5. QED
        BY <3>3, <3>4
    <2>4. CASE Moves
      BY <2>1, <2>4 DEF Moves, Kept, Skipped
    <2>5. QED
      BY <2>2, <2>3, <2>4, Steps
  <1>2. QED
    BY <1>1, TypeInit, TypeStep, PTL DEF Spec, NothingReopened
=============================================================================
