------------------------------ MODULE Schedule ------------------------------
(***************************************************************************)
(* The schedules of one account: their revisions, the observations that    *)
(* give them authority, one occurrence per session, and the scheduled      *)
(* ticks and operators that claim a run for it (app/storage/schedules.py,  *)
(* app/reason/scheduler.py, and `python -m app.reason.runtime`).           *)
(*                                                                         *)
(* Ticks and edits are processes: each reads the clock and the schedule    *)
(* first and writes later, in transactions.  Of the account's lease only   *)
(* this is kept: an attempt runs until it is finished or its lease is      *)
(* swept, and while one runs no other is claimed (see RuntimeLease).       *)
(***************************************************************************)
EXTENDS Integers, Sequences, FiniteSets

CONSTANTS
  ScheduleId,    \* schedules of the account
  Tick,          \* invocations of `scheduled` that can be under way at once
  Editor,        \* operators at the CLI or the dashboard
  Plan,          \* due times a revision can ask for, by kind of session
  File,          \* what operators write into files for `configure`
  Session,       \* Session[d] \in {"full", "half", "closed"}
  DayLength,     \* instants of a day
  Grace,         \* grace_seconds
  MaxAge,        \* observer_max_age_seconds
  Horizon,       \* bound: the last instant
  MaxRevisions,  \* bound: revisions of one schedule
  Scene          \* bound: which schedules, ticks and operators there are, what these
                 \* write, how long before its transaction a step read the clock,
                 \* how many attempts there are in all, and when it ends

NoDue == -1

ASSUME ConstantsAssumption ==
  /\ DayLength \in Nat \ {0}
  /\ {Grace, MaxAge, Horizon, MaxRevisions} \subseteq Nat
  /\ Session \in [0..(Horizon \div DayLength) -> {"full", "half", "closed"}]
  /\ Plan \subseteq [{"full", "half"} -> 0..(DayLength - 1) \cup {NoDue}]
  /\ File \subseteq [active : BOOLEAN, paused : BOOLEAN, plan : Plan]
  /\ File # {}
  /\ Scene \subseteq
       [schedules : SUBSET ScheduleId, ticks : SUBSET Tick, editors : SUBSET Editor,
        files : SUBSET File, reports : SUBSET BOOLEAN, lag : Nat, attempts : Nat, end : 0..Horizon]

VARIABLES
  scene,
  schedules,     \* the latest revision of each schedule, revision 0 before the first
  observations,  \* scheduler_observations
  occurrences,   \* schedule_occurrences, by <<schedule, day>>
  prepared,      \* prepared_at of the runtime run of an occurrence
  attempts,      \* attempts of the account, in the order they were claimed
  ticks,         \* what each invocation of execute_due() has read
  editors,       \* what each operator has read
  clock

vars == <<scene, schedules, observations, occurrences, prepared, attempts, ticks, editors, clock>>

Time == 0..Horizon
Days == 0..(Horizon \div DayLength)
Day(t) == t \div DayLength
Occurrence == ScheduleId \X Days

(* A run that no schedule asked for. *)
Unscheduled == << >>

Revision == [revision : 0..MaxRevisions, configured : Time, active : BOOLEAN,
             paused : BOOLEAN, plan : Plan]
Observation == [revision : 0..MaxRevisions, at : Time, enabled : BOOLEAN]
OccurrenceRow == [revision : 1..MaxRevisions, due : Nat,
                  status : {"waiting", "claimed", "skipped"}]
Attempt == [of : Occurrence \cup {Unscheduled}, retry : BOOLEAN, at : Time,
            status : {"running", "succeeded", "failed"}]

Idle == [pc |-> "idle"]
TickState ==
  {Idle}
  \cup [pc : {"started"}, of : ScheduleId, now : Time, revision : 1..MaxRevisions,
        enabled : BOOLEAN]
  \cup [pc : {"observed", "polled", "overlap", "clear", "prepared"},
        of : ScheduleId, now : Time]
EditorState == {Idle} \cup [pc : {"read"}, of : ScheduleId, now : Time, seen : Revision]

TypeOK ==
  /\ scene \in Scene
  /\ schedules \in [ScheduleId -> Revision]
  /\ DOMAIN observations \subseteq ScheduleId
  /\ \A s \in DOMAIN observations : observations[s] \in Observation
  /\ DOMAIN occurrences \subseteq Occurrence
  /\ \A o \in DOMAIN occurrences : occurrences[o] \in OccurrenceRow
  /\ DOMAIN prepared \subseteq Occurrence
  /\ \A o \in DOMAIN prepared : prepared[o] \in Time
  /\ attempts \in Seq(Attempt)
  /\ ticks \in [Tick -> TickState]
  /\ editors \in [Editor -> EditorState]
  /\ clock \in Time

Init ==
  /\ scene \in Scene
  /\ schedules = [s \in ScheduleId |-> [revision |-> 0, configured |-> 0,
                    active |-> FALSE, paused |-> FALSE, plan |-> CHOOSE p \in Plan : TRUE]]
  /\ observations = << >> /\ occurrences = << >> /\ prepared = << >>
  /\ attempts = << >>
  /\ ticks = [k \in Tick |-> Idle]
  /\ editors = [e \in Editor |-> Idle]
  /\ clock = 0

-----------------------------------------------------------------------------
(* Readings.                                                               *)

(* An instant a step may have read before its transaction began. *)
Sampled == {t \in Time : t <= clock /\ clock - t <= scene.lag}

Saved(s) == schedules[s].revision > 0

(* due_at() *)
DueAt(plan, d) ==
  IF Session[d] = "closed" \/ plan[Session[d]] = NoDue
  THEN NoDue
  ELSE d * DayLength + plan[Session[d]]

(* authority_reason() is None *)
Fresh(s, now) ==
  /\ s \in DOMAIN observations
  /\ observations[s].revision = schedules[s].revision
  /\ now - observations[s].at \in 0..MaxAge

Authority(s, now) ==
  /\ ~schedules[s].paused
  /\ schedules[s].active
  /\ Fresh(s, now)
  /\ observations[s].enabled

Of(o) == {i \in DOMAIN attempts : attempts[i].of = o}

Overlap == \E i \in DOMAIN attempts : attempts[i].status = "running"

(* f with the value v at x, whether or not x was in its domain. *)
With(f, x, v) == [y \in DOMAIN f \cup {x} |-> IF y = x THEN v ELSE f[y]]

-----------------------------------------------------------------------------
(* Revisions.  Each slip a change could make stands before the definition  *)
(* a mutation run replaces by it.                                          *)

(* What a revision does to an occurrence that waits: it carries the new    *)
(* revision and due time, or is skipped if it has none any more.           *)
RevisedKeepingRow(row, revision, due) ==
  [row EXCEPT !.due = IF due = NoDue THEN @ ELSE due]

RevisedEvenIfClosed(row, revision, due) ==
  [revision |-> revision, due |-> due, status |-> "waiting"]

Revised(row, revision, due) ==
  [revision |-> revision,
   due |-> IF due = NoDue THEN row.due ELSE due,
   status |-> IF due = NoDue THEN "skipped" ELSE "waiting"]

FollowsBlindly(s, record) == schedules[s].configured <= record.configured

Follows(s, record) ==
  /\ record.revision = schedules[s].revision + 1
  /\ schedules[s].configured <= record.configured

(* save_schedule() *)
SaveUnlessClaimed(s, record) ==
  /\ Follows(s, record)
  /\ schedules' = [schedules EXCEPT ![s] = record]
  /\ occurrences' =
       [o \in DOMAIN occurrences |->
          IF o[1] = s /\ occurrences[o].status # "claimed"
          THEN Revised(occurrences[o], record.revision, DueAt(record.plan, o[2]))
          ELSE occurrences[o]]

Save(s, record) ==
  /\ Follows(s, record)
  /\ schedules' = [schedules EXCEPT ![s] = record]
  /\ occurrences' =
       [o \in DOMAIN occurrences |->
          IF o[1] = s /\ occurrences[o].status = "waiting"
          THEN Revised(occurrences[o], record.revision, DueAt(record.plan, o[2]))
          ELSE occurrences[o]]

(* An operator reads the clock and the latest revision... *)
Read(e, s) ==
  /\ editors[e] = Idle
  /\ schedules[s].revision < MaxRevisions
  /\ \E now \in Sampled :
       editors' = [editors EXCEPT ![e] =
                     [pc |-> "read", of |-> s, now |-> now, seen |-> schedules[s]]]
  /\ UNCHANGED <<scene, schedules, observations, occurrences, prepared, attempts, ticks, clock>>

Edited(e, active, paused, plan) ==
  [revision |-> editors[e].seen.revision + 1, configured |-> editors[e].now,
   active |-> active, paused |-> paused, plan |-> plan]

Closes(e) ==
  /\ editors' = [editors EXCEPT ![e] = Idle]
  /\ UNCHANGED <<scene, observations, prepared, attempts, ticks, clock>>

(* ... and saves a file written for it (`configure`) ... *)
Configure(e) ==
  /\ editors[e].pc = "read"
  /\ \E f \in scene.files : Save(editors[e].of, Edited(e, f.active, f.paused, f.plan))
  /\ Closes(e)

(* ... or flips the brake (`pause`, `resume` and the dashboard's buttons). *)
PauseOrResume(e) ==
  /\ editors[e].pc = "read"
  /\ editors[e].seen.revision > 0
  /\ \E paused \in BOOLEAN :
       Save(editors[e].of, Edited(e, editors[e].seen.active, paused, editors[e].seen.plan))
  /\ Closes(e)

(* The edit was refused, or given up. *)
Abandon(e) ==
  /\ editors[e].pc = "read"
  /\ editors' = [editors EXCEPT ![e] = Idle]
  /\ UNCHANGED <<scene, schedules, observations, occurrences, prepared, attempts, ticks, clock>>

-----------------------------------------------------------------------------
(* Polling.                                                                *)

(* The tick reads the clock, later the schedule: a tick whose schedule is  *)
(* newer than its clock is possible.                                       *)
StartTick(k, s) ==
  /\ ticks[k] = Idle
  /\ Saved(s)
  /\ \E now \in Sampled :
       ticks' = [ticks EXCEPT ![k] =
                   [pc |-> "started", of |-> s, now |-> now,
                    revision |-> schedules[s].revision, enabled |-> schedules[s].active]]
  /\ UNCHANGED <<scene, schedules, observations, occurrences, prepared, attempts, editors, clock>>

(* observe(), refused for another revision or an older time *)
SaveObservation(s, record) ==
  /\ record.revision = schedules[s].revision
  /\ s \in DOMAIN observations => observations[s].at <= record.at
  /\ observations' = With(observations, s, record)

Observe(k) ==
  /\ ticks[k].pc = "started"
  /\ SaveObservation(ticks[k].of, [revision |-> ticks[k].revision, at |-> ticks[k].now,
                                   enabled |-> ticks[k].enabled])
  /\ ticks' = [ticks EXCEPT ![k] = [pc |-> "observed", of |-> @.of, now |-> @.now]]
  /\ UNCHANGED <<scene, schedules, occurrences, prepared, attempts, editors, clock>>

(* `observe`: someone reports on the task that should run the ticks. *)
ObserveByHand(s) ==
  /\ Saved(s)
  /\ \E at \in Sampled, enabled \in scene.reports :
       SaveObservation(s, [revision |-> schedules[s].revision, at |-> at,
                           enabled |-> enabled])
  /\ UNCHANGED <<scene, schedules, occurrences, prepared, attempts, ticks, editors, clock>>

(* The days record_due() looks at: from the last day that has a row. *)
DaysRecorded(s) == {d \in Days : <<s, d>> \in DOMAIN occurrences}

FirstDay(s) ==
  IF DaysRecorded(s) = {} THEN Day(schedules[s].configured)
  ELSE CHOOSE d \in DaysRecorded(s) : \A c \in DaysRecorded(s) : c <= d

IsDue(s, d, now) ==
  /\ DueAt(schedules[s].plan, d) # NoDue
  /\ schedules[s].configured <= DueAt(schedules[s].plan, d)
  /\ DueAt(schedules[s].plan, d) <= now

DueDays(s, now) == {d \in FirstDay(s)..Day(now) : IsDue(s, d, now)}

ExpiredAtGrace(s, d, now) == now > DueAt(schedules[s].plan, d) + Grace

Expired(s, d, now) ==
  \/ now > DueAt(schedules[s].plan, d) + Grace
  \/ Day(now) > d

Waits(o) == o \notin DOMAIN occurrences \/ occurrences[o].status = "waiting"

(* What record_due() returns: at most the session of today. *)
Ready(s, now) ==
  IF ~Authority(s, now) THEN {}
  ELSE {d \in DueDays(s, now) : ~Expired(s, d, now) /\ Waits(<<s, d>>)}

(* A row that is new is inserted with its revision; one that waits is      *)
(* skipped once its grace is over; any other is left alone.                *)
Polled(s, d, now) ==
  LET o == <<s, d>> IN
  IF o \in DOMAIN occurrences
  THEN [occurrences[o] EXCEPT !.status =
          IF @ = "waiting" /\ Expired(s, d, now) THEN "skipped" ELSE @]
  ELSE [revision |-> schedules[s].revision, due |-> DueAt(schedules[s].plan, d),
        status |-> IF Expired(s, d, now) THEN "skipped" ELSE "waiting"]

(* record_due() *)
Recorded(s, now) ==
  [o \in DOMAIN occurrences \cup {<<s, d>> : d \in DueDays(s, now)} |->
     IF o[1] = s /\ o[2] \in DueDays(s, now) THEN Polled(s, o[2], now)
     ELSE occurrences[o]]

(* A tick goes on if today's session is ready. *)
RecordDue(k) ==
  LET s == ticks[k].of
      now == ticks[k].now
  IN /\ ticks[k].pc = "observed"
     /\ Authority(s, now)
     /\ occurrences' = Recorded(s, now)
     /\ ticks' = [ticks EXCEPT ![k] =
                    IF Ready(s, now) = {} THEN Idle ELSE [@ EXCEPT !.pc = "polled"]]
     /\ UNCHANGED <<scene, schedules, observations, prepared, attempts, editors, clock>>

(* `due` *)
RecordDueByHand(s) ==
  /\ Saved(s)
  /\ \E now \in Sampled : Authority(s, now) /\ occurrences' = Recorded(s, now)
  /\ UNCHANGED <<scene, schedules, observations, prepared, attempts, ticks, editors, clock>>

(* The occurrence a polled tick works for. *)
Today(k) == <<ticks[k].of, Day(ticks[k].now)>>

(* Is the account busy? *)
LookForOverlap(k) ==
  /\ ticks[k].pc = "polled"
  /\ ticks' = [ticks EXCEPT ![k].pc = IF Overlap THEN "overlap" ELSE "clear"]
  /\ UNCHANGED <<scene, schedules, observations, occurrences, prepared, attempts, editors, clock>>

(* If so, the tick gives its session up. *)
GivesUpAnyStatus(row) == [row EXCEPT !.status = "skipped"]

GivesUp(row) == [row EXCEPT !.status = IF @ = "waiting" THEN "skipped" ELSE @]

SkipOverlap(k) ==
  /\ ticks[k].pc = "overlap"
  /\ occurrences' = [occurrences EXCEPT ![Today(k)] = GivesUp(@)]
  /\ ticks' = [ticks EXCEPT ![k] = Idle]
  /\ UNCHANGED <<scene, schedules, observations, prepared, attempts, editors, clock>>

(* The run of the occurrence is reused, or saved by one of those that try. *)
Prepare(k) ==
  /\ ticks[k].pc = "clear"
  /\ prepared' = IF Today(k) \in DOMAIN prepared THEN prepared
                 ELSE With(prepared, Today(k), ticks[k].now)
  /\ ticks' = [ticks EXCEPT ![k].pc = "prepared"]
  /\ UNCHANGED <<scene, schedules, observations, occurrences, attempts, editors, clock>>

(* `prepare --occurrence` *)
PrepareByHand(o) ==
  /\ o \in DOMAIN occurrences
  /\ o \notin DOMAIN prepared
  /\ \E now \in Sampled :
       /\ Day(now) = o[2]
       /\ prepared' = With(prepared, o, now)
  /\ UNCHANGED <<scene, schedules, observations, occurrences, attempts, ticks, editors, clock>>

-----------------------------------------------------------------------------
(* Claiming.                                                               *)

BrakeOff == \A s \in ScheduleId : ~schedules[s].paused

InWindowUntilGrace(o, now, retry) ==
  /\ occurrences[o].status \in {"waiting", "claimed"}
  /\ \/ retry /\ occurrences[o].status = "claimed"
     \/ now <= occurrences[o].due + Grace

InWindow(o, now, retry) ==
  /\ occurrences[o].status \in {"waiting", "claimed"}
  /\ \/ retry /\ occurrences[o].status = "claimed"
     \/ now - occurrences[o].due \in 0..Grace

(* validate_claim() of a scheduled run *)
Eligible(o, now, retry) ==
  /\ o \in DOMAIN occurrences
  /\ occurrences[o].status = "claimed"
       \/ occurrences[o].revision = schedules[o[1]].revision
  /\ Authority(o[1], now)
  /\ DueAt(schedules[o[1]].plan, o[2]) # NoDue
  /\ InWindow(o, now, retry)

(* claim(): a first attempt, or an explicit retry of one that failed *)
AllowsRerun(o, retry) == retry => Of(o) # {}

Allows(o, retry) ==
  IF retry THEN Of(o) # {} /\ \A i \in Of(o) : attempts[i].status # "succeeded"
  ELSE Of(o) = {}

Claim(o, now, retry) ==
  /\ Len(attempts) < scene.attempts
  /\ BrakeOff
  /\ Eligible(o, now, retry)
  /\ o \in DOMAIN prepared
  /\ prepared[o] <= now
  /\ Day(now) = o[2]
  /\ ~Overlap
  /\ Allows(o, retry)
  /\ occurrences' = [occurrences EXCEPT ![o].status = "claimed"]
  /\ attempts' = Append(attempts, [of |-> o, retry |-> retry, at |-> now,
                                   status |-> "running"])
  /\ UNCHANGED <<scene, schedules, observations, prepared, editors, clock>>

(* A tick claims; nothing it does after the attempt matters here. *)
ClaimTick(k) ==
  /\ ticks[k].pc = "prepared"
  /\ \E now \in Sampled : Claim(Today(k), now, FALSE)
  /\ ticks' = [ticks EXCEPT ![k] = Idle]

(* `start` and `retry` of the occurrence's run *)
ClaimByHand(o) ==
  /\ \E now \in Sampled, retry \in BOOLEAN : Claim(o, now, retry)
  /\ UNCHANGED ticks

(* A manual or event run of the account *)
ClaimUnscheduled ==
  /\ Len(attempts) < scene.attempts
  /\ BrakeOff
  /\ ~Overlap
  /\ \E now \in Sampled :
       attempts' = Append(attempts, [of |-> Unscheduled, retry |-> FALSE, at |-> now,
                                     status |-> "running"])
  /\ UNCHANGED <<scene, schedules, observations, occurrences, prepared, ticks, editors, clock>>

(* The running attempt finishes, or its lease is swept. *)
End ==
  /\ \E i \in DOMAIN attempts, status \in {"succeeded", "failed"} :
       /\ attempts[i].status = "running"
       /\ attempts' = [attempts EXCEPT ![i].status = status]
  /\ UNCHANGED <<scene, schedules, observations, occurrences, prepared, ticks, editors, clock>>

(* A tick ends early: a prerequisite is missing, something it does is      *)
(* refused, or it is killed.                                               *)
StopTick(k) ==
  /\ ticks[k] # Idle
  /\ ticks' = [ticks EXCEPT ![k] = Idle]
  /\ UNCHANGED <<scene, schedules, observations, occurrences, prepared, attempts, editors, clock>>

Pass ==
  /\ clock < scene.end
  /\ clock' = clock + 1
  /\ UNCHANGED <<scene, schedules, observations, occurrences, prepared, attempts, ticks, editors>>

Next ==
  \/ \E e \in scene.editors :
       \/ \E s \in scene.schedules : Read(e, s)
       \/ Configure(e) \/ PauseOrResume(e) \/ Abandon(e)
  \/ \E k \in scene.ticks :
       \/ \E s \in scene.schedules : StartTick(k, s)
       \/ Observe(k) \/ RecordDue(k) \/ LookForOverlap(k) \/ SkipOverlap(k)
       \/ Prepare(k) \/ ClaimTick(k) \/ StopTick(k)
  \/ \E s \in scene.schedules : ObserveByHand(s) \/ RecordDueByHand(s)
  \/ \E o \in Occurrence : PrepareByHand(o) \/ ClaimByHand(o)
  \/ ClaimUnscheduled \/ End \/ Pass

Spec == Init /\ [][Next]_vars
-----------------------------------------------------------------------------
(* The countdown of the public page (preview()): the first session from    *)
(* today on that can still be claimed, and whether it is due.              *)
CanStillRun(s, d, now) ==
  /\ DueAt(schedules[s].plan, d) # NoDue
  /\ schedules[s].configured <= DueAt(schedules[s].plan, d)
  /\ now <= DueAt(schedules[s].plan, d) + Grace
  /\ Waits(<<s, d>>)

NextDays(s, now) == {d \in Days : d >= Day(now) /\ CanStillRun(s, d, now)}

PreviewSaysDue(s, now) ==
  /\ Authority(s, now)
  /\ \E d \in NextDays(s, now) :
       /\ \A c \in NextDays(s, now) : d <= c
       /\ DueAt(schedules[s].plan, d) <= now

-----------------------------------------------------------------------------
(* Properties.                                                             *)

(* An occurrence that waits carries the latest revision of its schedule    *)
(* and the due time that gives it, validate_claim() refusing any other, so *)
(* an edit can never leave one that cannot be claimed; and the first       *)
(* attempt of an occurrence starts on its day, within the grace of its due *)
(* time, whatever was edited before or after.                              *)
FirstInWindow ==
  /\ \A o \in DOMAIN occurrences : occurrences[o].status = "waiting" =>
       /\ occurrences[o].revision = schedules[o[1]].revision
       /\ occurrences[o].due = DueAt(schedules[o[1]].plan, o[2])
  /\ \A i \in DOMAIN attempts :
       attempts[i].of # Unscheduled /\ ~attempts[i].retry =>
         LET o == attempts[i].of IN
         /\ Day(attempts[i].at) = o[2]
         /\ attempts[i].at - occurrences[o].due \in 0..Grace

(* However many ticks found it ready, and however they ended, an           *)
(* occurrence is attempted once unless someone asks for a retry; it is     *)
(* claimed exactly if it was attempted, so one that is reported as skipped *)
(* never ran, whichever tick was faster.                                   *)
OncePerOccurrence ==
  /\ \A i, j \in DOMAIN attempts :
       /\ attempts[i].of = attempts[j].of /\ attempts[i].of # Unscheduled
       /\ ~attempts[i].retry /\ ~attempts[j].retry
       => i = j
  /\ \A o \in Occurrence :
       Of(o) # {} <=> o \in DOMAIN occurrences /\ occurrences[o].status = "claimed"

(* What the public countdown calls due is what a tick would take up.       *)
PreviewAgrees ==
  \A s \in ScheduleId : PreviewSaysDue(s, clock) <=> Ready(s, clock) # {}

(* A pause is only lifted by someone who saw it: a file written, or a      *)
(* button pressed, before the pause is refused after it.                   *)
SeenBeforeLifted ==
  \A s \in ScheduleId : schedules[s].paused /\ ~schedules'[s].paused =>
    \E e \in Editor : editors[e].pc = "read" /\ editors[e].of = s /\ editors[e].seen = schedules[s]

NoBlindResume == [][SeenBeforeLifted]_vars

(* What was claimed or skipped is settled: no edit that was begun before,  *)
(* no poll, no tick that gives up and no retry writes its row again.  The  *)
(* window of an attempt is that of the due time it was claimed under, and  *)
(* a session the dashboard has shown as skipped does not run after all.    *)
SettledStays ==
  \A o \in DOMAIN occurrences : occurrences[o].status # "waiting" =>
    o \in DOMAIN occurrences' /\ occurrences'[o] = occurrences[o]

NothingReopened == [][SettledStays]_vars
=============================================================================
