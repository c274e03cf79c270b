---------------------------- MODULE PublicSource ----------------------------
(***************************************************************************)
(* The private database as the publisher sees it: its facts, the counters  *)
(* its triggers keep of what changed (storage/publication_changes.py), and *)
(* the projections of its facts that may be published.                     *)
(***************************************************************************)
EXTENDS Integers, FiniteSets, Sequences

CONSTANTS
  Kind,        \* by decision, what was decided; its domain are the decisions
  Run,         \* reasoning runs, each perhaps wrapped by a runtime run
  Occurrence,  \* occurrences of a schedule
  Ref,         \* sources that narratives and claims refer to
  MaxEvents,   \* bound: broker events of an order
  Nil

Decision == DOMAIN Kind

Scope == {"live", "paper"}

Outcome == {"approved", "rejected"}

ASSUME KindAssumption ==
  /\ MaxEvents \in 0..2
  /\ Decision \subseteq Nat /\ IsFiniteSet(Decision)
  /\ \A d \in Decision :
       /\ Kind[d].scope \in Scope /\ Kind[d].policy \in Outcome
       /\ Kind[d].ticker \in STRING
       /\ Kind[d].order \in BOOLEAN
       /\ Kind[d].order => Kind[d].policy = "approved"
       /\ Kind[d].needs \cup Kind[d].cites \subseteq Ref
       /\ Kind[d].run \in Run \cup {Nil} /\ (Kind[d].scope = "live" <=> Kind[d].run # Nil)

Live(d) == Kind[d].scope = "live"

-----------------------------------------------------------------------------
(* The change counters.                                                    *)

(* _TABLE_SECTIONS; the last three tables have no triggers. *)
Sections ==
  [decision_records |-> {"details"}, order_intents |-> {"details", "performance"},
   status_events |-> {"details"}, policy_evaluations |-> {"details"},
   live_execution_packets |-> {"details"}, broker_execution_records |-> {"details"},
   broker_execution_events |-> {"details"},
   public_source_records |-> {"details", "performance"}, thesis_reviews |-> {"performance"},
   reporting_observations |-> {"details", "performance"},
   live_portfolio_snapshots |-> {"details", "performance"},
   paper_fills |-> {"details", "performance"}, paper_positions |-> {"performance"},
   daily_prices |-> {"performance"}, reasoning_runs |-> {"details", "activity"},
   reasoning_run_decisions |-> {"details", "activity"}, runtime_runs |-> {"activity"},
   runtime_attempts |-> {"activity"}, schedule_revisions |-> {"activity"},
   scheduler_observations |-> {"activity"}, schedule_occurrences |-> {"activity"},
   review_ledgers |-> {}, execution_sessions |-> {}, x_digest_notes |-> {}]

Section == {"details", "performance", "activity"}

(* The tables whose rows are items of the activity, by the kind of item. *)
Identities ==
  [runtime_runs |-> "runtime", runtime_attempts |-> "runtime",
   reasoning_runs |-> "legacy", schedule_occurrences |-> "occurrence"]

Item == ({"runtime", "legacy"} \X Run) \cup ({"occurrence"} \X Occurrence)

(* The tables whose rows belong to one decision, by its id or its intent. *)
OfDecision ==
  {"decision_records", "policy_evaluations", "order_intents", "reasoning_run_decisions",
   "status_events", "live_execution_packets", "broker_execution_records",
   "broker_execution_events", "paper_fills"}

Linked(s, r) == {d \in Decision : Kind[d].run = r /\ s.decided[d] # Nil}

SelectedBy(s, row) ==
  IF row[1] \in OfDecision THEN {row[2]}
  ELSE IF row[1] = "reasoning_runs" THEN Linked(s, row[2]) ELSE {}

NeverRebuilds(row) == FALSE

(* A change of details that belongs to no decision is one of all of them. *)
Rebuilds(row) ==
  "details" \in Sections[row[1]] /\ row[1] \notin OfDecision \cup {"reasoning_runs"}

(* The triggers on the rows of one transaction.  They count every row; no  *)
(* reader tells the rows of a transaction apart, so one step stands for    *)
(* them all.                                                               *)
Transaction(s, rows) ==
  LET touched == UNION {Sections[row[1]] : row \in rows}
      count == [x \in Section |-> IF x \in touched THEN s.count[x] + 1 ELSE s.count[x]]
      decisions == UNION {SelectedBy(s, row) : row \in {q \in rows : "details" \in Sections[q[1]]}}
      items == {<<Identities[row[1]], row[2]>> : row \in {q \in rows : q[1] \in DOMAIN Identities}}
  IN [s EXCEPT !.count = count,
        !.changed = [d \in Decision |-> IF d \in decisions THEN count.details ELSE @[d]],
        !.rebuilt = IF \E row \in rows : Rebuilds(row) THEN count.details ELSE @,
        !.dirty = [i \in Item |-> IF i \in items THEN count.activity ELSE @[i]]]

-----------------------------------------------------------------------------
(* The facts, and the transactions that change them.                       *)

Source ==
  [decided : [Decision -> Nat \cup {Nil}], attempted : SUBSET Decision,
   sessions : [Decision -> Nat], notes : Nat, recorded : SUBSET Decision,
   events : [Decision -> Seq([status : {"submitted", "filled"}, at : Nat])],
   filled : SUBSET Decision, evidence : [Ref -> {"none", "approved", "retracted"}],
   snapshot : Nat, prices : Nat, reviews : Nat,
   prepared : SUBSET Run, wrapped : SUBSET Run, completed : SUBSET Run,
   attempt : [Run -> {"none", "running", "succeeded"}], beats : [Run -> Nat],
   weighed : [Run -> BOOLEAN],
   occurrence : [Occurrence -> {"none", "waiting", "skipped"}], schedule : Nat,
   count : [Section -> Nat], changed : [Decision -> Nat], rebuilt : Nat, dirty : [Item -> Nat]]

(* No change is later than the count of its section. *)
Counted(s) ==
  /\ \A d \in Decision : s.changed[d] <= s.count.details
  /\ s.rebuilt <= s.count.details
  /\ \A i \in Item : s.dirty[i] <= s.count.activity

(* A live decision is of a run that was prepared, one by an attempt of a   *)
(* run that was wrapped; only a run that is wrapped is attempted.          *)
OfItsRun(s) ==
  /\ \A d \in Decision : Live(d) /\ s.decided[d] # Nil => Kind[d].run \in s.prepared
  /\ \A d \in s.attempted : Live(d) => Kind[d].run \in s.wrapped
  /\ s.wrapped \subseteq s.prepared

SourceOK(s) == s \in Source /\ Counted(s) /\ OfItsRun(s)

EmptySource ==
  [decided |-> [d \in Decision |-> Nil], attempted |-> {},
   sessions |-> [d \in Decision |-> 0], notes |-> 0, recorded |-> {},
   events |-> [d \in Decision |-> <<>>],
   filled |-> {}, evidence |-> [f \in Ref |-> "none"],
   snapshot |-> 0, prices |-> 0, reviews |-> 0,
   prepared |-> {}, wrapped |-> {}, completed |-> {},
   attempt |-> [r \in Run |-> "none"], beats |-> [r \in Run |-> 0], weighed |-> [r \in Run |-> FALSE],
   occurrence |-> [o \in Occurrence |-> "none"], schedule |-> 0,
   count |-> [x \in Section |-> 0], changed |-> [d \in Decision |-> 0], rebuilt |-> 0,
   dirty |-> [i \in Item |-> 0]]

(* process_decision(), with its link to the run in the same transaction: by *)
(* hand, or by the attempt of a runtime run.                               *)
CanDecide(s, d) ==
  LET r == Kind[d].run IN
  /\ s.decided[d] = Nil
  /\ Live(d) => /\ r \in s.prepared \ s.completed
                /\ r \in s.wrapped => s.attempt[r] = "running"

Decide(s, d, day) ==
  Transaction([s EXCEPT !.decided[d] = day,
                        !.attempted = IF Kind[d].run \in s.wrapped THEN @ \cup {d} ELSE @],
    {<<"decision_records", d>>, <<"status_events", d>>, <<"policy_evaluations", d>>}
      \cup (IF Kind[d].order THEN {<<"order_intents", d>>} ELSE {})
      \cup (IF Live(d) THEN {<<"reasoning_run_decisions", d>>} ELSE {}))

(* execute_pending(): a session of the agent, of a model of its own, for an *)
(* intent that was pending when the tick began.                            *)
CanStart(s, d) == s.decided[d] # Nil /\ Live(d) /\ Kind[d].order

StartSession(s, d) ==
  Transaction([s EXCEPT !.sessions[d] = @ + 1], {<<"execution_sessions", d>>})

(* store_note() and stamp_note_provenance(): a digest that reviews read is *)
(* written again, or the model that wrote it is.                           *)
Stamp(s) == Transaction([s EXCEPT !.notes = @ + 1], {<<"x_digest_notes", Nil>>})

CanRecord(s, d) == s.decided[d] # Nil /\ Live(d) /\ Kind[d].order /\ d \notin s.recorded

Record(s, d) ==
  Transaction([s EXCEPT !.recorded = @ \cup {d}],
    {<<"live_execution_packets", d>>, <<"broker_execution_records", d>>})

(* append_broker_execution_event(): never earlier than the last one, but   *)
(* perhaps at the same instant.                                            *)
BrokerStatus == <<"submitted", "filled">>

CanReport(s, d) == d \in s.recorded /\ Len(s.events[d]) < MaxEvents

Report(s, d, later) ==
  LET n == Len(s.events[d])
      at == IF n = 0 THEN 1 ELSE s.events[d][n].at + later
  IN Transaction([s EXCEPT !.events[d] = Append(@, [status |-> BrokerStatus[n + 1], at |-> at])],
       {<<"broker_execution_events", d>>})

(* _settle() *)
CanFill(s, d) == s.decided[d] # Nil /\ ~Live(d) /\ Kind[d].order /\ d \notin s.filled

Fill(s, d) ==
  Transaction([s EXCEPT !.filled = @ \cup {d}], {<<"paper_fills", d>>, <<"paper_positions", Nil>>})

(* save_public_source(): a source is approved, or a revision retracts it. *)
Revise(s, f) ==
  Transaction([s EXCEPT !.evidence[f] = IF @ = "approved" THEN "retracted" ELSE "approved"],
    {<<"public_source_records", Nil>>})

Observe(s) ==
  Transaction([s EXCEPT !.snapshot = @ + 1],
    {<<"live_portfolio_snapshots", Nil>>, <<"reporting_observations", Nil>>})

Price(s) == Transaction([s EXCEPT !.prices = @ + 1], {<<"daily_prices", Nil>>})

SaveThesis(s) == Transaction([s EXCEPT !.reviews = @ + 1], {<<"thesis_reviews", Nil>>})

Prepare(s, r) ==
  Transaction([s EXCEPT !.prepared = @ \cup {r}], {<<"reasoning_runs", r>>})

(* create_run(): only around a reasoning run that is still prepared. *)
CanWrap(s, r) == r \in s.prepared \ (s.wrapped \cup s.completed)

Wrap(s, r) == Transaction([s EXCEPT !.wrapped = @ \cup {r}], {<<"runtime_runs", r>>})

Claim(s, r) == Transaction([s EXCEPT !.attempt[r] = "running"], {<<"runtime_attempts", r>>})

Beat(s, r) == Transaction([s EXCEPT !.beats[r] = @ + 1], {<<"runtime_attempts", r>>})

Weigh(s, r) == Transaction([s EXCEPT !.weighed[r] = TRUE], {<<"review_ledgers", r>>})

End(s, r) ==
  Transaction([s EXCEPT !.attempt[r] = "succeeded", !.completed = @ \cup {r}],
    {<<"runtime_attempts", r>>, <<"reasoning_runs", r>>})

Complete(s, r) == Transaction([s EXCEPT !.completed = @ \cup {r}], {<<"reasoning_runs", r>>})

Poll(s, o) ==
  Transaction([s EXCEPT !.occurrence[o] = "waiting", !.schedule = @ + 1],
    {<<"schedule_occurrences", o>>, <<"scheduler_observations", Nil>>})

Skip(s, o) ==
  Transaction([s EXCEPT !.occurrence[o] = "skipped"], {<<"schedule_occurrences", o>>})

-----------------------------------------------------------------------------
(* Projections of the facts under a configuration: the live profiles that  *)
(* are published, of which there is one here, or none.                     *)

InScope(config, scope) == scope = "paper" \/ config

Eligible(s, d, config) ==
  /\ s.decided[d] # Nil
  /\ InScope(config, Kind[d].scope)
  /\ \A f \in Kind[d].needs : s.evidence[f] = "approved"

(* The events at the latest instant name the state, if they agree. *)
Latest(events) == {events[i].status : i \in {j \in DOMAIN events : events[j].at = events[Len(events)].at}}

Lifecycle(s, d) ==
  IF ~Kind[d].order THEN Kind[d].policy
  ELSE IF ~Live(d) THEN IF d \in s.filled THEN "paper_filled" ELSE "awaiting_paper_price"
  ELSE IF s.events[d] # <<>>
       THEN IF Cardinality(Latest(s.events[d])) = 1
            THEN s.events[d][Len(s.events[d])].status ELSE "ambiguous"
  ELSE IF d \in s.recorded THEN "requested" ELSE "order_intent_created"

(* A claim shows unless one of its sources is registered and not approved. *)
Claims(s, d) == {f \in Kind[d].cites : s.evidence[f] # "retracted"}

Lifecycles ==
  Outcome \cup {"paper_filled", "awaiting_paper_price", "order_intent_created", "requested",
                "submitted", "filled", "ambiguous"}

(* The models behind a decision by an attempt: of the digests it read, and *)
(* of the last session that executed it.                                   *)
ModelProvenance(s, d) ==
  IF d \in s.attempted THEN [execution |-> s.sessions[d], digests |-> s.notes] ELSE Nil

Contents ==
  [lifecycle : Lifecycles, claims : SUBSET Ref, executed : BOOLEAN, observed : Nat,
   models : [execution : Nat, digests : Nat] \cup {Nil}]

Content(s, d) ==
  [lifecycle |-> Lifecycle(s, d), claims |-> Claims(s, d),
   executed |-> d \in s.filled, observed |-> s.snapshot, models |-> ModelProvenance(s, d)]

Activities ==
  [status : {"prepared", "running", "succeeded"}, beats : Nat, weighed : BOOLEAN]
    \cup [status : {"prepared", "completed", "skipped"}]

(* An item of the activity, or Nil if it is none. *)
Activity(s, i, config) ==
  CASE i[1] = "runtime" ->
         IF i[2] \in s.wrapped /\ config
         THEN [status |-> IF s.attempt[i[2]] = "none" THEN "prepared" ELSE s.attempt[i[2]],
               beats |-> s.beats[i[2]], weighed |-> s.weighed[i[2]]]
         ELSE Nil
    [] i[1] = "legacy" ->
         IF i[2] \in s.prepared \ s.wrapped /\ config
         THEN [status |-> IF i[2] \in s.completed THEN "completed" ELSE "prepared"]
         ELSE Nil
    [] OTHER ->
         IF s.occurrence[i[2]] = "skipped" /\ config THEN [status |-> "skipped"] ELSE Nil

(* What the portfolio, the positions, the policy page and the returns of a *)
(* scope are computed from.                                                *)
Book(s, scope, config, day) ==
  [holdings |-> IF scope = "paper" THEN s.filled ELSE IF config THEN s.snapshot ELSE Nil,
   prices |-> s.prices, reviews |-> s.reviews, evidence |-> s.evidence, day |-> day]
=============================================================================
