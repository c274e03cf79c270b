----------------------------- MODULE Decisions -----------------------------
(***************************************************************************)
(* Decisions from their submission to an order intent: the pipeline of     *)
(* statuses (app/state/pipeline.py), the daily limits of the policy        *)
(* (app/policy/decision_policy.py) over the counts of the day's intents    *)
(* (app/reason/live_context.py, app/paper/context.py), and the order in    *)
(* which a review submits its sales, its buys and the pairs of a swap      *)
(* (app/reason/worker.py).                                                 *)
(*                                                                         *)
(* A submission is one transaction, so one step; one that is refused is    *)
(* rolled back and is no step.  What the policy asks of a draft on its own *)
(* or of the portfolio's weights is an attribute of the draft.             *)
(***************************************************************************)
EXTENDS Integers, Sequences, FiniteSets

CONSTANTS
  Decision,      \* decision ids
  Draft,         \* authored contents
  Ticker,        \* what they trade
  Profile,       \* live execution profiles, one account each
  Swaps,         \* what a review may declare: the holding sold for a candidate
  MaxBuys,       \* MAX_BUY_ADD_TRADES_PER_DAY
  MaxBuysBrake,  \* MAX_BUY_ADD_TRADES_PER_DAY_BRAKE
  MaxSells,      \* MAX_SELL_TRIM_TRADES_PER_DAY
  DayLength,     \* instants of a New York day
  UtcLead,       \* how much earlier the UTC day begins
  MaxLag,        \* bound: how long before its transaction a step read the clock
  Horizon        \* bound: the last instant

Paper == "PAPER"
Scope == Profile \cup {Paper}
Time == 0..Horizon
Kind == {"BUY", "ADD", "TRIM", "SELL", "HOLD"}

ASSUME ConstantsAssumption ==
  /\ Draft \subseteq [kind : Kind, ticker : Ticker, exceptional : BOOLEAN,
                      sound : BOOLEAN, created : Time]
  /\ Paper \notin Profile
  /\ \A swaps \in Swaps :
       DOMAIN swaps \subseteq Ticker /\ swaps \in [DOMAIN swaps -> Ticker]
  /\ {MaxBuys, MaxBuysBrake, MaxSells, UtcLead, MaxLag, Horizon} \subseteq Nat
  /\ DayLength \in Nat \ {0}

VARIABLES
  statuses,     \* status_events of a decision, in order
  records,      \* decision_records
  evaluations,  \* policy_evaluations
  intents,      \* order_intents, by decision
  pairs,        \* swap_pairs: the sale a buy waits for
  review,       \* review[p]: the review at work on profile p
  clock

vars == <<statuses, records, evaluations, intents, pairs, review, clock>>

Status == {"record_created", "schema_validated", "schema_failed",
           "approved", "rejected", "intent_created"}
Evaluation == [scope : Scope, funded : BOOLEAN]
Intent == [side : {"BUY", "SELL"}, scope : Scope, at : Time]
Review == [phase : {"idle", "sales", "rest", "pair"}, day : 0..(Horizon \div DayLength),
           swaps : Swaps \cup {<< >>}, due : SUBSET Decision,
           accepted : UNION {[sold -> Decision] : sold \in SUBSET Ticker}]

(* Rows and review states are well formed. *)
TypeOK ==
  /\ statuses \in [Decision -> Seq(Status)]
  /\ DOMAIN records \subseteq Decision
  /\ \A d \in DOMAIN records : records[d] \in Draft
  /\ DOMAIN evaluations = DOMAIN records
  /\ \A d \in DOMAIN evaluations : evaluations[d] \in Evaluation
  /\ DOMAIN intents \subseteq DOMAIN records
  /\ \A d \in DOMAIN intents : intents[d] \in Intent
  /\ DOMAIN pairs \subseteq Decision
  /\ \A d \in DOMAIN pairs : pairs[d] \in Decision
  /\ review \in [Profile -> Review]
  /\ clock \in Time

Idle == [phase |-> "idle", day |-> 0, swaps |-> << >>, accepted |-> << >>, due |-> {}]

Init ==
  /\ statuses = [d \in Decision |-> << >>]
  /\ records = << >> /\ evaluations = << >> /\ intents = << >> /\ pairs = << >>
  /\ review = [p \in Profile |-> Idle]
  /\ clock = 0

-----------------------------------------------------------------------------
(* Statuses.                                                               *)

LegalRetry ==
  {<<"none", "record_created">>, <<"none", "schema_failed">>,
   <<"schema_failed", "record_created">>,
   <<"record_created", "schema_validated">>,
   <<"schema_validated", "approved">>, <<"schema_validated", "rejected">>,
   <<"approved", "intent_created">>}

Legal ==
  {<<"none", "record_created">>, <<"none", "schema_failed">>,
   <<"record_created", "schema_validated">>,
   <<"schema_validated", "approved">>, <<"schema_validated", "rejected">>,
   <<"approved", "intent_created">>}

Latest(history) == IF history = << >> THEN "none" ELSE history[Len(history)]

Reached(history, status) == \E k \in DOMAIN history : history[k] = status

(* append_status(): a status that was reached before is passed over, any   *)
(* other must be legal after the latest.                                   *)
CanAppend(history, status) ==
  Reached(history, status) \/ <<Latest(history), status>> \in Legal

Appended(history, status) ==
  IF Reached(history, status) THEN history ELSE Append(history, status)

AppendStatus(d, status) ==
  /\ CanAppend(statuses[d], status)
  /\ statuses' = [statuses EXCEPT ![d] = Appended(@, status)]

-----------------------------------------------------------------------------
(* The policy.                                                             *)

Increasing(draft) == draft.kind \in {"BUY", "ADD"}
Reducing(draft) == draft.kind \in {"TRIM", "SELL"}

ActionableEntries(draft) == draft.kind \in {"BUY", "TRIM", "SELL"}

Actionable(draft) == Increasing(draft) \/ Reducing(draft)

SideAsDecided(draft) == draft.kind

SideOf(draft) ==
  CASE Increasing(draft) -> "BUY" [] Reducing(draft) -> "SELL" [] OTHER -> "none"

Day(t) == t \div DayLength

(* The day an intent counts for: created_at is a UTC time.  Live counts    *)
(* compare it with the New York day, paper counts take its first ten       *)
(* letters.                                                                *)
CountedOn(scope, t) == IF scope = Paper THEN Day(t + UtcLead) ELSE Day(t)

Made(scope, side, day) ==
  {d \in DOMAIN intents : /\ intents[d].scope = scope /\ intents[d].side = side
                          /\ CountedOn(scope, intents[d].at) = day}

(* buy_add_circuit_breaker_tripped; it counts every buy of the day *)
BrakedUnlessSwapped(scope, day) ==
  Cardinality(Made(scope, "BUY", day) \ DOMAIN pairs) >= MaxBuysBrake

Braked(scope, day) == Cardinality(Made(scope, "BUY", day)) >= MaxBuysBrake

(* daily_buy_add_limit_reached; it does not count the buys of swaps *)
QuotaPassed(scope, day) == Cardinality(Made(scope, "BUY", day) \ DOMAIN pairs) > MaxBuys

QuotaUsed(scope, day) == Cardinality(Made(scope, "BUY", day) \ DOMAIN pairs) >= MaxBuys

(* evaluate_decision_policy() *)
Approves(draft, scope, day, funded) ==
  /\ draft.sound
  /\ Increasing(draft) =>
       /\ ~Braked(scope, day)
       /\ draft.exceptional \/ funded \/ ~QuotaUsed(scope, day)
  /\ Reducing(draft) => Cardinality(Made(scope, "SELL", day)) < MaxSells

-----------------------------------------------------------------------------
(* A submission.                                                           *)

(* f with the value v at x, whether or not x was in its domain. *)
With(f, x, v) == [y \in DOMAIN f \cup {x} |-> IF y = x THEN v ELSE f[y]]

Sampled == {t \in Time : t <= clock /\ clock - t <= MaxLag}

NewIntent(d, draft, scope, now) ==
  intents' = With(intents, d, [side |-> SideOf(draft), scope |-> scope, at |-> now])

(* A decision dated after its submission fails like a malformed one. *)
Future(d) ==
  /\ AppendStatus(d, "schema_failed")
  /\ UNCHANGED <<records, evaluations, intents>>

(* A new record is evaluated, and ordered if it is approved and trades. *)
Evaluate(d, draft, scope, now, funded) ==
  LET approved == Approves(draft, scope, Day(now), funded)
      ordered == approved /\ Actionable(draft)
      verdict == IF approved THEN "approved" ELSE "rejected"
      created == Appended(statuses[d], "record_created")
      validated == Appended(created, "schema_validated")
      judged == Appended(validated, verdict)
  IN
  /\ CanAppend(statuses[d], "record_created")
  /\ CanAppend(created, "schema_validated")
  /\ CanAppend(validated, verdict)
  /\ ordered => CanAppend(judged, "intent_created")
  /\ statuses' = [statuses EXCEPT
       ![d] = IF ordered THEN Appended(judged, "intent_created") ELSE judged]
  /\ records' = With(records, d, draft)
  /\ evaluations' = With(evaluations, d, [scope |-> scope, funded |-> funded])
  /\ IF ordered THEN NewIntent(d, draft, scope, now) ELSE UNCHANGED intents

(* A replay must agree with what was recorded, and only completes it. *)
Replay(d, draft, scope, now) ==
  /\ evaluations[d].scope = scope
  /\ records[d] = draft
  /\ IF Latest(statuses[d]) = "approved" /\ Actionable(draft)
     THEN /\ AppendStatus(d, "intent_created")
          /\ NewIntent(d, draft, scope, now)
     ELSE UNCHANGED <<statuses, intents>>
  /\ UNCHANGED <<records, evaluations>>

(* process_decision() of well-formed data *)
Process(d, draft, scope, now, funded) ==
  IF d \in DOMAIN records THEN Replay(d, draft, scope, now)
  ELSE IF draft.created > now THEN Future(d)
  ELSE Evaluate(d, draft, scope, now, funded)

(* `submit` from the command line *)
SubmitByHand(d) ==
  /\ \E draft \in Draft, scope \in Scope, now \in Sampled :
       Process(d, draft, scope, now, FALSE)
  /\ UNCHANGED <<pairs, review, clock>>

(* The data does not validate, but names a decision. *)
SubmitMalformed(d) ==
  /\ AppendStatus(d, "schema_failed")
  /\ UNCHANGED <<records, evaluations, intents, pairs, review, clock>>

-----------------------------------------------------------------------------
(* A review's submissions.  Its decision ids carry its attempt, so they    *)
(* are new; it works on its session's day only.                            *)

StartReview(p) ==
  /\ review[p] = Idle
  /\ \E swaps \in Swaps :
       review' = [review EXCEPT ![p] = [Idle EXCEPT !.phase = "sales", !.day = Day(clock),
                                                    !.swaps = swaps]]
  /\ UNCHANGED <<statuses, records, evaluations, intents, pairs, clock>>

Authored(p, d, draft, now) ==
  /\ statuses[d] = << >>
  /\ draft.created <= now
  /\ Day(now) = review[p].day

(* Sales go first, and one that gave an intent can fund a buy. *)
AcceptedAsSubmitted(accepted, d, draft) == With(accepted, draft.ticker, d)

Accepted(accepted, d, draft) ==
  IF d \in DOMAIN intents' THEN With(accepted, draft.ticker, d) ELSE accepted

SubmitSale(p, d) ==
  /\ review[p].phase = "sales"
  /\ \E draft \in Draft, now \in Sampled :
       /\ Reducing(draft)
       /\ Authored(p, d, draft, now)
       /\ Process(d, draft, p, now, FALSE)
       /\ review' = [review EXCEPT ![p].accepted = Accepted(@, d, draft)]
  /\ UNCHANGED <<pairs, clock>>

(* A new position declared as a swap is funded if its sale was accepted. *)
FundedBy(p, draft) ==
  /\ draft.kind = "BUY"
  /\ draft.ticker \in DOMAIN review[p].swaps
  /\ review[p].swaps[draft.ticker] \in DOMAIN review[p].accepted

SubmitOther(p, d) ==
  /\ review[p].phase \in {"sales", "rest"}
  /\ \E draft \in Draft, now \in Sampled :
       /\ ~Reducing(draft)
       /\ Authored(p, d, draft, now)
       /\ Process(d, draft, p, now, FundedBy(p, draft))
       /\ review' = [review EXCEPT
            ![p].phase = IF d \in DOMAIN intents' /\ FundedBy(p, draft)
                         THEN "pair" ELSE "rest",
            ![p].due = IF d \in DOMAIN intents' /\ FundedBy(p, draft) THEN {d} ELSE {}]
  /\ UNCHANGED <<pairs, clock>>

(* The pair follows in a transaction of its own. *)
PairSwap(p) ==
  /\ review[p].phase = "pair"
  /\ \E buy \in review[p].due :
       pairs' = With(pairs, buy, review[p].accepted[review[p].swaps[records[buy].ticker]])
  /\ review' = [review EXCEPT ![p].phase = "rest", ![p].due = {}]
  /\ UNCHANGED <<statuses, records, evaluations, intents, clock>>

(* The review is done, fails, or loses its lease. *)
EndReview(p) ==
  /\ review[p] # Idle
  /\ review' = [review EXCEPT ![p] = Idle]
  /\ UNCHANGED <<statuses, records, evaluations, intents, pairs, clock>>

Pass ==
  /\ clock < Horizon
  /\ clock' = clock + 1
  /\ UNCHANGED <<statuses, records, evaluations, intents, pairs, review>>

Next ==
  \/ \E d \in Decision : SubmitByHand(d) \/ SubmitMalformed(d)
  \/ \E p \in Profile :
       \/ StartReview(p) \/ PairSwap(p) \/ EndReview(p)
       \/ \E d \in Decision : SubmitSale(p, d) \/ SubmitOther(p, d)
  \/ Pass

Spec == Init /\ [][Next]_vars

-----------------------------------------------------------------------------
(* Properties.                                                             *)

(* The tables a submission writes agree: a decision that failed has its    *)
(* status only, a rejected one a record and an evaluation, and exactly the *)
(* approved ones that trade have an intent, of their side and scope.       *)
RowsAgree ==
  \A d \in Decision :
    LET last == Latest(statuses[d]) IN
    /\ d \in DOMAIN records <=> last \in {"approved", "rejected", "intent_created"}
    /\ d \in DOMAIN intents <=> last = "intent_created"
    /\ d \in DOMAIN records => (Reached(statuses[d], "approved") /\ records[d].kind # "HOLD"
                                  <=> d \in DOMAIN intents)
    /\ d \in DOMAIN intents => /\ intents[d].side = "BUY" <=> records[d].kind \in {"BUY", "ADD"}
                               /\ intents[d].scope = evaluations[d].scope

(* Over all reviews and submissions by hand of a New York day, the buys of *)
(* a profile that are neither exceptional nor funded by a sale of their    *)
(* review are at most two.  A swap that lost its pair is counted once too  *)
(* often, never once too little.                                           *)
OrdinaryBuysCapped ==
  \A p \in Profile : \A day \in 0..Day(Horizon) :
    Cardinality({d \in Made(p, "BUY", day) : ~records[d].exceptional /\ ~evaluations[d].funded})
      <= MaxBuys

(* No declaration exceeds the circuit breakers. *)
DailyBrakes ==
  \A p \in Profile : \A day \in 0..Day(Horizon) :
    /\ Cardinality(Made(p, "BUY", day)) <= MaxBuysBrake
    /\ Cardinality(Made(p, "SELL", day)) <= MaxSells

(* Both, for reviews that stop anywhere and draw on one quota at once.     *)
QuotaHolds == OrdinaryBuysCapped /\ DailyBrakes

(* What is exempt from the quota was a buy that knew its sale: the sale    *)
(* has an intent of the same profile and day.                              *)
SwapsAreFunded ==
  \A b \in DOMAIN pairs :
    /\ b \in DOMAIN intents /\ intents[b].side = "BUY" /\ evaluations[b].funded
    /\ pairs[b] \in DOMAIN intents /\ intents[pairs[b]].side = "SELL"
    /\ intents[pairs[b]].scope = intents[b].scope
    /\ Day(intents[pairs[b]].at) = Day(intents[b].at)

(* A submission says the last word on its decision: however it is          *)
(* replayed, corrected or submitted malformed afterwards, a failed or      *)
(* rejected decision never trades and an order is never written again.     *)
KeepsOutcomes ==
  \A d \in Decision : statuses[d] # << >> =>
    /\ statuses'[d] = statuses[d]
    /\ d \in DOMAIN intents => d \in DOMAIN intents' /\ intents'[d] = intents[d]

OutcomeFinal == [][KeepsOutcomes]_vars
=============================================================================
