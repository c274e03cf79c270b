-------------------------- MODULE Decisions_proofs --------------------------
(***************************************************************************)
(* Proofs about decisions and the daily quota, for any number of           *)
(* decisions, profiles and limits.                                         *)
(***************************************************************************)
EXTENDS Decisions, FiniteSetTheorems, SequenceTheorems, TLAPS

-----------------------------------------------------------------------------
(* Days.                                                                   *)

LEMMA Division ==
  ASSUME NEW n \in Nat \ {0}, NEW t \in Nat
  PROVE  t \div n \in Nat /\ (t \div n) * n <= t
  OBVIOUS

LEMMA DivisionIsLargest ==
  ASSUME NEW n \in Nat \ {0}, NEW t \in Nat, NEW d \in Nat, d * n <= t
  PROVE  d <= t \div n
  OBVIOUS

LEMMA DayInHorizon ==
  ASSUME NEW t \in Time
  PROVE  Day(t) \in 0..(Horizon \div DayLength)
  <1>1. /\ DayLength \in Nat \ {0} /\ Horizon \in Nat
        /\ t \in Nat /\ t <= Horizon
    BY ConstantsAssumption DEF Time
  <1>2. Day(t) \in Nat /\ Day(t) * DayLength <= t
    BY <1>1, Division DEF Day
  <1>3. Day(t) * DayLength <= Horizon
    BY <1>1, <1>2
  <1>4. Day(t) <= Horizon \div DayLength /\ Horizon \div DayLength \in Nat
    BY <1>1, <1>2, <1>3, Division, DivisionIsLargest
  <1>5. QED
    BY <1>2, <1>4

-----------------------------------------------------------------------------
(* A submission.                                                           *)

(* The histories a decision can have: a submission writes one of them, and *)
(* no legal transition leads on from it.                                   *)
Failed == <<"schema_failed">>
Rejected == <<"record_created", "schema_validated", "rejected">>
Approved == <<"record_created", "schema_validated", "approved">>
Ordered == <<"record_created", "schema_validated", "approved", "intent_created">>

Recorded == {Rejected, Approved, Ordered}

LEMMA LatestOfHistory ==
  /\ Latest(<< >>) = "none" /\ Latest(Failed) = "schema_failed"
  /\ Latest(Rejected) = "rejected" /\ Latest(Approved) = "approved"
  /\ Latest(Ordered) = "intent_created"
  BY DEF Latest, Failed, Rejected, Approved, Ordered

LEMMA Distinct ==
  /\ << >> # Failed /\ << >> \notin Recorded /\ Failed \notin Recorded
  /\ Rejected # Approved /\ Rejected # Ordered /\ Approved # Ordered
  BY LatestOfHistory DEF Recorded

LEMMA HistoriesTyped ==
  /\ << >> \in Seq(Status) /\ Failed \in Seq(Status)
  /\ \A h \in Recorded : h \in Seq(Status)
  <1>1. << >> \in Seq(Status) /\ Failed \in Seq(Status)
    BY DEF Failed, Status
  <1>2. Rejected \in Seq(Status) /\ Approved \in Seq(Status)
    BY DEF Rejected, Approved, Status
  <1>3. Ordered \in Seq(Status)
    BY DEF Ordered, Status
  <1>4. QED
    BY <1>1, <1>2, <1>3 DEF Recorded

(* Only a decision without history can be created, or fail anew.           *)
LEMMA OnlyFresh ==
  /\ ~CanAppend(Failed, "record_created")
  /\ CanAppend(Failed, "schema_failed") /\ Appended(Failed, "schema_failed") = Failed
  /\ \A h \in Recorded : ~CanAppend(h, "schema_failed")
  /\ Appended(<< >>, "schema_failed") = Failed
  <1>1. ~CanAppend(Failed, "record_created")
    BY LatestOfHistory DEF CanAppend, Reached, Legal, Failed
  <1>2. CanAppend(Failed, "schema_failed") /\ Appended(Failed, "schema_failed") = Failed
    BY DEF CanAppend, Appended, Reached, Failed
  <1>3. ~CanAppend(Rejected, "schema_failed")
    BY LatestOfHistory DEF CanAppend, Reached, Legal, Rejected
  <1>4. ~CanAppend(Approved, "schema_failed")
    BY LatestOfHistory DEF CanAppend, Reached, Legal, Approved
  <1>5. ~CanAppend(Ordered, "schema_failed")
    BY LatestOfHistory DEF CanAppend, Reached, Legal, Ordered
  <1>6. Appended(<< >>, "schema_failed") = Failed
    BY DEF Appended, Reached, Failed
  <1>7. QED
    BY <1>1, <1>2, <1>3, <1>4, <1>5, <1>6 DEF Recorded

LEMMA AppendIs ==
  ASSUME NEW s \in Seq(Status), NEW e \in Status, NEW t \in Seq(Status),
         Len(t) = Len(s) + 1, t[Len(t)] = e, \A k \in 1..Len(s) : t[k] = s[k]
  PROVE  Append(s, e) = t
  <1>1. /\ Append(s, e) \in Seq(Status) /\ Len(Append(s, e)) = Len(t)
        /\ \A k \in 1..Len(t) : Append(s, e)[k] = t[k]
    BY AppendProperties
  <1>2. QED
    BY <1>1, SeqEqual

(* What an evaluation appends to no history.                               *)
LEMMA Judged ==
  LET validated == Appended(Appended(<< >>, "record_created"), "schema_validated") IN
  /\ Appended(validated, "approved") = Approved
  /\ Appended(validated, "rejected") = Rejected
  /\ Appended(Appended(validated, "approved"), "intent_created") = Ordered
  <1> DEFINE One == <<"record_created">>
             Two == <<"record_created", "schema_validated">>
  <1>1. /\ ~Reached(One, "schema_validated")
        /\ ~Reached(Two, "approved") /\ ~Reached(Two, "rejected")
        /\ ~Reached(Approved, "intent_created")
    BY DEF Reached, Approved
  <1>2. Appended(<< >>, "record_created") = One
    BY DEF Appended, Reached
  <1>3. Append(One, "schema_validated") = Two
    <2>1. One \in Seq(Status) /\ Two \in Seq(Status) /\ "schema_validated" \in Status
      BY DEF Status
    <2>2. /\ Len(Two) = Len(One) + 1 /\ Two[Len(Two)] = "schema_validated"
          /\ \A k \in 1..Len(One) : Two[k] = One[k]
      OBVIOUS
    <2>3. QED
      BY <2>1, <2>2, AppendIs
  <1>4. Append(Two, "approved") = Approved
    <2>1. Two \in Seq(Status) /\ Approved \in Seq(Status) /\ "approved" \in Status
      BY HistoriesTyped DEF Status, Recorded
    <2>2. /\ Len(Approved) = Len(Two) + 1 /\ Approved[Len(Approved)] = "approved"
          /\ \A k \in 1..Len(Two) : Approved[k] = Two[k]
      BY DEF Approved
    <2>3. QED
      BY <2>1, <2>2, AppendIs
  <1>5. Append(Two, "rejected") = Rejected
    <2>1. Two \in Seq(Status) /\ Rejected \in Seq(Status) /\ "rejected" \in Status
      BY HistoriesTyped DEF Status, Recorded
    <2>2. /\ Len(Rejected) = Len(Two) + 1 /\ Rejected[Len(Rejected)] = "rejected"
          /\ \A k \in 1..Len(Two) : Rejected[k] = Two[k]
      BY DEF Rejected
    <2>3. QED
      BY <2>1, <2>2, AppendIs
  <1>6. Append(Approved, "intent_created") = Ordered
    <2>1. Approved \in Seq(Status) /\ Ordered \in Seq(Status) /\ "intent_created" \in Status
      BY HistoriesTyped DEF Status, Recorded
    <2>2. /\ Len(Ordered) = Len(Approved) + 1 /\ Ordered[Len(Ordered)] = "intent_created"
          /\ \A k \in 1..Len(Approved) : Ordered[k] = Approved[k]
      BY DEF Approved, Ordered
    <2>3. QED
      BY <2>1, <2>2, AppendIs
  <1>7. QED
    BY <1>1, <1>2, <1>3, <1>4, <1>5, <1>6, Zenon DEF Appended

-----------------------------------------------------------------------------
(* The inductive invariant: what the tables say of a decision follows from *)
(* its history, and what a review remembers of its sales and its buy is    *)
(* still in the tables.                                                    *)

RowsOf(d) ==
  /\ statuses[d] \in {<< >>, Failed} \cup Recorded
  /\ d \in DOMAIN records <=> statuses[d] \in Recorded
  /\ d \in DOMAIN intents <=> statuses[d] = Ordered
  /\ statuses[d] = Approved => ~Actionable(records[d])
  /\ statuses[d] = Ordered =>
       /\ Actionable(records[d])
       /\ intents[d].side = SideOf(records[d])
       /\ intents[d].scope = evaluations[d].scope

Sale(d, p, day) ==
  /\ d \in DOMAIN intents
  /\ intents[d].side = "SELL" /\ intents[d].scope = p /\ Day(intents[d].at) = day

FundedBuy(d, p, day) ==
  /\ d \in DOMAIN intents
  /\ intents[d].side = "BUY" /\ intents[d].scope = p /\ Day(intents[d].at) = day
  /\ evaluations[d].funded

Remembers(p) ==
  /\ \A t \in DOMAIN review[p].accepted : Sale(review[p].accepted[t], p, review[p].day)
  /\ \A b \in review[p].due :
       /\ FundedBuy(b, p, review[p].day)
       /\ records[b].ticker \in DOMAIN review[p].swaps
       /\ review[p].swaps[records[b].ticker] \in DOMAIN review[p].accepted

(* The part of TypeOK about the tables of decisions. *)
TablesTyped ==
  /\ statuses \in [Decision -> Seq(Status)]
  /\ DOMAIN records \subseteq Decision
  /\ \A d \in DOMAIN records : records[d] \in Draft
  /\ DOMAIN evaluations = DOMAIN records
  /\ \A d \in DOMAIN evaluations : evaluations[d] \in Evaluation
  /\ DOMAIN intents \subseteq DOMAIN records
  /\ \A d \in DOMAIN intents : intents[d] \in Intent

RowInv ==
  /\ TablesTyped
  /\ IsFiniteSet(DOMAIN intents)
  /\ \A d \in Decision : RowsOf(d)

(* The part about reviews. *)
ReviewsTyped ==
  /\ review \in [Profile -> Review]
  /\ DOMAIN pairs \subseteq Decision
  /\ \A d \in DOMAIN pairs : pairs[d] \in Decision
  /\ clock \in Time

SwapInv ==
  /\ RowInv
  /\ ReviewsTyped
  /\ \A p \in Profile : Remembers(p)
  /\ SwapsAreFunded

-----------------------------------------------------------------------------
(* What a submission does: nothing, or the first and last word on a        *)
(* decision that had no history.                                           *)

Nothing == UNCHANGED <<statuses, records, evaluations, intents>>

Fails(d) ==
  /\ statuses[d] = << >>
  /\ statuses' = [statuses EXCEPT ![d] = Failed]
  /\ UNCHANGED <<records, evaluations, intents>>

Evaluates(d, draft, scope, funded, history) ==
  /\ statuses[d] = << >>
  /\ statuses' = [statuses EXCEPT ![d] = history]
  /\ records' = With(records, d, draft)
  /\ evaluations' = With(evaluations, d, [scope |-> scope, funded |-> funded])

Records(d, draft, scope, funded) ==
  /\ \/ Evaluates(d, draft, scope, funded, Rejected)
     \/ Evaluates(d, draft, scope, funded, Approved) /\ ~Actionable(draft)
  /\ UNCHANGED intents

Orders(d, draft, scope, now, funded) ==
  /\ Evaluates(d, draft, scope, funded, Ordered)
  /\ Actionable(draft)
  /\ Approves(draft, scope, Day(now), funded)
  /\ NewIntent(d, draft, scope, now)

Submits(d, draft, scope, now, funded) ==
  \/ Nothing
  \/ Fails(d)
  \/ Records(d, draft, scope, funded)
  \/ Orders(d, draft, scope, now, funded)

LEMMA StatusesAreFunction ==
  ASSUME RowInv, NEW d \in Decision
  PROVE  /\ DOMAIN statuses = Decision
         /\ [statuses EXCEPT ![d] = statuses[d]] = statuses
         /\ \A h : [statuses EXCEPT ![d] = h][d] = h
  BY DEF RowInv, TablesTyped

LEMMA FailsOrNothing ==
  ASSUME RowInv, NEW d \in Decision, AppendStatus(d, "schema_failed"),
         UNCHANGED <<records, evaluations, intents>>
  PROVE  Nothing \/ Fails(d)
  <1>1. statuses[d] \in {<< >>, Failed} \cup Recorded
    BY DEF RowInv, RowsOf
  <1>2. CASE statuses[d] = << >>
    BY <1>2, OnlyFresh DEF AppendStatus, Fails
  <1>3. CASE statuses[d] = Failed
    BY <1>3, OnlyFresh, StatusesAreFunction DEF AppendStatus, Nothing
  <1>4. CASE statuses[d] \in Recorded
    BY <1>4, OnlyFresh DEF AppendStatus
  <1>5. QED
    BY <1>1, <1>2, <1>3, <1>4

LEMMA ProcessSubmits ==
  ASSUME RowInv, NEW d \in Decision, NEW draft, NEW scope, NEW now, NEW funded,
         Process(d, draft, scope, now, funded)
  PROVE  Submits(d, draft, scope, now, funded)
  <1>1. RowsOf(d)
    BY DEF RowInv
  <1>2. CASE d \in DOMAIN records
    <2>1. Replay(d, draft, scope, now)
      BY <1>2 DEF Process
    <2>2. ~(Latest(statuses[d]) = "approved" /\ Actionable(draft))
      BY <1>1, <1>2, <2>1, LatestOfHistory, Zenon DEF RowsOf, Replay, Recorded
    <2>3. QED
      BY <2>1, <2>2 DEF Replay, Submits, Nothing
  <1>3. CASE d \notin DOMAIN records /\ Future(d)
    BY <1>3, FailsOrNothing DEF Future, Submits
  <1>4. CASE d \notin DOMAIN records /\ Evaluate(d, draft, scope, now, funded)
    <2>1. statuses[d] = << >>
      BY <1>1, <1>4, OnlyFresh, Zenon DEF RowsOf, Evaluate
    <2> DEFINE approved == Approves(draft, scope, Day(now), funded)
               created == Appended(statuses[d], "record_created")
               validated == Appended(created, "schema_validated")
    <2>2. /\ Appended(validated, "approved") = Approved
          /\ Appended(validated, "rejected") = Rejected
          /\ Appended(Appended(validated, "approved"), "intent_created") = Ordered
      BY <2>1, Judged, Zenon
    <2>3. CASE approved /\ Actionable(draft)
      BY <1>4, <2>1, <2>2, <2>3 DEF Evaluate, Evaluates, Orders, Submits
    <2>4. CASE approved /\ ~Actionable(draft)
      BY <1>4, <2>1, <2>2, <2>4 DEF Evaluate, Evaluates, Records, Submits
    <2>5. CASE ~approved
      BY <1>4, <2>1, <2>2, <2>5 DEF Evaluate, Evaluates, Records, Submits
    <2>6. QED
      BY <2>3, <2>4, <2>5
  <1>5. QED
    BY <1>2, <1>3, <1>4 DEF Process

(* Every step submits at most one decision.                                *)
AnySubmission ==
  \/ Nothing
  \/ \E d \in Decision : Fails(d)
  \/ \E d \in Decision, draft \in Draft, scope \in Scope, now \in Sampled, funded \in BOOLEAN :
       Submits(d, draft, scope, now, funded)

LEMMA Steps ==
  ASSUME RowInv, [Next]_vars
  PROVE  AnySubmission
  <1>1. ASSUME NEW d \in Decision, SubmitByHand(d)
        PROVE  AnySubmission
    <2>1. PICK draft \in Draft, scope \in Scope, now \in Sampled :
            Process(d, draft, scope, now, FALSE)
      BY <1>1 DEF SubmitByHand
    <2>2. QED
      BY <2>1, ProcessSubmits DEF AnySubmission
  <1>2. ASSUME NEW d \in Decision, SubmitMalformed(d)
        PROVE  AnySubmission
    <2>1. Nothing \/ Fails(d)
      BY <1>2, FailsOrNothing DEF SubmitMalformed
    <2>2. CASE Nothing
      BY <2>2 DEF AnySubmission
    <2>3. CASE Fails(d)
      BY <2>3 DEF AnySubmission
    <2>4. QED
      BY <2>1, <2>2, <2>3
  <1>3. ASSUME NEW p \in Profile, NEW d \in Decision, SubmitSale(p, d)
        PROVE  AnySubmission
    <2>1. PICK draft \in Draft, now \in Sampled : Process(d, draft, p, now, FALSE)
      BY <1>3 DEF SubmitSale
    <2>2. QED
      BY <2>1, ProcessSubmits DEF AnySubmission, Scope
  <1>4. ASSUME NEW p \in Profile, NEW d \in Decision, SubmitOther(p, d)
        PROVE  AnySubmission
    <2>1. PICK draft \in Draft, now \in Sampled :
            Process(d, draft, p, now, FundedBy(p, draft))
      BY <1>4 DEF SubmitOther
    <2>2. FundedBy(p, draft) \in BOOLEAN
      BY DEF FundedBy
    <2>3. QED
      BY <2>1, <2>2, ProcessSubmits DEF AnySubmission, Scope
  <1>5. ASSUME NEW p \in Profile, StartReview(p) \/ PairSwap(p) \/ EndReview(p)
        PROVE  AnySubmission
    BY <1>5 DEF StartReview, PairSwap, EndReview, AnySubmission, Nothing
  <1>6. CASE Pass
    BY <1>6 DEF Pass, AnySubmission, Nothing
  <1>7. CASE UNCHANGED vars
    BY <1>7 DEF vars, AnySubmission, Nothing
  <1>8. QED
    BY <1>1, <1>2, <1>3, <1>4, <1>5, <1>6, <1>7 DEF Next
-----------------------------------------------------------------------------
(* The tables stay well formed.                                            *)

LEMMA SampledTyped ==
  ASSUME NEW now \in Sampled
  PROVE  now \in Time
  BY DEF Sampled

LEMMA SideTyped ==
  ASSUME NEW draft \in Draft, Actionable(draft)
  PROVE  /\ SideOf(draft) \in {"BUY", "SELL"}
         /\ SideOf(draft) = "BUY" <=> Increasing(draft)
         /\ SideOf(draft) = "SELL" <=> Reducing(draft)
  BY DEF Actionable, SideOf, Increasing, Reducing

LEMMA NothingKeepsRows ==
  ASSUME RowInv, Nothing
  PROVE  RowInv'
  BY DEF RowInv, Nothing, TablesTyped, RowsOf

(* What evaluating a decision leaves of the rows of every decision.        *)
Evaluated(d, draft, scope, funded, h) ==
  /\ statuses' \in [Decision -> Seq(Status)] /\ statuses'[d] = h
  /\ \A c \in Decision : c # d => statuses'[c] = statuses[c]
  /\ d \notin DOMAIN records /\ d \notin DOMAIN intents
  /\ DOMAIN records' = DOMAIN records \cup {d} /\ records'[d] = draft
  /\ DOMAIN evaluations' = DOMAIN records'
  /\ evaluations'[d] = [scope |-> scope, funded |-> funded]
  /\ \A c \in DOMAIN records : records'[c] = records[c]
                               /\ evaluations'[c] = evaluations[c]
  /\ \A c \in DOMAIN records' : records'[c] \in Draft
  /\ \A c \in DOMAIN evaluations' : evaluations'[c] \in Evaluation

LEMMA EvaluatedRows ==
  ASSUME RowInv, NEW d \in Decision, NEW draft \in Draft, NEW scope \in Scope,
         NEW funded \in BOOLEAN, NEW h \in Recorded, Evaluates(d, draft, scope, funded, h)
  PROVE  Evaluated(d, draft, scope, funded, h)
  <1>1. /\ statuses \in [Decision -> Seq(Status)] /\ h \in Seq(Status)
        /\ DOMAIN evaluations = DOMAIN records
        /\ \A c \in DOMAIN records : records[c] \in Draft
        /\ \A c \in DOMAIN evaluations : evaluations[c] \in Evaluation
    BY HistoriesTyped DEF RowInv, TablesTyped
  <1>2. statuses' = [statuses EXCEPT ![d] = h] /\ statuses[d] = << >>
    BY DEF Evaluates
  <1>3. /\ statuses' \in [Decision -> Seq(Status)] /\ statuses'[d] = h
        /\ \A c \in Decision : c # d => statuses'[c] = statuses[c]
    BY <1>1, <1>2
  <1>4. RowsOf(d)
    BY DEF RowInv
  <1>5. d \notin DOMAIN records /\ d \notin DOMAIN intents
    BY <1>2, <1>4, Distinct DEF RowsOf, Recorded
  <1>6. /\ records' = With(records, d, draft)
        /\ evaluations' = With(evaluations, d, [scope |-> scope, funded |-> funded])
    BY DEF Evaluates
  <1>7. /\ DOMAIN records' = DOMAIN records \cup {d} /\ records'[d] = draft
        /\ \A c \in DOMAIN records : records'[c] = records[c]
    BY <1>5, <1>6 DEF With
  <1>8. /\ DOMAIN evaluations' = DOMAIN evaluations \cup {d}
        /\ evaluations'[d] = [scope |-> scope, funded |-> funded]
        /\ \A c \in DOMAIN evaluations : evaluations'[c] = evaluations[c]
    BY <1>1, <1>5, <1>6 DEF With
  <1>9. [scope |-> scope, funded |-> funded] \in Evaluation
    BY DEF Evaluation
  <1>10. QED
    BY <1>1, <1>3, <1>5, <1>7, <1>8, <1>9 DEF Evaluated

LEMMA FailsKeepsRows ==
  ASSUME RowInv, NEW d \in Decision, Fails(d)
  PROVE  RowInv'
  <1>1. /\ statuses' \in [Decision -> Seq(Status)] /\ statuses'[d] = Failed
        /\ \A c \in Decision : c # d => statuses'[c] = statuses[c]
    BY HistoriesTyped DEF RowInv, TablesTyped, Fails
  <1>2. RowsOf(d) /\ statuses[d] = << >>
    BY DEF RowInv, Fails
  <1>3. TablesTyped'
    BY <1>1 DEF RowInv, TablesTyped, Fails
  <1>4. RowsOf(d)'
    BY <1>1, <1>2, Distinct DEF RowsOf, Fails, Recorded
  <1>5. ASSUME NEW c \in Decision, c # d
        PROVE  RowsOf(c)'
    BY <1>1, <1>5 DEF RowInv, RowsOf, Fails
  <1>6. QED
    BY <1>3, <1>4, <1>5 DEF RowInv, Fails

LEMMA RecordsKeepsRows ==
  ASSUME RowInv, NEW d \in Decision, NEW draft \in Draft, NEW scope \in Scope,
         NEW funded \in BOOLEAN, Records(d, draft, scope, funded)
  PROVE  RowInv'
  <1>1. PICK h \in {Rejected, Approved} :
          Evaluates(d, draft, scope, funded, h) /\ (h = Approved => ~Actionable(draft))
    BY Distinct DEF Records
  <1>2. h \in Recorded /\ h # Ordered /\ intents' = intents
    BY Distinct DEF Recorded, Records
  <1>3. Evaluated(d, draft, scope, funded, h)
    BY <1>1, <1>2, EvaluatedRows
  <1>4. TablesTyped'
    BY <1>2, <1>3 DEF RowInv, TablesTyped, Evaluated
  <1>5. RowsOf(d)'
    BY <1>1, <1>2, <1>3 DEF RowsOf, Evaluated
  <1>6. ASSUME NEW c \in Decision, c # d
        PROVE  RowsOf(c)'
    BY <1>2, <1>3, <1>6, Distinct DEF RowInv, RowsOf, TablesTyped, Evaluated, Recorded
  <1>7. QED
    BY <1>2, <1>4, <1>5, <1>6 DEF RowInv

(* What an order adds to that. *)
HasOrdered(d, draft, scope, now, funded) ==
  /\ Evaluated(d, draft, scope, funded, Ordered)
  /\ DOMAIN intents' = DOMAIN intents \cup {d}
  /\ intents'[d] = [side |-> SideOf(draft), scope |-> scope, at |-> now]
  /\ \A c \in DOMAIN intents : intents'[c] = intents[c]

LEMMA OrderedRows ==
  ASSUME RowInv, NEW d \in Decision, NEW draft \in Draft, NEW scope \in Scope,
         NEW now \in Sampled, NEW funded \in BOOLEAN, Orders(d, draft, scope, now, funded)
  PROVE  HasOrdered(d, draft, scope, now, funded)
  <1>1. Ordered \in Recorded /\ Evaluates(d, draft, scope, funded, Ordered)
    BY DEF Recorded, Orders
  <1>2. Evaluated(d, draft, scope, funded, Ordered)
    BY <1>1, EvaluatedRows
  <1>3. intents' = With(intents, d, [side |-> SideOf(draft), scope |-> scope, at |-> now])
    BY DEF Orders, NewIntent
  <1>4. d \notin DOMAIN intents
    BY <1>2 DEF Evaluated
  <1>5. /\ DOMAIN intents' = DOMAIN intents \cup {d}
        /\ intents'[d] = [side |-> SideOf(draft), scope |-> scope, at |-> now]
        /\ \A c \in DOMAIN intents : intents'[c] = intents[c]
    BY <1>3, <1>4 DEF With
  <1>6. QED
    BY <1>2, <1>5 DEF HasOrdered

LEMMA OrdersKeepsRows ==
  ASSUME RowInv, NEW d \in Decision, NEW draft \in Draft, NEW scope \in Scope,
         NEW now \in Sampled, NEW funded \in BOOLEAN, Orders(d, draft, scope, now, funded)
  PROVE  RowInv'
  <1>1. HasOrdered(d, draft, scope, now, funded) /\ Actionable(draft)
    BY OrderedRows DEF Orders
  <1>2. [side |-> SideOf(draft), scope |-> scope, at |-> now] \in Intent
    BY <1>1, SideTyped, SampledTyped DEF Intent
  <1>3. TablesTyped'
    <2>1. \A c \in DOMAIN intents' : intents'[c] \in Intent
      BY <1>1, <1>2 DEF RowInv, TablesTyped, HasOrdered
    <2>2. DOMAIN intents' \subseteq DOMAIN records' /\ DOMAIN records' \subseteq Decision
      BY <1>1 DEF RowInv, TablesTyped, HasOrdered, Evaluated
    <2>3. QED
      BY <1>1, <2>1, <2>2 DEF TablesTyped, HasOrdered, Evaluated
  <1>4. RowsOf(d)'
    BY <1>1, Distinct DEF RowsOf, HasOrdered, Evaluated, Recorded
  <1>5. ASSUME NEW c \in Decision, c # d
        PROVE  RowsOf(c)'
    <2>1. RowsOf(c) /\ statuses'[c] = statuses[c]
      BY <1>1, <1>5 DEF RowInv, HasOrdered, Evaluated
    <2>2. /\ c \in DOMAIN records' <=> c \in DOMAIN records
          /\ c \in DOMAIN intents' <=> c \in DOMAIN intents
      BY <1>1, <1>5 DEF HasOrdered, Evaluated
    <2>3. /\ c \in DOMAIN records => records'[c] = records[c]
                                     /\ evaluations'[c] = evaluations[c]
          /\ c \in DOMAIN intents => intents'[c] = intents[c]
      BY <1>1 DEF HasOrdered, Evaluated
    <2>4. QED
      BY <2>1, <2>2, <2>3, Distinct DEF RowsOf, Recorded
  <1>6. IsFiniteSet(DOMAIN intents')
    <2>1. DOMAIN intents' = DOMAIN intents \cup {d} /\ IsFiniteSet(DOMAIN intents)
      BY <1>1 DEF HasOrdered, RowInv
    <2>2. QED
      BY <2>1, FS_AddElement
  <1>7. QED
    BY <1>3, <1>4, <1>5, <1>6 DEF RowInv

LEMMA RowsInductive ==
  ASSUME RowInv, AnySubmission
  PROVE  RowInv'
  <1>1. CASE Nothing
    BY <1>1, NothingKeepsRows
  <1>2. ASSUME NEW d \in Decision, Fails(d)
        PROVE  RowInv'
    BY <1>2, FailsKeepsRows
  <1>3. ASSUME NEW d \in Decision, NEW draft \in Draft, NEW scope \in Scope,
               NEW now \in Sampled, NEW funded \in BOOLEAN,
               Submits(d, draft, scope, now, funded)
        PROVE  RowInv'
    BY <1>3, NothingKeepsRows, FailsKeepsRows, RecordsKeepsRows, OrdersKeepsRows DEF Submits
  <1>4. QED
    BY <1>1, <1>2, <1>3 DEF AnySubmission
(* What has been written stays as it was. *)
Lasting ==
  /\ \A c \in DOMAIN intents : c \in DOMAIN intents' /\ intents'[c] = intents[c]
  /\ \A c \in DOMAIN records : /\ records'[c] = records[c]
                               /\ evaluations'[c] = evaluations[c]

LEMMA SubmissionsLast ==
  ASSUME RowInv, AnySubmission
  PROVE  Lasting
  <1>1. ASSUME NEW d \in Decision, NEW draft \in Draft, NEW scope \in Scope,
               NEW now \in Sampled, NEW funded \in BOOLEAN,
               Submits(d, draft, scope, now, funded)
        PROVE  Lasting
    <2>1. CASE Nothing \/ Fails(d)
      BY <2>1 DEF Nothing, Fails, Lasting
    <2>2. CASE Records(d, draft, scope, funded)
      <3>1. PICK h \in {Rejected, Approved} : Evaluates(d, draft, scope, funded, h)
        BY <2>2 DEF Records
      <3>2. Evaluated(d, draft, scope, funded, h) /\ intents' = intents
        BY <2>2, <3>1, EvaluatedRows DEF Recorded, Records
      <3>3. QED
        BY <3>2 DEF Evaluated, Lasting
    <2>3. CASE Orders(d, draft, scope, now, funded)
      <3>1. HasOrdered(d, draft, scope, now, funded)
        BY <2>3, OrderedRows
      <3>2. QED
        BY <3>1 DEF HasOrdered, Evaluated, Lasting
    <2>4. QED
      BY <1>1, <2>1, <2>2, <2>3 DEF Submits
  <1>2. CASE Nothing \/ \E d \in Decision : Fails(d)
    BY <1>2 DEF Nothing, Fails, Lasting
  <1>3. QED
    BY <1>1, <1>2 DEF AnySubmission

LEMMA RememberedLasts ==
  ASSUME RowInv, Lasting, NEW p \in Profile, Remembers(p), review'[p] = review[p]
  PROVE  Remembers(p)'
  <1>1. \A c \in DOMAIN intents : c \in DOMAIN records
    BY DEF RowInv, TablesTyped
  <1>2. QED
    BY <1>1 DEF Lasting, Remembers, Sale, FundedBuy

LEMMA PairsLast ==
  ASSUME RowInv, Lasting, SwapsAreFunded, pairs' = pairs
  PROVE  SwapsAreFunded'
  <1>1. \A c \in DOMAIN intents : c \in DOMAIN records
    BY DEF RowInv, TablesTyped
  <1>2. QED
    BY <1>1 DEF Lasting, SwapsAreFunded

-----------------------------------------------------------------------------
(* Reviews.                                                                *)

LEMMA ReviewFields ==
  ASSUME ReviewsTyped, NEW p \in Profile
  PROVE  /\ review[p] \in Review
         /\ review[p].phase \in {"idle", "sales", "rest", "pair"}
         /\ review[p].day \in 0..(Horizon \div DayLength)
         /\ review[p].swaps \in Swaps \cup {<< >>}
         /\ review[p].due \subseteq Decision
         /\ review[p].accepted \in UNION {[sold -> Decision] : sold \in SUBSET Ticker}
  BY DEF ReviewsTyped, Review

LEMMA IdleTyped ==
  /\ Idle \in Review
  /\ DOMAIN Idle.accepted = {} /\ Idle.due = {}
  <1>1. 0 \in 0..(Horizon \div DayLength)
    <2>1. Horizon \div DayLength \in Nat
      BY Division, ConstantsAssumption
    <2>2. QED
      BY <2>1
  <1>2. << >> \in UNION {[sold -> Decision] : sold \in SUBSET Ticker}
    <2>1. << >> \in [{} -> Decision] /\ {} \in SUBSET Ticker
      OBVIOUS
    <2>2. QED
      BY <2>1
  <1>3. Idle \in Review
    BY <1>1, <1>2 DEF Idle, Review
  <1>4. DOMAIN Idle.accepted = {} /\ Idle.due = {}
    BY DEF Idle
  <1>5. QED
    BY <1>3, <1>4

(* Accepting a sale.                                                       *)
LEMMA AcceptedTyped ==
  ASSUME NEW accepted \in UNION {[sold -> Decision] : sold \in SUBSET Ticker},
         NEW d \in Decision, NEW draft \in Draft
  PROVE  Accepted(accepted, d, draft) \in UNION {[sold -> Decision] : sold \in SUBSET Ticker}
  <1>1. PICK sold \in SUBSET Ticker : accepted \in [sold -> Decision]
    OBVIOUS
  <1>2. draft.ticker \in Ticker
    BY ConstantsAssumption
  <1>3. /\ sold \cup {draft.ticker} \in SUBSET Ticker
        /\ With(accepted, draft.ticker, d) \in [sold \cup {draft.ticker} -> Decision]
    BY <1>1, <1>2 DEF With
  <1>4. QED
    BY <1>3 DEF Accepted
(* Another review's memory, and everything but p's memory, after a step of *)
(* p that submits d or nothing.                                            *)
LEMMA OthersRemember ==
  ASSUME RowInv, Lasting, NEW p \in Profile, \A q \in Profile : Remembers(q),
         \A q \in Profile : q # p => review'[q] = review[q], Remembers(p)'
  PROVE  \A q \in Profile : Remembers(q)'
  <1> SUFFICES ASSUME NEW q \in Profile
               PROVE  Remembers(q)'
    OBVIOUS
  <1>1. CASE q = p
    BY <1>1
  <1>2. CASE q # p
    BY <1>2, RememberedLasts
  <1>3. QED
    BY <1>1, <1>2

(* A review's submission is Orders exactly if its decision has an intent   *)
(* afterwards: the review's ids are new.                                   *)
LEMMA OrderedOrNot ==
  ASSUME RowInv, NEW d \in Decision, NEW draft, NEW scope, NEW now, NEW funded,
         statuses[d] = << >>, Process(d, draft, scope, now, funded),
         d \in DOMAIN intents'
  PROVE  Orders(d, draft, scope, now, funded)
  <1>1. d \notin DOMAIN intents
    BY Distinct DEF RowInv, RowsOf, Recorded
  <1>2. Submits(d, draft, scope, now, funded)
    BY ProcessSubmits
  <1>3. QED
    BY <1>1, <1>2 DEF Submits, Nothing, Fails, Records

LEMMA SaleRemembered ==
  ASSUME SwapInv, RowInv', Lasting, NEW p \in Profile, NEW d \in Decision, SubmitSale(p, d)
  PROVE  /\ ReviewsTyped'
         /\ Remembers(p)'
         /\ \A q \in Profile : q # p => review'[q] = review[q]
  <1>1. PICK draft \in Draft, now \in Sampled :
          /\ Reducing(draft) /\ Authored(p, d, draft, now)
          /\ Process(d, draft, p, now, FALSE)
          /\ review' = [review EXCEPT ![p].accepted = Accepted(@, d, draft)]
    BY DEF SubmitSale
  <1> DEFINE accepted == review[p].accepted
             funding == UNION {[sold -> Decision] : sold \in SUBSET Ticker}
  <1>2. review \in [Profile -> Review] /\ review[p] \in Review /\ accepted \in funding
    BY ReviewFields DEF SwapInv, ReviewsTyped
  <1>3. Accepted(accepted, d, draft) \in funding
    BY <1>2, AcceptedTyped
  <1>4. review' \in [Profile -> Review]
    BY <1>1, <1>2, <1>3 DEF Review
  <1>5. /\ review'[p].accepted = Accepted(accepted, d, draft)
        /\ review'[p].day = review[p].day /\ review'[p].due = review[p].due
        /\ review'[p].swaps = review[p].swaps
        /\ \A q \in Profile : q # p => review'[q] = review[q]
    BY <1>1, <1>2 DEF Review
  <1>6. ReviewsTyped'
    BY <1>4 DEF SwapInv, ReviewsTyped, SubmitSale
  <1>7. Remembers(p) /\ \A c \in DOMAIN intents : c \in DOMAIN records
    BY DEF SwapInv, RowInv, TablesTyped
  <1>8. CASE d \in DOMAIN intents'
    <2>1. Orders(d, draft, p, now, FALSE) /\ Day(now) = review[p].day
      BY <1>1, <1>8, OrderedOrNot DEF Authored, SwapInv
    <2>2. p \in Scope /\ FALSE \in BOOLEAN /\ RowInv
      BY DEF Scope, SwapInv
    <2>3. HasOrdered(d, draft, p, now, FALSE)
      BY <2>1, <2>2, OrderedRows
    <2>4. SideOf(draft) = "SELL"
      BY <1>1 DEF Reducing, SideOf, Increasing
    <2>5. Sale(d, p, review[p].day)'
      <3>1. d \in DOMAIN intents' /\ intents'[d] = [side |-> "SELL", scope |-> p, at |-> now]
        BY <1>8, <2>3, <2>4 DEF HasOrdered
      <3>2. Day(now)' = Day(now)
        BY DEF Day
      <3>3. Day(intents'[d].at) = review'[p].day
        BY <1>5, <2>1, <3>1
      <3>4. QED
        BY <3>1, <3>3 DEF Sale, Day
    <2>6. /\ DOMAIN review'[p].accepted = DOMAIN accepted \cup {draft.ticker}
          /\ \A t \in DOMAIN review'[p].accepted :
               \/ review'[p].accepted[t] = d
               \/ t \in DOMAIN accepted /\ review'[p].accepted[t] = accepted[t]
      BY <1>5, <1>8 DEF Accepted, With
    <2>7. \A t \in DOMAIN review'[p].accepted :
            Sale(review[p].accepted[t], p, review[p].day)'
      <3> SUFFICES ASSUME NEW t \in DOMAIN review'[p].accepted
                   PROVE  Sale(review[p].accepted[t], p, review[p].day)'
        OBVIOUS
      <3>1. CASE review'[p].accepted[t] = d
        BY <1>5, <2>5, <3>1 DEF Sale
      <3>2. CASE t \in DOMAIN accepted /\ review'[p].accepted[t] = accepted[t]
        <4>1. Sale(accepted[t], p, review[p].day)
          BY <1>7, <3>2 DEF Remembers
        <4>2. QED
          BY <1>5, <3>2, <4>1 DEF Sale, Lasting, Day
      <3>3. QED
        BY <2>6, <3>1, <3>2
    <2>8. \A b \in review'[p].due :
            /\ FundedBuy(b, p, review[p].day)'
            /\ records'[b].ticker \in DOMAIN review[p].swaps
            /\ review[p].swaps[records'[b].ticker] \in DOMAIN review'[p].accepted
      BY <1>5, <1>7, <2>6 DEF Remembers, FundedBuy, Lasting, Day
    <2>9. Remembers(p)'
      BY <1>5, <2>7, <2>8 DEF Remembers
    <2>10. QED
      BY <1>5, <1>6, <2>9
  <1>9. CASE d \notin DOMAIN intents'
    <2>1. review'[p].accepted = accepted
      BY <1>5, <1>9 DEF Accepted
    <2>2. Remembers(p)'
      BY <1>5, <1>7, <2>1 DEF Remembers, Sale, FundedBuy, Lasting, Day
    <2>3. QED
      BY <1>5, <1>6, <2>2
  <1>10. QED
    BY <1>8, <1>9

LEMMA OtherRemembered ==
  ASSUME SwapInv, RowInv', Lasting, NEW p \in Profile, NEW d \in Decision, SubmitOther(p, d)
  PROVE  /\ ReviewsTyped'
         /\ Remembers(p)'
         /\ \A q \in Profile : q # p => review'[q] = review[q]
  <1>1. PICK draft \in Draft, now \in Sampled :
          /\ Authored(p, d, draft, now)
          /\ Process(d, draft, p, now, FundedBy(p, draft))
          /\ review' = [review EXCEPT
               ![p].phase = IF d \in DOMAIN intents' /\ FundedBy(p, draft)
                            THEN "pair" ELSE "rest",
               ![p].due = IF d \in DOMAIN intents' /\ FundedBy(p, draft) THEN {d} ELSE {}]
    BY DEF SubmitOther
  <1> DEFINE waits == d \in DOMAIN intents' /\ FundedBy(p, draft)
  <1>2. review \in [Profile -> Review] /\ review[p] \in Review
    BY ReviewFields DEF SwapInv, ReviewsTyped
  <1>3. /\ (IF waits THEN "pair" ELSE "rest") \in {"idle", "sales", "rest", "pair"}
        /\ (IF waits THEN {d} ELSE {}) \in SUBSET Decision
    OBVIOUS
  <1>4. review' \in [Profile -> Review]
    BY <1>1, <1>2, <1>3 DEF Review
  <1>5. /\ review'[p].due = IF waits THEN {d} ELSE {}
        /\ review'[p].day = review[p].day /\ review'[p].accepted = review[p].accepted
        /\ review'[p].swaps = review[p].swaps
        /\ \A q \in Profile : q # p => review'[q] = review[q]
    BY <1>1, <1>2 DEF Review
  <1>6. ReviewsTyped'
    BY <1>4 DEF SwapInv, ReviewsTyped, SubmitOther
  <1>7. \A t \in DOMAIN review'[p].accepted :
          Sale(review[p].accepted[t], p, review[p].day)'
    BY <1>5 DEF SwapInv, Remembers, Sale, Lasting, Day
  <1>8. ASSUME waits PROVE Remembers(p)'
    <2>1. Orders(d, draft, p, now, TRUE) /\ Day(now) = review[p].day
      <3>1. FundedBy(p, draft) = TRUE
        BY <1>8 DEF FundedBy
      <3>2. QED
        BY <1>1, <1>8, <3>1, OrderedOrNot DEF Authored, SwapInv
    <2>2. p \in Scope /\ TRUE \in BOOLEAN /\ RowInv
      BY DEF Scope, SwapInv
    <2>3. HasOrdered(d, draft, p, now, TRUE)
      BY <2>1, <2>2, OrderedRows
    <2>4. SideOf(draft) = "BUY"
      BY <1>8 DEF FundedBy, SideOf, Increasing, Reducing
    <2>5. /\ d \in DOMAIN intents'
          /\ intents'[d] = [side |-> "BUY", scope |-> p, at |-> now]
          /\ evaluations'[d].funded /\ records'[d] = draft
      BY <1>8, <2>3, <2>4 DEF HasOrdered, Evaluated
    <2>6. FundedBuy(d, p, review[p].day)'
      <3>1. Day(intents'[d].at) = review'[p].day
        BY <1>5, <2>1, <2>5
      <3>2. QED
        BY <2>5, <3>1 DEF FundedBuy, Day
    <2>7. /\ records'[d].ticker \in DOMAIN review'[p].swaps
          /\ review'[p].swaps[records'[d].ticker] \in DOMAIN review'[p].accepted
      BY <1>5, <1>8, <2>5 DEF FundedBy
    <2>8. review'[p].due = {d}
      BY <1>5, <1>8
    <2>9. QED
      BY <1>5, <1>7, <2>6, <2>7, <2>8 DEF Remembers, FundedBuy, Day
  <1>9. ASSUME ~waits PROVE Remembers(p)'
    <2>1. review'[p].due = {}
      BY <1>5, <1>9
    <2>2. QED
      BY <1>7, <2>1 DEF Remembers
  <1>10. QED
    BY <1>5, <1>6, <1>8, <1>9
(* The pair of a funded buy.                                               *)
LEMMA PairRemembered ==
  ASSUME SwapInv, NEW p \in Profile, PairSwap(p)
  PROVE  SwapInv'
  <1>1. PICK buy \in review[p].due :
          pairs' = With(pairs, buy, review[p].accepted[review[p].swaps[records[buy].ticker]])
    BY DEF PairSwap
  <1> DEFINE sale == review[p].accepted[review[p].swaps[records[buy].ticker]]
  <1>2. /\ UNCHANGED <<statuses, records, evaluations, intents, clock>>
        /\ review' = [review EXCEPT ![p].phase = "rest", ![p].due = {}]
    BY DEF PairSwap
  <1>3. Remembers(p) /\ RowInv /\ ReviewsTyped /\ SwapsAreFunded
    BY DEF SwapInv
  <1>4. review \in [Profile -> Review] /\ review[p] \in Review
    BY <1>3, ReviewFields DEF ReviewsTyped
  <1>5. /\ FundedBuy(buy, p, review[p].day) /\ Sale(sale, p, review[p].day)
        /\ review[p].swaps[records[buy].ticker] \in DOMAIN review[p].accepted
    BY <1>3 DEF Remembers
  <1>6. buy \in Decision /\ sale \in Decision
    <2>1. buy \in Decision
      BY <1>4 DEF Review
    <2>2. PICK sold \in SUBSET Ticker : review[p].accepted \in [sold -> Decision]
      BY <1>4 DEF Review
    <2>3. QED
      BY <1>5, <2>1, <2>2
  <1>7. RowInv'
    BY <1>2, <1>3, NothingKeepsRows DEF Nothing
  <1>8. ReviewsTyped'
    <2>1. review' \in [Profile -> Review]
      BY <1>2, <1>4 DEF Review
    <2>2. DOMAIN pairs' \subseteq Decision /\ \A d \in DOMAIN pairs' : pairs'[d] \in Decision
      BY <1>1, <1>3, <1>6 DEF ReviewsTyped, With
    <2>3. QED
      BY <1>2, <1>3, <2>1, <2>2 DEF ReviewsTyped
  <1>9. Remembers(p)' /\ \A q \in Profile : q # p => review'[q] = review[q]
    <2>1. /\ review'[p].due = {} /\ review'[p].day = review[p].day
          /\ review'[p].accepted = review[p].accepted
          /\ \A q \in Profile : q # p => review'[q] = review[q]
      BY <1>2, <1>4 DEF Review
    <2>2. QED
      BY <1>2, <1>3, <2>1 DEF Remembers, Sale, Day
  <1>10. \A q \in Profile : Remembers(q)'
    <2>1. Lasting
      BY <1>2 DEF Lasting
    <2>2. QED
      BY <1>3, <1>9, <2>1, OthersRemember DEF SwapInv
  <1>11. SwapsAreFunded'
    <2> DEFINE Backed(b, s) ==
          /\ b \in DOMAIN intents /\ intents[b].side = "BUY" /\ evaluations[b].funded
          /\ s \in DOMAIN intents /\ intents[s].side = "SELL"
          /\ intents[s].scope = intents[b].scope
          /\ Day(intents[s].at) = Day(intents[b].at)
    <2>1. SwapsAreFunded' <=> \A b \in DOMAIN pairs' : Backed(b, pairs'[b])
      BY <1>2 DEF SwapsAreFunded, Day
    <2>2. \A b \in DOMAIN pairs : Backed(b, pairs[b])
      BY <1>3 DEF SwapsAreFunded
    <2>3. Backed(buy, sale)
      BY <1>5 DEF Sale, FundedBuy
    <2>4. \A b \in DOMAIN pairs' : \/ b = buy /\ pairs'[b] = sale
                                   \/ b \in DOMAIN pairs /\ pairs'[b] = pairs[b]
      BY <1>1 DEF With
    <2> HIDE DEF Backed, sale
    <2>5. QED
      BY <2>1, <2>2, <2>3, <2>4
  <1>12. QED
    BY <1>7, <1>8, <1>10, <1>11 DEF SwapInv

(* A review that begins or ends remembers nothing.                         *)
LEMMA FreshRemembered ==
  ASSUME SwapInv, NEW p \in Profile, StartReview(p) \/ EndReview(p)
  PROVE  SwapInv'
  <1>1. PICK r \in Review : /\ review' = [review EXCEPT ![p] = r]
                            /\ DOMAIN r.accepted = {} /\ r.due = {}
    <2>1. CASE EndReview(p)
      BY <2>1, IdleTyped DEF EndReview
    <2>2. CASE StartReview(p)
      <3>1. PICK swaps \in Swaps :
              review' = [review EXCEPT ![p] = [Idle EXCEPT !.phase = "sales", !.day = Day(clock),
                                                           !.swaps = swaps]]
        BY <2>2 DEF StartReview
      <3>2. Day(clock) \in 0..(Horizon \div DayLength)
        BY DayInHorizon DEF SwapInv, ReviewsTyped
      <3> DEFINE r == [Idle EXCEPT !.phase = "sales", !.day = Day(clock), !.swaps = swaps]
      <3>3. r \in Review
        BY <3>2, IdleTyped DEF Review
      <3>4. r.accepted = Idle.accepted /\ r.due = Idle.due
        BY DEF Idle
      <3>5. QED
        BY <3>1, <3>3, <3>4, IdleTyped
    <2>3. QED
      BY <2>1, <2>2
  <1>2. UNCHANGED <<statuses, records, evaluations, intents, pairs, clock>>
    BY DEF StartReview, EndReview
  <1>3. RowInv /\ ReviewsTyped /\ SwapsAreFunded /\ review \in [Profile -> Review]
    BY DEF SwapInv, ReviewsTyped
  <1>4. ReviewsTyped' /\ RowInv'
    <2>1. review' \in [Profile -> Review]
      BY <1>1, <1>3
    <2>2. QED
      BY <1>2, <1>3, <2>1, NothingKeepsRows DEF ReviewsTyped, Nothing
  <1>5. review'[p] = r /\ \A q \in Profile : q # p => review'[q] = review[q]
    BY <1>1, <1>3
  <1>6. Remembers(p)'
    BY <1>1, <1>5 DEF Remembers
  <1>7. Lasting
    BY <1>2 DEF Lasting
  <1>8. SwapsAreFunded'
    BY <1>2, <1>3, <1>7, PairsLast
  <1>9. QED
    BY <1>3, <1>4, <1>5, <1>6, <1>7, <1>8, OthersRemember DEF SwapInv

LEMMA SwapInvInit ==
  ASSUME Init
  PROVE  SwapInv
  <1>1. TablesTyped
    BY HistoriesTyped DEF Init, TablesTyped
  <1>2. RowInv
    <2>1. IsFiniteSet(DOMAIN intents)
      BY FS_EmptySet DEF Init
    <2>2. \A d \in Decision : RowsOf(d)
      BY Distinct DEF Init, RowsOf, Recorded
    <2>3. QED
      BY <1>1, <2>1, <2>2 DEF RowInv
  <1>3. ReviewsTyped
    <2>1. clock \in Time
      BY ConstantsAssumption DEF Init, Time
    <2>2. QED
      BY <2>1, IdleTyped DEF Init, ReviewsTyped
  <1>4. \A p \in Profile : Remembers(p)
    BY IdleTyped DEF Init, Remembers
  <1>5. SwapsAreFunded
    BY DEF Init, SwapsAreFunded
  <1>6. QED
    BY <1>2, <1>3, <1>4, <1>5 DEF SwapInv

LEMMA SwapInvStep ==
  ASSUME SwapInv, [Next]_vars
  PROVE  SwapInv'
  <1>1. RowInv /\ ReviewsTyped /\ SwapsAreFunded /\ \A p \in Profile : Remembers(p)
    BY DEF SwapInv
  <1>2. AnySubmission
    BY <1>1, Steps
  <1>3. RowInv' /\ Lasting
    BY <1>1, <1>2, RowsInductive, SubmissionsLast
  <1>4. ASSUME pairs' = pairs, review' = review, clock' \in Time
        PROVE  SwapInv'
    <2>1. ReviewsTyped'
      BY <1>1, <1>4 DEF ReviewsTyped
    <2>2. \A p \in Profile : Remembers(p)'
      BY <1>1, <1>3, <1>4, RememberedLasts
    <2>3. QED
      BY <1>1, <1>3, <1>4, <2>1, <2>2, PairsLast DEF SwapInv
  <1>5. ASSUME NEW d \in Decision, SubmitByHand(d) \/ SubmitMalformed(d)
        PROVE  SwapInv'
    BY <1>1, <1>4, <1>5 DEF SubmitByHand, SubmitMalformed, ReviewsTyped
  <1>6. ASSUME NEW p \in Profile, NEW d \in Decision, SubmitSale(p, d) \/ SubmitOther(p, d)
        PROVE  SwapInv'
    <2>1. /\ ReviewsTyped' /\ Remembers(p)'
          /\ \A q \in Profile : q # p => review'[q] = review[q]
      BY <1>3, <1>6, SaleRemembered, OtherRemembered
    <2>2. pairs' = pairs
      BY <1>6 DEF SubmitSale, SubmitOther
    <2>3. QED
      BY <1>1, <1>3, <2>1, <2>2, OthersRemember, PairsLast DEF SwapInv
  <1>7. ASSUME NEW p \in Profile, StartReview(p) \/ PairSwap(p) \/ EndReview(p)
        PROVE  SwapInv'
    BY <1>7, PairRemembered, FreshRemembered
  <1>8. CASE Pass
    <2>1. clock' \in Time
      BY <1>1, <1>8, ConstantsAssumption DEF Pass, ReviewsTyped, Time
    <2>2. QED
      BY <1>4, <1>8, <2>1 DEF Pass
  <1>9. CASE UNCHANGED vars
    BY <1>1, <1>4, <1>9 DEF vars, ReviewsTyped
  <1>10. QED
    BY <1>5, <1>6, <1>7, <1>8, <1>9 DEF Next

THEOREM SwapInvHolds == Spec => []SwapInv
  BY SwapInvInit, SwapInvStep, PTL DEF Spec
-----------------------------------------------------------------------------
(* What the tables say.                                                    *)

LEMMA RowsAgreeFrom ==
  ASSUME SwapInv
  PROVE  RowsAgree
  <1> SUFFICES ASSUME NEW d \in Decision
               PROVE  LET last == Latest(statuses[d]) IN
                 /\ d \in DOMAIN records <=> last \in {"approved", "rejected", "intent_created"}
                 /\ d \in DOMAIN intents <=> last = "intent_created"
                 /\ d \in DOMAIN records =>
                      (Reached(statuses[d], "approved") /\ records[d].kind # "HOLD"
                         <=> d \in DOMAIN intents)
                 /\ d \in DOMAIN intents =>
                      /\ intents[d].side = "BUY" <=> records[d].kind \in {"BUY", "ADD"}
                      /\ intents[d].scope = evaluations[d].scope
    BY DEF RowsAgree
  <1>1. RowsOf(d) /\ \A c \in DOMAIN records : records[c] \in Draft
    BY DEF SwapInv, RowInv, TablesTyped
  <1>2. statuses[d] \in {<< >>, Failed, Rejected, Approved, Ordered}
    BY <1>1 DEF RowsOf, Recorded
  <1>3. /\ ~Reached(Rejected, "approved")
        /\ Reached(Approved, "approved") /\ Reached(Ordered, "approved")
    BY DEF Reached, Rejected, Approved, Ordered
  <1>4. d \in DOMAIN records => records[d] \in Draft /\ records[d].kind \in Kind
    BY <1>1, ConstantsAssumption
  <1>5. d \in DOMAIN records => (Actionable(records[d]) <=> records[d].kind # "HOLD")
    BY <1>4 DEF Actionable, Increasing, Reducing, Kind
  <1>6. statuses[d] = Ordered =>
          (intents[d].side = "BUY" <=> records[d].kind \in {"BUY", "ADD"})
    BY <1>1, <1>4, SideTyped DEF RowsOf, Recorded, Increasing
  <1>7. CASE statuses[d] \in {<< >>, Failed}
    BY <1>1, <1>7, LatestOfHistory, Distinct DEF RowsOf, Recorded
  <1>8. CASE statuses[d] = Rejected
    BY <1>1, <1>3, <1>8, LatestOfHistory, Distinct DEF RowsOf, Recorded
  <1>9. CASE statuses[d] = Approved
    BY <1>1, <1>3, <1>5, <1>9, LatestOfHistory, Distinct DEF RowsOf, Recorded
  <1>10. CASE statuses[d] = Ordered
    BY <1>1, <1>3, <1>5, <1>6, <1>10, LatestOfHistory, Distinct DEF RowsOf, Recorded
  <1>11. QED
    BY <1>2, <1>7, <1>8, <1>9, <1>10

(* Rows and review states are well formed, for any decisions, drafts,      *)
(* profiles and limits.                                                    *)
THEOREM TypeCorrect == Spec => []TypeOK
  <1>1. SwapInv => TypeOK
    BY DEF SwapInv, RowInv, TablesTyped, ReviewsTyped, TypeOK
  <1>2. QED
    BY <1>1, SwapInvHolds, PTL

(* Statuses, records, evaluations and intents agree after every submission *)
(* of process_decision(), replays and malformed data included.             *)
THEOREM TablesAgree == Spec => []RowsAgree
  BY SwapInvHolds, RowsAgreeFrom, PTL

(* A buy that left the quota as half of a swap is paired to a sale of its  *)
(* profile and day, whatever the review did between the two.               *)
THEOREM PairsAreBacked == Spec => []SwapsAreFunded
  <1>1. SwapInv => SwapsAreFunded
    BY DEF SwapInv
  <1>2. QED
    BY <1>1, SwapInvHolds, PTL

LEMMA FirstWordIsLast ==
  ASSUME RowInv, AnySubmission, NEW d \in Decision, statuses[d] # << >>
  PROVE  statuses'[d] = statuses[d]
  <1>1. statuses \in [Decision -> Seq(Status)]
    BY DEF RowInv, TablesTyped
  <1>2. \/ statuses' = statuses
        \/ \E c \in Decision : \E h : statuses[c] = << >> /\ statuses' = [statuses EXCEPT ![c] = h]
    <2> DEFINE Writes(c) == \E h : statuses[c] = << >> /\ statuses' = [statuses EXCEPT ![c] = h]
    <2>1. ASSUME NEW c \in Decision, Fails(c)
          PROVE  Writes(c)
      BY <2>1 DEF Fails
    <2>2. ASSUME NEW c \in Decision, NEW draft \in Draft, NEW scope \in Scope, NEW now \in Sampled,
                 NEW funded \in BOOLEAN, Submits(c, draft, scope, now, funded), ~Nothing
          PROVE  Writes(c)
      <3>1. CASE Fails(c)
        BY <2>1, <3>1
      <3>2. CASE Records(c, draft, scope, funded)
        BY <3>2, Zenon DEF Records, Evaluates
      <3>3. CASE Orders(c, draft, scope, now, funded)
        BY <3>3, Zenon DEF Orders, Evaluates
      <3>4. QED
        BY <2>2, <3>1, <3>2, <3>3, Zenon DEF Submits
    <2>3. Nothing => statuses' = statuses
      BY DEF Nothing
    <2>4. \/ Nothing
          \/ \E c \in Decision : Fails(c)
          \/ \E c \in Decision, draft \in Draft, scope \in Scope, now \in Sampled, funded \in BOOLEAN :
               Submits(c, draft, scope, now, funded)
      BY DEF AnySubmission
    <2>5. CASE Nothing
      BY <2>3, <2>5
    <2> SUFFICES Nothing \/ \E c \in Decision : Writes(c)
      BY <2>5
    <2> HIDE DEF Writes
    <2>6. QED
      BY <2>1, <2>2, <2>4
  <1>3. QED
    BY <1>1, <1>2

(* A decision that has a history keeps it, and its intent.                 *)
THEOREM OutcomesFinal == Spec => OutcomeFinal
  <1>1. SwapInv /\ [Next]_vars => [KeepsOutcomes]_vars
    <2> SUFFICES ASSUME SwapInv, [Next]_vars
                 PROVE  KeepsOutcomes
      OBVIOUS
    <2>1. RowInv /\ AnySubmission
      BY Steps DEF SwapInv
    <2>2. Lasting
      BY <2>1, SubmissionsLast
    <2>3. QED
      BY <2>1, <2>2, FirstWordIsLast DEF KeepsOutcomes, Lasting
  <1>2. QED
    BY <1>1, SwapInvHolds, PTL DEF Spec, OutcomeFinal

-----------------------------------------------------------------------------
(* The quota and the circuit breakers of a day.                            *)

LEMMA MadeFinite ==
  ASSUME RowInv, NEW scope, NEW side, NEW day
  PROVE  IsFiniteSet(Made(scope, side, day))
  <1>1. Made(scope, side, day) \subseteq DOMAIN intents /\ IsFiniteSet(DOMAIN intents)
    BY DEF Made, RowInv
  <1>2. QED
    BY <1>1, FS_Subset

(* Nothing new is made without an order. *)
LEMMA MadeSame ==
  ASSUME intents' = intents, NEW scope, NEW side, NEW day
  PROVE  Made(scope, side, day)' = Made(scope, side, day)
  BY DEF Made, CountedOn, Day

(* An order counts on its own day, for its own scope and side. *)
LEMMA MadeGrows ==
  ASSUME RowInv, NEW d \in Decision, NEW draft \in Draft, NEW p \in Profile,
         NEW scope \in Scope, NEW now \in Sampled, NEW funded \in BOOLEAN,
         Orders(d, draft, scope, now, funded), NEW side, NEW day
  PROVE  /\ d \notin Made(p, side, day)
         /\ Made(p, side, day)' =
              IF scope = p /\ SideOf(draft) = side /\ Day(now) = day
              THEN Made(p, side, day) \cup {d} ELSE Made(p, side, day)
  <1>1. HasOrdered(d, draft, scope, now, funded)
    BY OrderedRows
  <1>2. p # Paper
    BY ConstantsAssumption
  <1>3. /\ d \notin DOMAIN intents /\ DOMAIN intents' = DOMAIN intents \cup {d}
        /\ intents'[d].side = SideOf(draft) /\ intents'[d].scope = scope
        /\ intents'[d].at = now
        /\ \A c \in DOMAIN intents : intents'[c] = intents[c]
    BY <1>1 DEF HasOrdered, Evaluated
  <1>4. /\ Made(p, side, day) =
             {c \in DOMAIN intents : /\ intents[c].scope = p /\ intents[c].side = side
                                     /\ Day(intents[c].at) = day}
        /\ Made(p, side, day)' =
             {c \in DOMAIN intents' : /\ intents'[c].scope = p /\ intents'[c].side = side
                                      /\ Day(intents'[c].at) = day}
    BY <1>2 DEF Made, CountedOn, Day
  <1>5. QED
    BY <1>3, <1>4

LEMMA OneMore ==
  ASSUME NEW S, NEW x, IsFiniteSet(S), NEW n \in Nat, Cardinality(S) < n
  PROVE  Cardinality(S \cup {x}) <= n
  <1>1. Cardinality(S) \in Nat /\ Cardinality(S \cup {x}) \in Nat
        /\ Cardinality(S \cup {x}) <= Cardinality(S) + 1
    BY FS_CardinalityType, FS_AddElement
  <1>2. QED
    BY <1>1

(* The circuit breakers of one day. *)
Brakes(p, day) ==
  /\ Cardinality(Made(p, "BUY", day)) <= MaxBuysBrake
  /\ Cardinality(Made(p, "SELL", day)) <= MaxSells

Ordinary(p, day) ==
  {d \in Made(p, "BUY", day) : ~records[d].exceptional /\ ~evaluations[d].funded}

LEMMA BrakesHold ==
  ASSUME SwapInv, NEW d \in Decision, NEW draft \in Draft, NEW p \in Profile,
         NEW scope \in Scope, NEW now \in Sampled, NEW funded \in BOOLEAN,
         Orders(d, draft, scope, now, funded), NEW day, Brakes(p, day)
  PROVE  Brakes(p, day)'
  <1>1. RowInv /\ Approves(draft, scope, Day(now), funded) /\ Actionable(draft)
        /\ MaxBuysBrake \in Nat /\ MaxSells \in Nat
    BY ConstantsAssumption DEF SwapInv, Orders
  <1>2. Cardinality(Made(p, "BUY", day)') <= MaxBuysBrake
    <2>1. CASE scope = p /\ SideOf(draft) = "BUY" /\ Day(now) = day
      <3>1. ~(Cardinality(Made(p, "BUY", day)) >= MaxBuysBrake)
        BY <1>1, <2>1, SideTyped DEF Approves, Braked
      <3>2. IsFiniteSet(Made(p, "BUY", day)) /\ Cardinality(Made(p, "BUY", day)) \in Nat
        BY <1>1, MadeFinite, FS_CardinalityType
      <3>3. Made(p, "BUY", day)' = Made(p, "BUY", day) \cup {d}
        BY <1>1, <2>1, MadeGrows
      <3>4. Cardinality(Made(p, "BUY", day)) < MaxBuysBrake
        BY <1>1, <3>1, <3>2
      <3>5. QED
        BY <1>1, <3>2, <3>3, <3>4, OneMore
    <2>2. CASE ~(scope = p /\ SideOf(draft) = "BUY" /\ Day(now) = day)
      <3>1. Made(p, "BUY", day)' = Made(p, "BUY", day)
        BY <1>1, <2>2, MadeGrows
      <3>2. QED
        BY <3>1 DEF Brakes
    <2>3. QED
      BY <2>1, <2>2
  <1>3. Cardinality(Made(p, "SELL", day)') <= MaxSells
    <2>1. CASE scope = p /\ SideOf(draft) = "SELL" /\ Day(now) = day
      <3>1. Cardinality(Made(p, "SELL", day)) < MaxSells
        BY <1>1, <2>1, SideTyped DEF Approves
      <3>2. IsFiniteSet(Made(p, "SELL", day))
        BY <1>1, MadeFinite
      <3>3. Made(p, "SELL", day)' = Made(p, "SELL", day) \cup {d}
        BY <1>1, <2>1, MadeGrows
      <3>4. QED
        BY <1>1, <3>1, <3>2, <3>3, OneMore
    <2>2. CASE ~(scope = p /\ SideOf(draft) = "SELL" /\ Day(now) = day)
      <3>1. Made(p, "SELL", day)' = Made(p, "SELL", day)
        BY <1>1, <2>2, MadeGrows
      <3>2. QED
        BY <3>1 DEF Brakes
    <2>3. QED
      BY <2>1, <2>2
  <1>4. QED
    BY <1>2, <1>3 DEF Brakes

LEMMA OrdinaryStay ==
  ASSUME SwapInv, NEW d \in Decision, NEW draft \in Draft, NEW p \in Profile,
         NEW scope \in Scope, NEW now \in Sampled, NEW funded \in BOOLEAN,
         Orders(d, draft, scope, now, funded), NEW day,
         Cardinality(Ordinary(p, day)) <= MaxBuys
  PROVE  Cardinality(Ordinary(p, day)') <= MaxBuys
  <1>1. RowInv /\ Approves(draft, scope, Day(now), funded) /\ Actionable(draft)
        /\ MaxBuys \in Nat
    BY ConstantsAssumption DEF SwapInv, Orders
  <1>2. HasOrdered(d, draft, scope, now, funded)
    BY <1>1, OrderedRows
  <1>3. /\ records'[d] = draft /\ evaluations'[d].funded = funded
        /\ \A c \in DOMAIN intents : /\ records'[c] = records[c]
                                     /\ evaluations'[c] = evaluations[c]
    BY <1>1, <1>2 DEF HasOrdered, Evaluated, RowInv, TablesTyped
  <1>4. \A c \in Made(p, "BUY", day) : c \in DOMAIN intents
    BY DEF Made
  <1>5. CASE /\ scope = p /\ SideOf(draft) = "BUY" /\ Day(now) = day
             /\ ~draft.exceptional /\ ~funded
    <2>1. ~(Cardinality(Made(p, "BUY", day) \ DOMAIN pairs) >= MaxBuys)
      BY <1>1, <1>5, SideTyped DEF Approves, QuotaUsed
    <2>2. IsFiniteSet(Made(p, "BUY", day) \ DOMAIN pairs)
      BY <1>1, MadeFinite, FS_Difference
    <2>3. Ordinary(p, day) \subseteq Made(p, "BUY", day) \ DOMAIN pairs
      BY DEF Ordinary, SwapInv, SwapsAreFunded
    <2>4. /\ IsFiniteSet(Ordinary(p, day)) /\ Cardinality(Ordinary(p, day)) \in Nat
          /\ Cardinality(Made(p, "BUY", day) \ DOMAIN pairs) \in Nat
          /\ Cardinality(Ordinary(p, day))
               <= Cardinality(Made(p, "BUY", day) \ DOMAIN pairs)
      BY <2>2, <2>3, FS_Subset, FS_CardinalityType
    <2>5. Cardinality(Ordinary(p, day)) < MaxBuys
      BY <1>1, <2>1, <2>4
    <2>6. Made(p, "BUY", day)' = Made(p, "BUY", day) \cup {d}
      BY <1>1, <1>5, MadeGrows
    <2>7. Ordinary(p, day)' = Ordinary(p, day) \cup {d}
      BY <1>3, <1>4, <1>5, <2>6 DEF Ordinary
    <2>8. QED
      BY <1>1, <2>4, <2>5, <2>7, OneMore
  <1>6. CASE ~(/\ scope = p /\ SideOf(draft) = "BUY" /\ Day(now) = day
               /\ ~draft.exceptional /\ ~funded)
    <2>1. Made(p, "BUY", day)' \in {Made(p, "BUY", day), Made(p, "BUY", day) \cup {d}}
      BY <1>1, MadeGrows
    <2>2. d \in Made(p, "BUY", day)' => draft.exceptional \/ funded
      BY <1>1, <1>6, MadeGrows
    <2>3. Ordinary(p, day)' = Ordinary(p, day)
      <3>1. d \notin Made(p, "BUY", day)
        BY <1>1, MadeGrows
      <3>2. QED
        BY <1>3, <1>4, <2>1, <2>2, <3>1 DEF Ordinary
    <2>4. QED
      BY <2>3
  <1>7. QED
    BY <1>5, <1>6

LEMMA QuotaStep ==
  ASSUME SwapInv, [Next]_vars, QuotaHolds
  PROVE  QuotaHolds'
  <1>1. QuotaHolds <=> \A p \in Profile : \A day \in 0..Day(Horizon) :
                         Brakes(p, day) /\ Cardinality(Ordinary(p, day)) <= MaxBuys
    BY DEF QuotaHolds, OrdinaryBuysCapped, DailyBrakes, Brakes, Ordinary
  <1>2. QuotaHolds' <=> \A p \in Profile : \A day \in 0..Day(Horizon) :
                          Brakes(p, day)' /\ Cardinality(Ordinary(p, day)') <= MaxBuys
    BY DEF QuotaHolds, OrdinaryBuysCapped, DailyBrakes, Brakes, Ordinary, Day
  <1>3. RowInv /\ AnySubmission
    BY Steps DEF SwapInv
  <1>4. Lasting
    BY <1>3, SubmissionsLast
  <1> SUFFICES ASSUME NEW p \in Profile, NEW day \in 0..Day(Horizon)
               PROVE  Brakes(p, day)' /\ Cardinality(Ordinary(p, day)') <= MaxBuys
    BY <1>2
  <1>5. Brakes(p, day) /\ Cardinality(Ordinary(p, day)) <= MaxBuys
    BY <1>1
  <1>6. CASE intents' = intents
    <2>1. /\ Made(p, "BUY", day)' = Made(p, "BUY", day)
          /\ Made(p, "SELL", day)' = Made(p, "SELL", day)
      BY <1>6, MadeSame
    <2>2. \A c \in Made(p, "BUY", day) : /\ records'[c] = records[c]
                                         /\ evaluations'[c] = evaluations[c]
      BY <1>3, <1>4 DEF Made, Lasting, RowInv, TablesTyped
    <2>3. Ordinary(p, day)' = Ordinary(p, day)
      BY <2>1, <2>2 DEF Ordinary
    <2>4. QED
      BY <1>5, <2>1, <2>3 DEF Brakes
  <1>7. ASSUME NEW d \in Decision, NEW draft \in Draft, NEW scope \in Scope,
               NEW now \in Sampled, NEW funded \in BOOLEAN,
               Orders(d, draft, scope, now, funded)
        PROVE  Brakes(p, day)' /\ Cardinality(Ordinary(p, day)') <= MaxBuys
    BY <1>5, <1>7, BrakesHold, OrdinaryStay
  <1>8. QED
    BY <1>3, <1>6, <1>7 DEF AnySubmission, Submits, Nothing, Fails, Records

(* Over all reviews and submissions by hand of a day, the ordinary buys of *)
(* a profile stay within their quota and all buys and sales within the     *)
(* circuit breakers of evaluate_decision_policy().                         *)
THEOREM QuotaKept == Spec => []QuotaHolds
  <1>1. Init => QuotaHolds
    <2> SUFFICES ASSUME Init
                 PROVE  QuotaHolds
      OBVIOUS
    <2>1. \A p, side, day : Made(p, side, day) = {}
      BY DEF Init, Made
    <2>2. Cardinality({}) = 0
      BY FS_EmptySet
    <2>3. \A p, day :
            {d \in Made(p, "BUY", day) : ~records[d].exceptional /\ ~evaluations[d].funded} = {}
      BY <2>1
    <2>4. 0 <= MaxBuys /\ 0 <= MaxBuysBrake /\ 0 <= MaxSells
      BY ConstantsAssumption
    <2>5. QED
      BY <2>1, <2>2, <2>3, <2>4 DEF QuotaHolds, OrdinaryBuysCapped, DailyBrakes
  <1>2. SwapInv /\ [Next]_vars /\ QuotaHolds => QuotaHolds'
    BY QuotaStep
  <1>3. QED
    BY <1>1, <1>2, SwapInvHolds, PTL DEF Spec
=============================================================================
