---------------------------- MODULE Reviews_proofs ----------------------------
(***************************************************************************)
(* Proofs about reviews: when a holding is due one, for any cooldown of at *)
(* least two days, any prices and ranges and any stretch of days           *)
(* (HoldingReviews), and one attempt of the worker that answers it, for    *)
(* leases and time limits of any length that its assumptions allow         *)
(* (ReviewWorker).                                                         *)
(*                                                                         *)
(* Of a holding: its state is well formed, every run names what the price  *)
(* was beyond when it was prepared, and what happened is in order.  From   *)
(* the order follow two invariants of what a run names: a trigger in a     *)
(* cooldown only with a new move, and the schedule unless a review or a    *)
(* cooldown covers it.  The last one bounds the age of the last review by  *)
(* the noon of the last day whose midday review was clean.                 *)
(*                                                                         *)
(* Of an attempt there are three invariants, each by one case per action:  *)
(* the worker's variables are well formed; what it does is in time, for    *)
(* its lease and for its limit; and what it has saved, with what it still  *)
(* has to save, is what it accepted.                                       *)
(***************************************************************************)
EXTENDS HoldingReviews, ReviewWorker, FiniteSetTheorems, TLAPS

(* Which cases a step of a holding has. *)
LEMMA HoldingCases ==
  ASSUME [Next]_vars
  PROVE  \/ Pass \/ Prepare \/ CheckEvents
         \/ \E k \in Kind : ClaimRun(k)
         \/ \E k \in Kind : FailRun(k)
         \/ \E k \in Kind, a \in scene.answers : FinishRun(k, a)
         \/ \E s \in sales : AdvanceSale(s)
         \/ UNCHANGED vars
  BY DEF Next

(* What a scene gives. *)
LEMMA SceneTyped ==
  ASSUME scene \in Scene
  PROVE  /\ scene.first \in Nat /\ scene.last \in Nat
         /\ scene.range \in RangeName \cup {NoRange}
         /\ \A t \in DOMAIN scene.quotes : scene.quotes[t] \subseteq Price
         /\ scene.answers \subseteq Answers
  BY HoldingsAssumption

LEMMA PriceTyped == Price \subseteq Nat /\ 100 \in Price
  BY HoldingsAssumption

(* Day and part of an instant. *)
LEMMA InstantOfDay ==
  ASSUME NEW t \in Int
  PROVE  /\ Day(t) \in Int /\ Part(t) \in 0..5
         /\ t = Instant(Day(t), Part(t))
  BY DEF Day, Part, Instant, PerDay

LEMMA DayOf ==
  ASSUME NEW t \in Int, NEW d \in Int, 6 * d <= t, t <= 6 * d + 5
  PROVE  Day(t) = d
  BY DEF Day, PerDay

-----------------------------------------------------------------------------
(* Type correctness.                                                       *)

Finite == IsFiniteSet(sales) /\ IsFiniteSet(causes)

(* The reasons of a run are among those there are. *)
LEMMA ReasonsTyped ==
  ASSUME TypeOK, NEW t \in Int
  PROVE  Reasons(t) \subseteq Reason
  <1>1. Moves(t) \subseteq {"price_move", "volume_spike"}
    <2>1. \A g \in fired : g[1] \in {"price_move", "volume_spike"}
      BY DEF TypeOK
    <2>2. QED
      BY <2>1 DEF Moves
  <1>2. Scheduled(t) \subseteq {"scheduled_review"}
    BY DEF Scheduled
  <1>3. Reported(t) \subseteq {"earnings_reported"}
    BY DEF Reported
  <1>4. Losses \subseteq {"down_15_percent_from_cost", "down_40_percent_from_cost"}
    BY DEF Losses
  <1>5. Ranged \subseteq {"range_missing", "realization_reached", "above_realization_range",
                          "below_invalidation_price"}
    BY DEF Ranged, Beyond
  <1>6. Invalidated \subseteq {"invalidated_without_exit"}
    BY DEF Invalidated
  <1>7. AllReasons(t) \subseteq Reason
    BY <1>1, <1>2, <1>3, <1>4, <1>5, <1>6
       DEF AllReasons, Reason, TriggerReasons, MandatoryReasons
  <1>8. QED
    BY <1>7 DEF Reasons, Reason, TriggerReasons

LEMMA NewRunTyped == TypeOK => NewRun \in Run
  <1> SUFFICES ASSUME TypeOK PROVE NewRun \in Run
    OBVIOUS
  <1>1. clock \in Time /\ price \in Price /\ review.range \in RangeName \cup {NoRange}
    BY DEF TypeOK
  <1>2. Reasons(clock) \in SUBSET Reason
    BY <1>1, ReasonsTyped DEF Time
  <1>3. Listed(clock) \in BOOLEAN
    BY DEF Listed
  <1>4. Since \in Time
    BY HoldingsAssumption DEF TypeOK, Since, Opened, Start, Instant, PerDay, Time
  <1>5. Never \in Time
    BY DEF Never, Time
  <1>6. QED
    BY <1>1, <1>2, <1>3, <1>4, <1>5 DEF NewRun, Run

LEMMA HoldingInit == Init => TypeOK /\ Finite
  <1> SUFFICES ASSUME Init PROVE TypeOK /\ Finite
    OBVIOUS
  <1>1. scene \in Scene /\ scene.first \in Nat /\ scene.range \in RangeName \cup {NoRange}
    BY SceneTyped DEF Init
  <1>2. Start \in Time /\ Never \in Time
    BY <1>1 DEF Start, Instant, PerDay, Time, Never
  <1>3. clock \in Time /\ price \in Price /\ close \in Price /\ news \in Time
    BY <1>1, <1>2, PriceTyped DEF Init
  <1>4. crossed \in [Limit -> Time] /\ moved \in [{"up", "down"} -> Time]
    BY <1>2 DEF Init
  <1>5. review \in [at : Time, verdict : Verdict, range : RangeName \cup {NoRange},
                    price : Price, triggered : Time]
    BY <1>1, <1>2, PriceTyped DEF Init, Verdict
  <1>6. run \in [Kind -> Run \cup {Nil}] /\ busy \in Kind \cup {Nil} /\ busy = Nil
    BY DEF Init
  <1>7. IsFiniteSet(sales) /\ IsFiniteSet(causes) /\ Cardinality(sales) = 0 /\ Cardinality(causes) = 0
    BY FS_EmptySet DEF Init
  <1>8. 0 <= MaxSales /\ 0 <= MaxEvents
    BY HoldingsAssumption
  <1>9. fired = {} /\ sales = {} /\ {held, asked, midday, healthy} \subseteq BOOLEAN
    BY DEF Init
  <1>10. QED
    BY <1>1, <1>3, <1>4, <1>5, <1>6, <1>7, <1>8, <1>9 DEF TypeOK, Finite

(* Adding a sale or a cause below the bound, and replacing a sale. *)
LEMMA FiniteAdd ==
  ASSUME NEW S, IsFiniteSet(S), NEW x, NEW n \in Nat, Cardinality(S) < n
  PROVE  IsFiniteSet(S \cup {x}) /\ Cardinality(S \cup {x}) <= n
  <1>1. IsFiniteSet(S \cup {x}) /\ Cardinality(S) \in Nat
    BY FS_AddElement, FS_CardinalityType
  <1>2. Cardinality(S \cup {x}) = Cardinality(S) \/ Cardinality(S \cup {x}) = Cardinality(S) + 1
    BY FS_AddElement
  <1>3. QED
    BY <1>1, <1>2

LEMMA FiniteReplace ==
  ASSUME NEW S, IsFiniteSet(S), NEW s \in S, NEW x, NEW n \in Nat, Cardinality(S) <= n
  PROVE  /\ IsFiniteSet(S \ {s}) /\ Cardinality(S \ {s}) <= n
         /\ IsFiniteSet((S \ {s}) \cup {x}) /\ Cardinality((S \ {s}) \cup {x}) <= n
  <1>1. /\ IsFiniteSet(S \ {s}) /\ Cardinality(S \ {s}) = Cardinality(S) - 1
        /\ Cardinality(S) \in Nat /\ Cardinality(S \ {s}) \in Nat
    BY FS_RemoveElement, FS_CardinalityType
  <1>2. QED
    BY <1>1, FiniteAdd

LEMMA HoldingStep == TypeOK /\ Finite /\ [Next]_vars => (TypeOK /\ Finite)'
  <1> SUFFICES ASSUME TypeOK, Finite, [Next]_vars PROVE (TypeOK /\ Finite)'
    OBVIOUS
  <1>0. {CooldownDays, MaxEvents, MaxSales} \subseteq Nat
    BY HoldingsAssumption
  <1>1. CASE Pass
    <2>1. PICK p \in IF clock + 1 \in DOMAIN scene.quotes THEN scene.quotes[clock + 1] ELSE {price},
               spike \in {FALSE, Day(clock + 1) \in scene.spikes} : Observe(p) /\ Evaluate(p, spike)
      BY <1>1 DEF Pass
    <2>2. p \in Price /\ scene' = scene /\ clock' \in Time
      BY <1>1, SceneTyped DEF Pass, TypeOK, Time
    <2>3. price' \in Price /\ close' \in Price
      BY <2>1, <2>2 DEF Observe, TypeOK
    <2>4. crossed' \in [Limit -> Time]
      BY <2>1, <2>2 DEF Observe, TypeOK, StretchStart, Never, Time
    <2>5. moved' \in [{"up", "down"} -> Time]
      <3> DEFINE from(w) == IF Part(clock') = 0 THEN Never ELSE moved[w]
                 base == IF Part(clock') = 0 THEN price ELSE close
                 past(w) == Part(clock') # 0 /\ (IF w = "up" THEN Up(p, base) ELSE Down(p, base))
      <3>1. moved' = [w \in {"up", "down"} |-> StretchStart(from(w), past(w))]
        BY <2>1 DEF Observe
      <3>2. \A w \in {"up", "down"} : from(w) \in Time
        BY DEF TypeOK, Never, Time
      <3> HIDE DEF from, past
      <3>3. \A w \in {"up", "down"} : StretchStart(from(w), past(w)) \in Time
        BY <3>2, <2>2 DEF StretchStart, Never, Time
      <3>4. QED
        BY <3>1, <3>3
    <2>6. fired' \subseteq {"price_move", "volume_spike"} \X Int
      <3>1. Day(clock') \in Int
        BY <2>2, InstantOfDay DEF Time
      <3>2. QED
        BY <2>1, <3>1 DEF Evaluate, TypeOK
    <2>7. news' \in Time
      BY <1>1, <2>2 DEF Pass, TypeOK, Time
    <2>8. run' \in [Kind -> Run \cup {Nil}] /\ (busy' # Nil => run'[busy'] # Nil)
      BY <1>1 DEF Pass, TypeOK, work
    <2>9. IsFiniteSet(causes') /\ Cardinality(causes') <= MaxEvents
      BY <1>0, <1>1, FS_EmptySet DEF Pass, TypeOK, Finite
    <2>10. {held, asked, midday, healthy}' \subseteq BOOLEAN
      BY <1>1 DEF Pass, TypeOK, account
    <2>11. UNCHANGED <<sales, review, busy>>
      BY <1>1 DEF Pass, account
    <2>12. QED
      BY <2>2, <2>3, <2>4, <2>5, <2>6, <2>7, <2>8, <2>9, <2>10, <2>11 DEF TypeOK, Finite
  <1>2. CASE Prepare
    BY <1>2, NewRunTyped, NilAssumption DEF Prepare, TypeOK, Finite, market, account, history, Kind
  <1>3. CASE CheckEvents
    <2>1. PICK crisis \in BOOLEAN :
            LET new == Causes(crisis) \ causes IN new # {} /\ causes' = causes \cup {First(new)}
      BY <1>3 DEF CheckEvents
    <2>2. IsFiniteSet(causes') /\ Cardinality(causes') <= MaxEvents
      BY <1>0, <1>3, <2>1, FiniteAdd DEF CheckEvents, EventsLeft, Finite
    <2>3. QED
      BY <1>3, <2>2, NewRunTyped, NilAssumption
         DEF CheckEvents, TypeOK, Finite, market, account, history, Kind
  <1>4. ASSUME NEW k \in Kind, ClaimRun(k) PROVE (TypeOK /\ Finite)'
    <2>1. [run[k] EXCEPT !.claimed = clock] \in Run
      BY <1>4 DEF ClaimRun, TypeOK, Run
    <2>2. QED
      BY <1>4, <2>1, NilAssumption DEF ClaimRun, TypeOK, Finite, market, account, history
  <1>5. ASSUME NEW k \in Kind, FailRun(k) PROVE (TypeOK /\ Finite)'
    BY <1>5 DEF FailRun, TypeOK, Finite, market, account, history
  <1>6. ASSUME NEW k \in Kind, NEW a \in scene.answers, FinishRun(k, a) PROVE (TypeOK /\ Finite)'
    <2>1. a.verdict \in Verdict /\ a.range \in RangeName
      BY SceneTyped DEF TypeOK, Answers
    <2>2. review' = Saved(run[k], a)
      BY <1>6 DEF FinishRun
    <2>3. review' \in [at : Time, verdict : Verdict, range : RangeName \cup {NoRange},
                       price : Price, triggered : Time]
      BY <2>1, <2>2 DEF Saved, TypeOK
    <2>4. PICK accepted \in BOOLEAN :
            /\ accepted => a.exit /\ Cardinality(sales) < MaxSales
            /\ sales' = IF accepted THEN sales \cup {[at |-> clock, stage |-> "pending"]} ELSE sales
      BY <1>6 DEF FinishRun
    <2>5. IsFiniteSet(sales') /\ Cardinality(sales') <= MaxSales
      BY <1>0, <2>4, FiniteAdd DEF TypeOK, Finite
    <2>6. sales' \subseteq [at : Time, stage : Stage]
      BY <2>4 DEF TypeOK, Stage
    <2>7. news' \in Time
      BY <1>6 DEF FinishRun, TypeOK, Never, Time
    <2>8. run' \in [Kind -> Run \cup {Nil}] /\ busy' = Nil
      BY <1>6 DEF FinishRun, TypeOK
    <2>9. {held, asked, midday, healthy}' \subseteq BOOLEAN
      BY <1>6 DEF FinishRun, TypeOK
    <2>10. UNCHANGED <<scene, clock, price, close, crossed, moved, fired, causes>>
      BY <1>6 DEF FinishRun
    <2>11. QED
      BY <2>3, <2>5, <2>6, <2>7, <2>8, <2>9, <2>10 DEF TypeOK, Finite
  <1>7. ASSUME NEW s \in sales, AdvanceSale(s) PROVE (TypeOK /\ Finite)'
    <2>1. s \in [at : Time, stage : Stage]
      BY DEF TypeOK
    <2>2. /\ [s EXCEPT !.stage = "placed"] \in [at : Time, stage : Stage]
          /\ [s EXCEPT !.stage = "filled"] \in [at : Time, stage : Stage]
      BY <2>1 DEF Stage
    <2>3. \/ \E x \in [at : Time, stage : Stage] : sales' = (sales \ {s}) \cup {x}
          \/ sales' = sales \ {s}
      BY <1>7, <2>2 DEF AdvanceSale
    <2>4. IsFiniteSet(sales') /\ Cardinality(sales') <= MaxSales
      <3>1. IsFiniteSet(sales) /\ Cardinality(sales) <= MaxSales /\ MaxSales \in Nat
        BY <1>0 DEF TypeOK, Finite
      <3>2. \A x : /\ IsFiniteSet(sales \ {s}) /\ Cardinality(sales \ {s}) <= MaxSales
                   /\ IsFiniteSet((sales \ {s}) \cup {x})
                   /\ Cardinality((sales \ {s}) \cup {x}) <= MaxSales
        BY <3>1, FiniteReplace
      <3>3. QED
        BY <2>3, <3>2
    <2>5. sales' \subseteq [at : Time, stage : Stage] /\ held' \in BOOLEAN
      BY <1>7, <2>3 DEF AdvanceSale, TypeOK
    <2>6. QED
      BY <1>7, <2>4, <2>5 DEF AdvanceSale, TypeOK, Finite, market, work, history
  <1>8. CASE UNCHANGED vars
    BY <1>8 DEF vars, TypeOK, Finite, market, account, work, history
  <1>9. QED
    BY <1>1, <1>2, <1>3, <1>4, <1>5, <1>6, <1>7, <1>8, HoldingCases

(* The holding's state is always well formed, however many sales and event *)
(* reviews there may be, and no day has more event reviews than it may.    *)
THEOREM HoldingTypeCorrect == Spec => []TypeOK
  <1>1. Spec => [](TypeOK /\ Finite)
    BY HoldingInit, HoldingStep, PTL DEF Spec
  <1>2. QED
    BY <1>1, PTL

-----------------------------------------------------------------------------
(* What a run was prepared with.                                           *)

(* A step leaves a run as it was prepared, ends it, or prepares it now.    *)
LEMMA RunStep ==
  ASSUME TypeOK, [Next]_vars, NEW k \in Kind, run'[k] # Nil
  PROVE  \/ /\ run[k] # Nil /\ run'[k].claimed \in Time
            /\ run'[k] = [run[k] EXCEPT !.claimed = run'[k].claimed]
         \/ run'[k] = NewRun /\ Day(clock) % 7 < 5 /\ UNCHANGED <<scene, clock, review, midday>>
  <1>0. run[k] # Nil => run[k] = [run[k] EXCEPT !.claimed = run[k].claimed] /\ run[k].claimed \in Time
    BY DEF TypeOK, Run
  <1>1. CASE Pass
    BY <1>0, <1>1 DEF Pass
  <1>2. CASE Prepare
    BY <1>0, <1>2 DEF Prepare, TypeOK, account, history
  <1>3. CASE CheckEvents
    BY <1>0, <1>3 DEF CheckEvents, TypeOK, account, history
  <1>4. ASSUME NEW c \in Kind, ClaimRun(c)
        PROVE  run[k] # Nil /\ run'[k].claimed \in Time
               /\ run'[k] = [run[k] EXCEPT !.claimed = run'[k].claimed]
    <2>1. CASE c = k
      <3>1. run'[k] = [run[k] EXCEPT !.claimed = clock] /\ run[k] \in Run
        BY <1>4, <2>1 DEF ClaimRun, TypeOK
      <3>2. run'[k].claimed = clock /\ clock \in Time
        BY <3>1 DEF Run, TypeOK
      <3>3. QED
        BY <1>4, <2>1, <3>1, <3>2 DEF ClaimRun
    <2>2. CASE c # k
      BY <1>0, <1>4, <2>2 DEF ClaimRun, TypeOK
    <2>3. QED
      BY <2>1, <2>2
  <1>5. ASSUME NEW c \in Kind, FailRun(c) PROVE run'[k] = run[k]
    BY <1>5 DEF FailRun, TypeOK
  <1>6. ASSUME NEW c \in Kind, NEW a \in scene.answers, FinishRun(c, a) PROVE run'[k] = run[k]
    BY <1>6 DEF FinishRun, TypeOK
  <1>7. ASSUME NEW s \in sales, AdvanceSale(s) PROVE run'[k] = run[k]
    BY <1>7 DEF AdvanceSale, work
  <1>8. CASE UNCHANGED vars
    BY <1>0, <1>8 DEF vars, work
  <1>9. QED
    BY <1>0, <1>1, <1>2, <1>3, <1>4, <1>5, <1>6, <1>7, <1>8, HoldingCases

(* So nothing but the claim of a run changes. *)
LEMMA SameRun ==
  ASSUME NEW r \in Run, NEW c, NEW q, q = [r EXCEPT !.claimed = c]
  PROVE  /\ q.at = r.at /\ q.price = r.price /\ q.named = r.named /\ q.headline = r.headline
         /\ q.since = r.since /\ q.range = r.range
  BY DEF Run

(* A run names the range it was prepared with as missing, or the limits of *)
(* it that its price was beyond.                                           *)
NamesTheRange ==
  \A k \in Kind : run[k] # Nil =>
    IF run[k].range = NoRange THEN "range_missing" \in run[k].named
    ELSE Beyond(run[k].price, run[k].range) \subseteq run[k].named

(* No cooldown takes that away. *)
LEMMA RangeIsNamed ==
  ASSUME NEW t
  PROVE  IF review.range = NoRange THEN "range_missing" \in Reasons(t)
         ELSE Beyond(price, review.range) \subseteq Reasons(t)
  <1>1. Ranged \subseteq AllReasons(t)
    BY DEF AllReasons
  <1>2. Ranged \cap MandatoryReasons \subseteq Reasons(t)
    BY <1>1 DEF Reasons, KeptInCooldown
  <1>3. CASE review.range = NoRange
    BY <1>2, <1>3 DEF Ranged, MandatoryReasons
  <1>4. CASE review.range # NoRange
    <2>1. Beyond(price, review.range) \subseteq Ranged
      BY <1>4 DEF Ranged
    <2>2. Beyond(price, review.range) \subseteq MandatoryReasons
      BY DEF Beyond, MandatoryReasons
    <2>3. QED
      BY <1>2, <1>4, <2>1, <2>2
  <1>5. QED
    BY <1>3, <1>4

LEMMA NamesInit == Init => NamesTheRange
  BY DEF Init, NamesTheRange

LEMMA NamesStep == TypeOK /\ NamesTheRange /\ [Next]_vars => NamesTheRange'
  <1> SUFFICES ASSUME TypeOK, NamesTheRange, [Next]_vars, NEW k \in Kind, run'[k] # Nil
               PROVE  IF run'[k].range = NoRange THEN "range_missing" \in run'[k].named
                      ELSE Beyond(run'[k].price, run'[k].range) \subseteq run'[k].named
    BY DEF NamesTheRange, Beyond
  <1>1. CASE run[k] # Nil /\ run'[k] = [run[k] EXCEPT !.claimed = run'[k].claimed]
    <2>1. run[k] \in Run
      BY <1>1 DEF TypeOK
    <2>2. /\ run'[k].range = run[k].range /\ run'[k].named = run[k].named
          /\ run'[k].price = run[k].price
      BY <1>1, <2>1, SameRun
    <2>3. QED
      BY <1>1, <2>2 DEF NamesTheRange
  <1>2. CASE run'[k] = NewRun
    BY <1>2, RangeIsNamed DEF NewRun
  <1>3. QED
    BY <1>1, <1>2, RunStep

LEMMA NamesSettle == TypeOK /\ NamesTheRange => Settled
  <1> SUFFICES ASSUME TypeOK, NamesTheRange, NEW k \in Kind, busy = k, Open(run[k]), NEW a \in Answers,
                      ~a.exit, ~Gap(run[k], a),
                      ~SoldSince(run[k].since, SessionOpen(run[k].at))
               PROVE  LET stated == IF a.verdict = "none" THEN run[k].range ELSE a.range
                      IN stated # NoRange /\ Beyond(run[k].price, stated) = {}
    BY DEF Settled
  <1>1. run[k] # Nil /\ run[k] \in Run
    BY NilAssumption DEF TypeOK
  <1>2. Standing(run[k].named, run[k].since, run[k].at) = run[k].named
    BY DEF Standing
  <1>3. ~Unreviewed(run[k], a)
    BY DEF Gap
  <1>4. CASE a.verdict = "none"
    <2>1. run[k].named \ {"invalidated_without_exit"} = {}
      BY <1>2, <1>3, <1>4 DEF Unreviewed
    <2>2. run[k].range # NoRange
      BY <1>1, <2>1 DEF NamesTheRange
    <2>3. Beyond(run[k].price, run[k].range) \subseteq run[k].named
      BY <1>1, <2>2 DEF NamesTheRange
    <2>4. "invalidated_without_exit" \notin Beyond(run[k].price, run[k].range)
      BY DEF Beyond
    <2>5. QED
      BY <1>4, <2>1, <2>2, <2>3, <2>4
  <1>5. CASE a.verdict # "none"
    <2>1. a.range \in RangeName /\ a.range # NoRange
      BY HoldingsAssumption DEF Answers
    <2>2. Beyond(run[k].price, a.range) = {}
      BY <1>3, <1>5 DEF Unreviewed
    <2>3. QED
      BY <1>5, <2>1, <2>2
  <1>6. QED
    BY <1>4, <1>5

(* Whatever was prepared and answered, an answer that passes as clean in   *)
(* session leaves the holding within the range stated of it, or with a     *)
(* sale.                                                                   *)
THEOREM CleanReviewsSettle == Spec => []Settled
  <1>1. Spec => [](TypeOK /\ NamesTheRange)
    BY HoldingTypeCorrect, NamesInit, NamesStep, PTL DEF Spec
  <1>2. QED
    BY <1>1, NamesSettle, PTL

-----------------------------------------------------------------------------
(* What happened when.                                                     *)

(* Reviews and runs are not of the future, nor from before the scene, a    *)
(* review that a trigger caused is not later than the last one, and runs   *)
(* are prepared on weekdays.                                               *)
InOrder ==
  /\ Start <= clock
  /\ review.at # Never => Start <= review.at /\ review.at <= clock
  /\ review.triggered # Never =>
       review.at # Never /\ Start <= review.triggered /\ review.triggered <= review.at
  /\ \A k \in Kind : run[k] # Nil =>
       Start <= run[k].at /\ run[k].at <= clock /\ Day(run[k].at) % 7 < 5

LEMMA StartTyped == TypeOK => Start \in Nat
  BY SceneTyped DEF TypeOK, Start, Instant, PerDay

LEMMA OrderInit == Init => InOrder
  <1> SUFFICES ASSUME Init PROVE InOrder
    OBVIOUS
  <1>1. Start \in Int
    BY SceneTyped DEF Init, Start, Instant, PerDay
  <1>2. QED
    BY <1>1 DEF Init, InOrder

(* The last review stays or becomes one of now. *)
LEMMA ReviewStep ==
  ASSUME TypeOK, [Next]_vars
  PROVE  /\ scene' = scene /\ clock' \in Int /\ clock <= clock'
         /\ \/ review' = review
            \/ /\ clock' = clock /\ review'.at = clock
               /\ review'.triggered = clock \/ review'.triggered = review.triggered
  <1>0. clock \in Int
    BY DEF TypeOK, Time
  <1>1. CASE Pass
    BY <1>0, <1>1 DEF Pass, account
  <1>2. CASE Prepare
    BY <1>0, <1>2 DEF Prepare, account
  <1>3. CASE CheckEvents
    BY <1>0, <1>3 DEF CheckEvents, account
  <1>4. ASSUME NEW k \in Kind, ClaimRun(k) PROVE UNCHANGED <<scene, clock, review>>
    BY <1>4 DEF ClaimRun, account
  <1>5. ASSUME NEW k \in Kind, FailRun(k) PROVE UNCHANGED <<scene, clock, review>>
    BY <1>5 DEF FailRun, account
  <1>6. ASSUME NEW k \in Kind, NEW a \in scene.answers, FinishRun(k, a)
        PROVE  /\ UNCHANGED <<scene, clock>>
               /\ \/ review' = review
                  \/ /\ review'.at = clock
                     /\ review'.triggered = clock \/ review'.triggered = review.triggered
    BY <1>6 DEF FinishRun, Saved
  <1>7. ASSUME NEW s \in sales, AdvanceSale(s) PROVE UNCHANGED <<scene, clock, review>>
    BY <1>7 DEF AdvanceSale
  <1>8. CASE UNCHANGED vars
    BY <1>0, <1>8 DEF vars, account
  <1>9. QED
    BY <1>0, <1>1, <1>2, <1>3, <1>4, <1>5, <1>6, <1>7, <1>8, HoldingCases

LEMMA OrderStep == TypeOK /\ InOrder /\ [Next]_vars => InOrder'
  <1> SUFFICES ASSUME TypeOK, InOrder, [Next]_vars PROVE InOrder'
    OBVIOUS
  <1>1. Start \in Nat /\ Start' = Start
    BY StartTyped, ReviewStep DEF Start
  <1>2. clock \in Int /\ clock' \in Int /\ review.at \in Int /\ review.triggered \in Int
    BY ReviewStep DEF TypeOK, Time
  <1>3. /\ Start' <= clock'
        /\ review'.at # Never => Start' <= review'.at /\ review'.at <= clock'
        /\ review'.triggered # Never =>
             review'.at # Never /\ Start' <= review'.triggered /\ review'.triggered <= review'.at
    <2>1. CASE review' = review
      BY <1>1, <1>2, <2>1, ReviewStep DEF InOrder
    <2>2. CASE /\ clock' = clock /\ review'.at = clock
               /\ review'.triggered = clock \/ review'.triggered = review.triggered
      BY <1>1, <1>2, <2>2 DEF InOrder, Never
    <2>3. QED
      BY <2>1, <2>2, ReviewStep
  <1>4. ASSUME NEW k \in Kind, run'[k] # Nil
        PROVE  Start' <= run'[k].at /\ run'[k].at <= clock' /\ Day(run'[k].at) % 7 < 5
    <2>1. CASE run[k] # Nil /\ run'[k] = [run[k] EXCEPT !.claimed = run'[k].claimed]
      <3>1. run[k] \in Run
        BY <2>1 DEF TypeOK
      <3>2. run'[k].at = run[k].at /\ run[k].at \in Int
        BY <2>1, <3>1, SameRun DEF Run, Time
      <3>3. QED
        BY <1>1, <1>2, <2>1, <3>2, ReviewStep DEF InOrder
    <2>2. CASE run'[k] = NewRun /\ Day(clock) % 7 < 5 /\ UNCHANGED clock
      BY <1>1, <1>2, <2>2 DEF NewRun, InOrder
    <2>3. QED
      BY <1>4, <2>1, <2>2, RunStep
  <1>5. QED
    BY <1>3, <1>4 DEF InOrder

(* Nothing that is recorded of a holding is of the future, and a review    *)
(* that a trigger caused is never later than the last one.                 *)
THEOREM ReviewsInOrder == Spec => [](TypeOK /\ InOrder)
  BY HoldingTypeCorrect, OrderInit, OrderStep, PTL DEF Spec

-----------------------------------------------------------------------------
(* Triggered reviews.                                                      *)

(* A run prepared in a cooldown, and since the last review, names a        *)
(* trigger, or lists a headline, only as the price moved since that one.   *)
Cooled(r) ==
  r.at > review.at /\ InCooldown(r.at) /\ (r.named \cap TriggerReasons # {} \/ r.headline)
    => MovedFrom(r.price, review.price)

CooledRuns == \A k \in Kind : run[k] # Nil => Cooled(run[k])

LEMMA NewRunCooled == Cooled(NewRun)
  <1> SUFFICES ASSUME InCooldown(clock), ~NewMove
               PROVE  Reasons(clock) \cap TriggerReasons = {} /\ ~Listed(clock)
    BY DEF Cooled, NewRun, NewMove
  <1>1. Reasons(clock) \subseteq MandatoryReasons
    BY DEF Reasons, KeptInCooldown
  <1>2. MandatoryReasons \cap TriggerReasons = {}
    BY DEF MandatoryReasons, TriggerReasons
  <1>3. QED
    BY <1>1, <1>2 DEF Listed

LEMMA CooledInit == Init => CooledRuns
  BY DEF Init, CooledRuns

LEMMA CooledStep == TypeOK /\ InOrder /\ CooledRuns /\ [Next]_vars => CooledRuns'
  <1> SUFFICES ASSUME TypeOK, InOrder, CooledRuns, [Next]_vars, NEW k \in Kind, run'[k] # Nil
               PROVE  Cooled(run[k])'
    BY DEF CooledRuns
  <1>1. CASE run[k] # Nil /\ run'[k] = [run[k] EXCEPT !.claimed = run'[k].claimed]
    <2>1. run[k] \in Run
      BY <1>1 DEF TypeOK
    <2>2. /\ run'[k].at = run[k].at /\ run'[k].named = run[k].named
          /\ run'[k].headline = run[k].headline /\ run'[k].price = run[k].price
      BY <1>1, <2>1, SameRun
    <2>3. Cooled(run[k]) /\ run[k].at <= clock /\ run[k].at \in Int /\ clock \in Int
      BY <1>1, <2>1 DEF CooledRuns, InOrder, TypeOK, Run, Time
    <2>4. CASE review' = review
      BY <2>2, <2>3, <2>4 DEF Cooled, InCooldown
    <2>5. CASE review'.at = clock
      BY <2>2, <2>3, <2>5 DEF Cooled
    <2>6. QED
      BY <2>4, <2>5, ReviewStep
  <1>2. CASE run'[k] = NewRun /\ UNCHANGED review
    BY <1>2, NewRunCooled DEF Cooled, InCooldown
  <1>3. QED
    BY <1>1, <1>2, RunStep

LEMMA SpacedStep ==
  ASSUME TypeOK, InOrder, CooledRuns, [Next]_vars,
         review'.triggered # review.triggered, InCooldown(clock)
  PROVE  \E k \in Kind : /\ busy = k /\ run'[k] = Nil
                         /\ run[k].at <= review.at \/ MovedFrom(run[k].price, review.price)
  <1>1. ASSUME NEW k \in Kind, NEW a \in scene.answers, FinishRun(k, a)
        PROVE  /\ busy = k /\ run'[k] = Nil
               /\ run[k].at <= review.at \/ MovedFrom(run[k].price, review.price)
    <2>1. run[k] # Nil /\ run[k] \in Run /\ busy = k /\ run'[k] = Nil
      <3>1. busy = k /\ k # Nil /\ run' = [run EXCEPT ![k] = Nil]
        BY <1>1, NilAssumption DEF FinishRun
      <3>2. QED
        BY <3>1 DEF TypeOK
    <2>2. a.verdict # "none" /\ Grounds(run[k], a) \cap TriggerReasons # {}
      BY <1>1 DEF FinishRun, Saved
    <2>3. run[k].named \cap TriggerReasons # {} \/ run[k].headline
      BY <2>2 DEF Grounds, Standing, ToTriage
    <2>4. /\ run[k].at \in Int /\ clock \in Int /\ run[k].at <= clock
          /\ review.at \in Int /\ review.triggered \in Int
      BY <2>1 DEF InOrder, TypeOK, Run, Time
    <2>5. Cooldown \in Int
      BY HoldingsAssumption DEF Cooldown, PerDay
    <2>6. InCooldown(run[k].at)
      BY <2>4, <2>5 DEF InCooldown
    <2>7. QED
      BY <2>1, <2>3, <2>4, <2>6 DEF CooledRuns, Cooled
  <1>2. CASE Pass
    BY <1>2 DEF Pass, account
  <1>3. CASE Prepare
    BY <1>3 DEF Prepare, account
  <1>4. CASE CheckEvents
    BY <1>4 DEF CheckEvents, account
  <1>5. ASSUME NEW k \in Kind, ClaimRun(k) PROVE FALSE
    BY <1>5 DEF ClaimRun, account
  <1>6. ASSUME NEW k \in Kind, FailRun(k) PROVE FALSE
    BY <1>6 DEF FailRun, account
  <1>7. ASSUME NEW s \in sales, AdvanceSale(s) PROVE FALSE
    BY <1>7 DEF AdvanceSale
  <1>8. CASE UNCHANGED vars
    BY <1>8 DEF vars, account
  <1>9. QED
    BY <1>1, <1>2, <1>3, <1>4, <1>5, <1>6, <1>7, <1>8, HoldingCases

(* Two reviews that triggers caused are a cooldown apart, unless the price *)
(* moved between them or the second was prepared before the last one.      *)
THEOREM TriggeredReviewsAreSpaced == Spec => TriggersAreSpaced
  <1>1. Spec => [](TypeOK /\ InOrder /\ CooledRuns)
    BY ReviewsInOrder, CooledInit, CooledStep, PTL DEF Spec
  <1>2. TypeOK /\ InOrder /\ CooledRuns /\ [Next]_vars =>
          [review'.triggered # review.triggered /\ InCooldown(clock) =>
             \E k \in Kind : /\ busy = k /\ run'[k] = Nil
                             /\ run[k].at <= review.at \/ MovedFrom(run[k].price, review.price)]_vars
    BY SpacedStep
  <1>3. QED
    BY <1>1, <1>2, PTL DEF Spec, TriggersAreSpaced

-----------------------------------------------------------------------------
(* No holding is forgotten.                                                *)

(* From noon on, the latest review point is today's or yesterday's.        *)
LEMMA PointIsNear ==
  ASSUME NEW t \in Int, Day(t) % 7 < 5, Instant(Day(t), 3) <= t
  PROVE  LatestPoint(t) \in Int /\ LatestPoint(t) >= Instant(Day(t) - 1, 3)
  <1> DEFINE days == {e \in (Day(t) - 7)..Day(t) : e % 7 \in PointDays}
             points == {Instant(d, 3) : d \in days}
             near == IF Day(t) \in days THEN Day(t) ELSE Day(t) - 1
  <1>1. Day(t) \in Int
    BY InstantOfDay
  <1>2. near \in days /\ near \in Int /\ near >= Day(t) - 1 /\ near <= Day(t)
    <2>1. Day(t) % 7 \in 0..4
      BY <1>1
    <2>2. CASE Day(t) % 7 \in {0, 2, 4}
      BY <1>1, <2>2 DEF PointDays
    <2>3. CASE Day(t) % 7 \in {1, 3}
      <3>1. (Day(t) - 1) % 7 \in {0, 2}
        BY <1>1, <2>3
      <3>2. Day(t) \notin days
        BY <2>3 DEF PointDays
      <3>3. QED
        BY <1>1, <3>1, <3>2 DEF PointDays
    <2>4. QED
      BY <2>1, <2>2, <2>3
  <1>3. \A d \in days : d \in Int /\ d <= near
    BY <1>1, <1>2
  <1>4. \A d \in Int : Instant(d, 3) = 6 * d + 3
    BY DEF Instant, PerDay
  <1>5. Instant(near, 3) \in points /\ Instant(near, 3) <= t
    BY <1>1, <1>2, <1>4
  <1>6. \A q \in points : q \in Int /\ q <= Instant(near, 3)
    BY <1>2, <1>3, <1>4
  <1> HIDE DEF days, near
  <1>7. \E p \in points : p <= t /\ \A q \in points : q <= t => q <= p
    BY <1>5, <1>6
  <1>8. LatestPoint(t) = CHOOSE p \in points : p <= t /\ \A q \in points : q <= t => q <= p
    BY DEF LatestPoint, days
  <1>9. LatestPoint(t) \in points /\ \A q \in points : q <= t => q <= LatestPoint(t)
    BY <1>7, <1>8
  <1>10. LatestPoint(t) \in Int /\ LatestPoint(t) >= Instant(near, 3)
    BY <1>5, <1>6, <1>9
  <1>11. QED
    BY <1>1, <1>2, <1>4, <1>10

(* A run that does not name the scheduled review was prepared after a      *)
(* review that covers its point, or in a cooldown.                         *)
Covered(at, t) == at # Never /\ (at >= LatestPoint(t) - 3 \/ at > t - Cooldown)

RunsAreDue ==
  \A k \in Kind : run[k] # Nil => "scheduled_review" \in run[k].named \/ Covered(review.at, run[k].at)

LEMMA DueInit == Init => RunsAreDue
  BY DEF Init, RunsAreDue

LEMMA CooldownTyped == Cooldown \in Nat /\ Cooldown = 6 * CooldownDays /\ Cooldown >= 12
  BY HoldingsAssumption DEF Cooldown, PerDay

LEMMA NewRunDue ==
  ASSUME TypeOK, InOrder
  PROVE  "scheduled_review" \in NewRun.named \/ Covered(review.at, NewRun.at)
  <1>1. clock \in Int /\ review.at \in Int /\ review.triggered \in Int
    BY DEF TypeOK, Time
  <1>2. CASE InCooldown(clock)
    <2>1. review.at # Never /\ review.triggered <= review.at /\ clock < review.triggered + Cooldown
      BY <1>2 DEF InCooldown, InOrder
    <2>2. review.at > clock - Cooldown
      BY <1>1, <2>1, CooldownTyped
    <2>3. QED
      BY <2>1, <2>2 DEF Covered, NewRun
  <1>3. CASE ~InCooldown(clock) /\ CoversPoint(clock)
    BY <1>3 DEF CoversPoint, Covered, NewRun
  <1>4. CASE ~InCooldown(clock) /\ ~CoversPoint(clock)
    BY <1>4 DEF NewRun, Reasons, AllReasons, Scheduled
  <1>5. QED
    BY <1>2, <1>3, <1>4

(* A later review covers what an earlier one did. *)
LEMMA StillCovered ==
  ASSUME TypeOK, InOrder, [Next]_vars, NEW t \in Int, t <= clock, Covered(review.at, t)
  PROVE  Covered(review'.at, t)
  <1>1. CASE review' = review
    BY <1>1 DEF Covered
  <1>2. CASE clock' = clock /\ review'.at = clock
    <2>1. clock \in Int /\ clock # Never /\ review'.at # Never
      BY <1>2, StartTyped DEF TypeOK, Time, InOrder, Never
    <2>2. review'.at > t - Cooldown
      BY <1>2, <2>1, CooldownTyped
    <2>3. QED
      BY <2>1, <2>2 DEF Covered
  <1>3. QED
    BY <1>1, <1>2, ReviewStep

LEMMA DueStep == TypeOK /\ InOrder /\ RunsAreDue /\ [Next]_vars => RunsAreDue'
  <1> SUFFICES ASSUME TypeOK, InOrder, RunsAreDue, [Next]_vars, NEW k \in Kind, run'[k] # Nil
               PROVE  "scheduled_review" \in run'[k].named \/ Covered(review'.at, run'[k].at)
    BY DEF RunsAreDue
  <1>1. CASE run[k] # Nil /\ run'[k] = [run[k] EXCEPT !.claimed = run'[k].claimed]
    <2>1. run[k] \in Run
      BY <1>1 DEF TypeOK
    <2>2. run'[k].at = run[k].at /\ run'[k].named = run[k].named
      BY <1>1, <2>1, SameRun
    <2>3. run[k].at \in Int /\ run[k].at <= clock
      BY <1>1, <2>1 DEF InOrder, Run, Time
    <2>4. "scheduled_review" \in run[k].named \/ Covered(review.at, run[k].at)
      BY <1>1 DEF RunsAreDue
    <2>5. Covered(review.at, run[k].at) => Covered(review'.at, run'[k].at)
      BY <2>2, <2>3, StillCovered
    <2>6. QED
      BY <2>2, <2>4, <2>5
  <1>2. CASE run'[k] = NewRun /\ UNCHANGED <<clock, review>>
    BY <1>2, NewRunDue DEF NewRun
  <1>3. QED
    BY <1>1, <1>2, RunStep

(* The last review, or the opening, is less than a cooldown older than the *)
(* noon of a day.                                                          *)
FreshFrom(at, d) == at > Instant(d, 3) - Cooldown

CleanMiddays ==
  midday => /\ Day(clock) % 7 < 5 /\ review.at # Never
            /\ FreshFrom(review.at, Day(clock))

KeptFresh ==
  healthy => \A d \in Int : scene.first <= d /\ d % 7 < 5 /\ Close(d) <= clock => FreshFrom(Since, d)

LEMMA FreshInit == Init => CleanMiddays /\ KeptFresh
  <1> SUFFICES ASSUME Init, NEW d \in Int, scene.first <= d, Close(d) <= clock PROVE FALSE
    BY DEF Init, CleanMiddays, KeptFresh
  <1>1. scene.first \in Nat /\ clock = Instant(scene.first, 0)
    BY SceneTyped DEF Init, Start
  <1>2. QED
    BY <1>1 DEF Close, Instant, PerDay

(* A clean review of a run that was prepared since noon is one of today,   *)
(* or there was one that covers it.                                        *)
LEMMA CleanIsFresh ==
  ASSUME TypeOK, InOrder, RunsAreDue, NEW k \in Kind, NEW a \in scene.answers,
         FinishRun(k, a), ~Gap(run[k], a), run[k].at >= Instant(Day(clock), 3)
  PROVE  Day(clock) % 7 < 5 /\ review'.at # Never /\ FreshFrom(review'.at, Day(clock))
  <1> DEFINE r == run[k]
             D == Day(clock)
  <1>1. r # Nil /\ r \in Run /\ review' = Saved(r, a)
    <2>1. busy = k /\ k # Nil /\ review' = Saved(r, a)
      BY NilAssumption DEF FinishRun
    <2>2. QED
      BY <2>1 DEF TypeOK
  <1>2. r.at \in Int /\ clock \in Int /\ review.at \in Int /\ clock # Never
    BY <1>1, StartTyped DEF TypeOK, InOrder, Run, Time, Never
  <1>3. r.at <= clock /\ Day(r.at) % 7 < 5 /\ (review.at # Never => review.at <= clock)
    BY <1>1 DEF InOrder
  <1>4. /\ D \in Int
        /\ Instant(D, 3) = 6 * D + 3 /\ Instant(D - 1, 3) = 6 * D - 3
        /\ clock <= 6 * D + 5
    BY <1>2, InstantOfDay DEF Instant, PerDay
  <1>5. Day(r.at) = D
    <2>1. 6 * D + 3 <= r.at /\ r.at <= 6 * D + 5
      BY <1>2, <1>3, <1>4
    <2>2. QED
      BY <1>2, <1>4, <2>1, DayOf
  <1>6. review'.at = clock \/ (review'.at = review.at /\ a.verdict = "none")
    BY <1>1 DEF Saved
  <1>7. CASE review'.at = clock
    BY <1>2, <1>3, <1>4, <1>5, <1>7, CooldownTyped DEF FreshFrom
  <1>8. CASE review'.at = review.at /\ a.verdict = "none"
    <2>1. "scheduled_review" \notin r.named
      <3>1. ~Unreviewed(r, a)
        BY DEF Gap
      <3>2. Standing(r.named, r.since, r.at) \ {"invalidated_without_exit"} = {}
        BY <1>8, <3>1 DEF Unreviewed
      <3>3. QED
        BY <3>2 DEF Standing, LiftedBySale
    <2>2. Covered(review.at, r.at)
      BY <1>1, <2>1 DEF RunsAreDue
    <2>3. LatestPoint(r.at) \in Int /\ LatestPoint(r.at) >= Instant(D - 1, 3)
      BY <1>2, <1>3, <1>5, PointIsNear
    <2>4. review.at > Instant(D, 3) - Cooldown
      BY <1>2, <1>4, <2>2, <2>3, CooldownTyped DEF Covered
    <2>5. QED
      BY <1>3, <1>5, <1>8, <2>2, <2>4 DEF FreshFrom, Covered
  <1>9. QED
    BY <1>6, <1>7, <1>8

LEMMA CleanStep == TypeOK /\ InOrder /\ RunsAreDue /\ CleanMiddays /\ [Next]_vars => CleanMiddays'
  <1> SUFFICES ASSUME TypeOK, InOrder, RunsAreDue, CleanMiddays, [Next]_vars, midday'
               PROVE  CleanMiddays'
    BY DEF CleanMiddays
  <1>0. clock \in Int /\ review.at \in Int
    BY DEF TypeOK, Time
  <1>1. CASE Pass
    <2>1. midday /\ clock' = clock + 1 /\ Part(clock') # 0 /\ review' = review
      BY <1>1 DEF Pass, account
    <2>2. Day(clock') = Day(clock)
      BY <1>0, <2>1 DEF Day, Part, PerDay
    <2>3. QED
      BY <2>1, <2>2 DEF CleanMiddays
  <1>2. ASSUME NEW k \in Kind, NEW a \in scene.answers, FinishRun(k, a) PROVE CleanMiddays'
    <2>1. clock' = clock /\ (review' = review \/ review'.at = clock)
      BY <1>2 DEF FinishRun, Saved
    <2>2. CASE midday
      <3>1. CASE review' = review
        BY <2>1, <2>2, <3>1 DEF CleanMiddays
      <3>2. CASE review'.at = clock
        <4>1. clock >= review.at /\ clock # Never /\ Day(clock) \in Int
          BY <1>0, <2>2, StartTyped, InstantOfDay DEF CleanMiddays, InOrder, Never
        <4>2. FreshFrom(clock, Day(clock))
          BY <1>0, <2>2, <4>1, CooldownTyped DEF CleanMiddays, FreshFrom, Instant, PerDay
        <4>3. QED
          BY <2>1, <2>2, <3>2, <4>1, <4>2 DEF CleanMiddays
      <3>3. QED
        BY <2>1, <3>1, <3>2
    <2>3. CASE ~midday
      <3>1. ~Gap(run[k], a) /\ run[k].at >= Instant(Day(clock), 3)
        BY <1>2, <2>3 DEF FinishRun
      <3>2. QED
        BY <1>2, <2>1, <3>1, CleanIsFresh DEF CleanMiddays
    <2>4. QED
      BY <2>2, <2>3
  <1>3. CASE Prepare
    BY <1>3 DEF Prepare, account, history, CleanMiddays
  <1>4. CASE CheckEvents
    BY <1>4 DEF CheckEvents, account, history, CleanMiddays
  <1>5. ASSUME NEW k \in Kind, ClaimRun(k) PROVE CleanMiddays'
    BY <1>5 DEF ClaimRun, account, history, CleanMiddays
  <1>6. ASSUME NEW k \in Kind, FailRun(k) PROVE CleanMiddays'
    BY <1>6 DEF FailRun, account, history, CleanMiddays
  <1>7. ASSUME NEW s \in sales, AdvanceSale(s) PROVE CleanMiddays'
    BY <1>7 DEF AdvanceSale, history, CleanMiddays
  <1>8. CASE UNCHANGED vars
    BY <1>8 DEF vars, account, history, CleanMiddays
  <1>9. QED
    BY <1>1, <1>2, <1>3, <1>4, <1>5, <1>6, <1>7, <1>8, HoldingCases

LEMMA KeptStep == TypeOK /\ InOrder /\ CleanMiddays /\ KeptFresh /\ [Next]_vars => KeptFresh'
  <1> SUFFICES ASSUME TypeOK, InOrder, CleanMiddays, KeptFresh, [Next]_vars, healthy',
                      NEW d \in Int, scene'.first <= d, d % 7 < 5, Close(d) <= clock'
               PROVE  FreshFrom(Since', d)
    BY DEF KeptFresh
  <1>1. /\ clock \in Int /\ clock' \in Int /\ clock <= clock' /\ scene' = scene
        /\ review.at \in Int /\ Start \in Nat /\ Start' = Start
    BY ReviewStep, StartTyped DEF TypeOK, Time, Start
  <1>2. Since \in Int /\ Since' \in Int /\ Since <= Since'
    <2>1. CASE review' = review
      BY <1>1, <2>1 DEF Since, Opened
    <2>2. CASE review'.at = clock
      BY <1>1, <2>2 DEF Since, Opened, InOrder, Never
    <2>3. QED
      BY <2>1, <2>2, ReviewStep
  <1>3. FreshFrom(Since, d) => FreshFrom(Since', d)
    BY <1>2, CooldownTyped DEF FreshFrom, Instant, PerDay
  <1>4. CASE healthy /\ Close(d) <= clock
    BY <1>1, <1>3, <1>4 DEF KeptFresh
  <1>5. CASE Pass /\ ~(Close(d) <= clock)
    <2>1. clock' = clock + 1 /\ review' = review
      BY <1>5 DEF Pass, account
    <2>2. Close(d) = clock + 1
      BY <1>1, <1>5, <2>1 DEF Close, Instant, PerDay
    <2>3. Day(clock) = d /\ Part(clock) = 4
      BY <1>1, <2>2 DEF Close, Day, Part, Instant, PerDay
    <2>4. midday
      BY <1>5, <2>3 DEF Pass
    <2>5. review.at # Never /\ FreshFrom(review.at, d)
      BY <2>3, <2>4 DEF CleanMiddays
    <2>6. QED
      BY <2>1, <2>5 DEF Since
  <1>6. healthy /\ (Pass \/ clock' = clock)
    BY HoldingCases
       DEF Pass, Prepare, CheckEvents, ClaimRun, FailRun, FinishRun, AdvanceSale, vars, history
  <1>7. QED
    BY <1>1, <1>4, <1>5, <1>6

(* Between the closes of two weekdays there are at most three days.        *)
LEMMA KeptIsFresh == TypeOK /\ InOrder /\ KeptFresh => Fresh
  <1> SUFFICES ASSUME TypeOK, InOrder, KeptFresh, healthy PROVE clock - Since <= LongestGap
    BY DEF Fresh
  <1> DEFINE D == Day(clock)
             last == IF D % 7 < 5 /\ Part(clock) = 5 THEN D
                     ELSE IF D % 7 = 0 THEN D - 3
                     ELSE IF D % 7 = 6 THEN D - 2
                     ELSE D - 1
  <1>1. clock \in Int /\ review.at \in Int /\ scene.first \in Nat
    BY SceneTyped DEF TypeOK, Time
  <1>2. D \in Int /\ Part(clock) \in 0..5 /\ clock = 6 * D + Part(clock)
    BY <1>1, InstantOfDay DEF Instant, PerDay
  <1> HIDE DEF D
  <1>3. last \in Int /\ last % 7 < 5
    BY <1>2
  <1>4. Close(last) <= clock /\ clock <= 6 * (last + 3) + 4
    BY <1>2 DEF Close, Instant, PerDay
  <1>5. Since \in Int /\ Start = 6 * scene.first /\ Start <= Since
    BY <1>1 DEF Since, Opened, Start, Instant, PerDay, InOrder
  <1>6. LongestGap = 6 * CooldownDays + 18 /\ CooldownDays \in Nat
    BY HoldingsAssumption DEF LongestGap, PerDay
  <1> HIDE DEF last
  <1>7. CASE scene.first <= last
    <2>1. Since > 6 * last + 3 - Cooldown
      <3>1. FreshFrom(Since, last)
        BY <1>3, <1>4, <1>7 DEF KeptFresh
      <3>2. QED
        BY <1>3, <1>5, <3>1, CooldownTyped DEF FreshFrom, Instant, PerDay
    <2>2. QED
      BY <1>1, <1>3, <1>4, <1>5, <1>6, <2>1, CooldownTyped
  <1>8. CASE last < scene.first
    BY <1>1, <1>3, <1>4, <1>5, <1>6, <1>8
  <1>9. QED
    BY <1>1, <1>3, <1>7, <1>8

(* While every midday review is clean, no holding is left without a review *)
(* for longer than the cooldown and the three days from a Friday to a      *)
(* Monday, wherever in the week it starts and whatever calls its reviews.  *)
THEOREM HoldingsStayFresh == Spec => []Fresh
  <1>1. Spec => [](TypeOK /\ InOrder /\ RunsAreDue)
    BY ReviewsInOrder, DueInit, DueStep, PTL DEF Spec
  <1>2. Spec => [](CleanMiddays /\ KeptFresh)
    BY <1>1, FreshInit, CleanStep, KeptStep, PTL DEF Spec
  <1>3. QED
    BY <1>1, <1>2, KeptIsFresh, PTL

-----------------------------------------------------------------------------
(* Which cases a step has. *)
LEMMA WorkerCases ==
  ASSUME [WorkerNext]_workerVars
  PROVE  \/ TimePasses \/ Claim \/ Snapshot \/ SkipSnapshot \/ Collected \/ Author \/ Pulsed \/ Stop
         \/ AskAgain \/ Accept \/ StartSubmitting
         \/ \E d \in Decision : Submit(d)
         \/ Complete \/ WriteLedger
         \/ \E h \in Holding : SaveReview(h)
         \/ Finish \/ Fail \/ Kill \/ EndFromOutside
         \/ UNCHANGED workerVars
  BY DEF WorkerNext, Progress

-----------------------------------------------------------------------------
(* The worker's variables.                                                 *)

LEMMA LimitTyped == WorkerTypeOK => TimeLimit \in Nat
  BY WorkerAssumption DEF TimeLimit

LEMMA AnswerTyped ==
  ASSUME NEW a \in Answer \cup {NoAnswer}
  PROVE  /\ a.shortfall \in BOOLEAN /\ a.gaps \in BOOLEAN
         /\ a.decisions \subseteq Authored /\ a.reviews \subseteq Holding
         /\ HeldBack(a) \subseteq Decision
  <1>1. /\ a.shortfall \in BOOLEAN /\ a.gaps \in BOOLEAN
        /\ a.decisions \subseteq Authored /\ a.reviews \subseteq Holding
    <2>1. CASE a = NoAnswer
      BY <2>1 DEF NoAnswer
    <2>2. CASE a \in Answer
      BY <2>2, WorkerAssumption
    <2>3. QED
      BY <2>1, <2>2
  <1>2. HeldBack(a) \subseteq Decision
    BY <1>1 DEF HeldBack, Authored, Decision
  <1>3. QED
    BY <1>1, <1>2

LEMMA WorkerInitTyped == WorkerInit => WorkerTypeOK
  <1> SUFFICES ASSUME WorkerInit PROVE WorkerTypeOK
    OBVIOUS
  <1>1. kind \in [live : BOOLEAN, crisis : BOOLEAN] /\ ~kind.crisis
    BY DEF WorkerInit
  <1>2. QED
    BY <1>1 DEF WorkerInit, WorkerTypeOK, Status, Step

LEMMA WorkerStepTyped == WorkerTypeOK /\ [WorkerNext]_workerVars => WorkerTypeOK'
  <1> SUFFICES ASSUME WorkerTypeOK, [WorkerNext]_workerVars PROVE WorkerTypeOK'
    OBVIOUS
  <1> USE WorkerAssumption
  <1>1. CASE TimePasses
    BY <1>1 DEF TimePasses, WorkerTypeOK, lease, local
  <1>2. CASE Claim
    BY <1>2 DEF Claim, WorkerTypeOK, Now, Status, Step
  <1>3. CASE Snapshot
    BY <1>3 DEF Snapshot, WorkerTypeOK, Now, Beat, SnapshotLease, Step, local
  <1>4. CASE SkipSnapshot
    BY <1>4 DEF SkipSnapshot, WorkerTypeOK, Then, Step, lease, local
  <1>5. CASE Collected
    BY <1>5 DEF Collected, WorkerTypeOK, Now, Submittable, Step, lease, local
  <1>6. CASE Author
    <2>1. TimeLimit \in Nat
      BY LimitTyped
    <2>2. QED
      BY <1>6, <2>1 DEF Author, WorkerTypeOK, Now, Beat, Step, local
  <1>7. CASE Pulsed
    BY <1>7 DEF Pulsed, WorkerTypeOK, Now, Beat, Step, local
  <1>8. CASE Stop
    BY <1>8 DEF Stop, WorkerTypeOK, Now, Step, lease, local
  <1>9. CASE AskAgain
    <2>1. TimeLimit \in Nat
      BY LimitTyped
    <2>2. deadline' \in Nat /\ time <= deadline'
      BY <1>9, <2>1 DEF AskAgain, TimeForAnother, RunAgainUntil, Remaining, WorkerTypeOK
    <2>3. QED
      BY <1>9, <2>2 DEF AskAgain, WorkerTypeOK, Now, Beat, Step
  <1>10. CASE Accept
    <2>1. PICK a \in Answer : /\ answer' = Kept(answer, a)
                              /\ todo' = HeldBack(Kept(answer, a))
      BY <1>10 DEF Accept
    <2>2. answer' \in Answer \cup {NoAnswer}
      BY <2>1 DEF Kept, WorkerTypeOK
    <2>3. todo' \subseteq Decision
      BY <2>1, <2>2, AnswerTyped
    <2>4. QED
      BY <1>10, <2>2, <2>3 DEF Accept, WorkerTypeOK, Now, Beat, Step, local
  <1>11. CASE StartSubmitting
    BY <1>11 DEF StartSubmitting, WorkerTypeOK, Now, Beat, Step, local
  <1>12. ASSUME NEW d \in Decision, Submit(d) PROVE WorkerTypeOK'
    <2>1. owed' \subseteq Mark
      BY <1>12 DEF Submit, Mark
    <2>2. QED
      BY <1>12, <2>1 DEF Submit, WorkerTypeOK, Then, Step, lease, local
  <1>13. CASE Complete
    BY <1>13 DEF Complete, WorkerTypeOK, Then, Step, lease, local
  <1>14. CASE WriteLedger
    BY <1>14 DEF WriteLedger, WorkerTypeOK, Then, Step, lease, local
  <1>15. ASSUME NEW h \in Holding, SaveReview(h) PROVE WorkerTypeOK'
    BY <1>15 DEF SaveReview, WorkerTypeOK, Then, Step, lease, local
  <1>16. CASE Finish
    BY <1>16 DEF Finish, WorkerTypeOK, Then, Step, Status, local
  <1>17. CASE Fail
    BY <1>17 DEF Fail, WorkerTypeOK, Then, Step, Status, local
  <1>18. CASE Kill
    BY <1>18 DEF Kill, WorkerTypeOK, Then, Step, lease, local
  <1>19. CASE EndFromOutside
    BY <1>19 DEF EndFromOutside, WorkerTypeOK, Status, local
  <1>20. CASE UNCHANGED workerVars
    BY <1>20 DEF workerVars, WorkerTypeOK, lease, local
  <1>21. QED
    BY <1>1, <1>2, <1>3, <1>4, <1>5, <1>6, <1>7, <1>8, <1>9, <1>10, <1>11, <1>12, <1>13,
       <1>14, <1>15, <1>16, <1>17, <1>18, <1>19, <1>20, WorkerCases

(* The variables of the worker are well formed in every reachable state,   *)
(* and run_codex() is never given a time limit that is already over.       *)
THEOREM WorkerTypeCorrect == WorkerSpec => []WorkerTypeOK
  <1>1. QED
    BY WorkerInitTyped, WorkerStepTyped, PTL DEF WorkerSpec

-----------------------------------------------------------------------------
(* The worker's time.                                                      *)

(* What the lease must still cover when the worker's step is over.         *)
StillToCome(s) ==
  CASE s = "authoring" -> Cleanup + Work
    [] s \in {"stopping", "snapshot", "resnapshot"} -> Work
    [] OTHER -> 0

(* What comes before the first pass. *)
Before == IF pass = 1 THEN Refresh + 2 * Work ELSE 0

(* How long after the claim the worker is at a step, counted from where    *)
(* the step began.                                                         *)
Latest(s) ==
  CASE s = "starting" -> 0
    [] s = "snapshot" -> Work
    [] s = "briefing" -> Work + Refresh
    [] s = "stopping" -> TimeLimit + Before
    [] s = "judging" -> TimeLimit + Before + Cleanup
    [] s = "validating" -> TimeLimit + Before + Cleanup + Work
    [] s = "reopening" -> TimeLimit + Before + Cleanup + 2 * Work
    [] s = "resnapshot" -> TimeLimit + Before + Cleanup + 3 * Work
    [] OTHER -> TimeLimit + Before + Cleanup + 3 * Work + Refresh

InLease == status = "running" => expires > since + Longest(step) + StillToCome(step)

InLimit ==
  /\ step \in {"starting", "snapshot", "briefing"} => pass = 1
  /\ step = "authoring" => deadline <= started + TimeLimit + Before
  /\ step # "authoring" => since <= started + Latest(step)

(* A worker at work has been at its step no longer than the step lasts,    *)
(* and began it early enough for its lease and its limit.                  *)
InTime ==
  /\ step = "idle" => pass = 1
  /\ step \in Working => since <= time /\ time <= since + Longest(step) /\ InLease /\ InLimit

LEMMA TimeInit == WorkerInit => InTime
  BY DEF WorkerInit, InTime, Working

LEMMA TimeStep == WorkerTypeOK /\ InTime /\ [WorkerNext]_workerVars => InTime'
  <1> SUFFICES ASSUME WorkerTypeOK, InTime, [WorkerNext]_workerVars PROVE InTime'
    OBVIOUS
  <1> USE WorkerAssumption, TimingAssumption
  <1> USE DEF InTime, InLease, InLimit, Latest, Before, StillToCome, Longest, WorkerTypeOK, Working, Step
  <1>0. TimeLimit \in Nat
    BY LimitTyped
  <1>1. CASE TimePasses
    BY <1>0, <1>1 DEF TimePasses, TimeLimit, lease, local
  <1>2. CASE Claim
    BY <1>2 DEF Claim, Now
  <1>3. CASE Snapshot
    BY <1>0, <1>3 DEF Snapshot, Now, Beat, Valid, SnapshotLease, TimeLimit, local
  <1>4. CASE SkipSnapshot
    BY <1>0, <1>4 DEF SkipSnapshot, Then, TimeLimit, lease, local
  <1>5. CASE Collected
    BY <1>0, <1>5 DEF Collected, Now, TimeLimit, lease, local
  <1>6. CASE Author
    BY <1>0, <1>6 DEF Author, Now, Beat, Valid, TimeLimit, local
  <1>7. CASE Pulsed
    BY <1>0, <1>7 DEF Pulsed, Now, Beat, Valid, TimeLimit, local
  <1>8. CASE Stop
    BY <1>0, <1>8 DEF Stop, Now, TimeLimit, lease, local
  <1>9. CASE AskAgain
    BY <1>0, <1>9 DEF AskAgain, Now, Beat, Valid, RunAgainUntil, Remaining, TimeForAnother, TimeLimit
  <1>10. CASE Accept
    BY <1>0, <1>10 DEF Accept, Now, Beat, Valid, TimeLimit, local
  <1>11. CASE StartSubmitting
    BY <1>0, <1>11 DEF StartSubmitting, Now, Beat, Valid, TimeLimit, local
  <1>12. ASSUME NEW d \in Decision, Submit(d) PROVE InTime'
    BY <1>0, <1>12 DEF Submit, Then, TimeLimit, lease, local
  <1>13. CASE Complete
    BY <1>0, <1>13 DEF Complete, Then, TimeLimit, lease, local
  <1>14. CASE WriteLedger
    BY <1>0, <1>14 DEF WriteLedger, Then, TimeLimit, lease, local
  <1>15. ASSUME NEW h \in Holding, SaveReview(h) PROVE InTime'
    BY <1>0, <1>15 DEF SaveReview, Then, TimeLimit, lease, local
  <1>16. CASE Finish
    BY <1>16 DEF Finish, Then
  <1>17. CASE Fail
    BY <1>17 DEF Fail, Then
  <1>18. CASE Kill
    BY <1>18 DEF Kill, Then
  <1>19. CASE EndFromOutside
    BY <1>0, <1>19 DEF EndFromOutside, TimeLimit, local
  <1>20. CASE UNCHANGED workerVars
    BY <1>0, <1>20 DEF workerVars, TimeLimit, lease, local
  <1>21. QED
    BY <1>1, <1>2, <1>3, <1>4, <1>5, <1>6, <1>7, <1>8, <1>9, <1>10, <1>11, <1>12, <1>13,
       <1>14, <1>15, <1>16, <1>17, <1>18, <1>19, <1>20, WorkerCases

(* For all lengths that the assumptions allow, no step of a worker, be it  *)
(* waiting for two broker sessions or for a model that will not end, uses  *)
(* up the lease it began with: an expired lease means that the worker was  *)
(* killed, or stood still for longer than it is assumed to.                *)
THEOREM LeaseHolds == WorkerSpec => []LeaseOutlivesSteps
  <1>1. WorkerTypeOK /\ InTime => LeaseOutlivesSteps
    BY WorkerAssumption, TimingAssumption
    DEF WorkerTypeOK, InTime, InLease, StillToCome, Longest, LeaseOutlivesSteps
  <1>2. QED
    BY <1>1, WorkerInitTyped, WorkerStepTyped, TimeInit, TimeStep, PTL DEF WorkerSpec

(* The attempt of a worker that is not killed is over within its time      *)
(* limit, two snapshots and what it does itself, with two passes as with   *)
(* one.                                                                    *)
THEOREM LimitHolds == WorkerSpec => []EndsInTime
  <1>1. WorkerTypeOK /\ InTime => EndsInTime
    <2> SUFFICES ASSUME WorkerTypeOK, InTime, step \in Working
                 PROVE  time <= started + TimeLimit + AfterTheModel
                                   + (IF pass = 1 THEN Refresh + 2 * Work ELSE 0)
      BY DEF EndsInTime
    <2>1. TimeLimit \in Nat
      BY LimitTyped
    <2>2. CASE step = "authoring"
      BY <2>1, <2>2, WorkerAssumption
      DEF WorkerTypeOK, InTime, InLimit, Before, AfterTheModel, Working, Step
    <2>3. CASE step # "authoring"
      BY <2>1, <2>3, WorkerAssumption
      DEF WorkerTypeOK, InTime, InLimit, Before, Latest, Longest, AfterTheModel, Working, Step
    <2>4. QED
      BY <2>2, <2>3
  <1>2. QED
    BY <1>1, WorkerInitTyped, WorkerStepTyped, TimeInit, TimeStep, PTL DEF WorkerSpec

-----------------------------------------------------------------------------
(* What the worker saves.                                                  *)

Undecided == {"idle", "starting", "snapshot", "briefing", "authoring", "stopping", "judging"}
Decided == {"validating", "reopening", "resnapshot"}

(* What an attempt may submit of the answer it accepted. *)
Accepted == Submittable(HeldBack(answer), stale)

Owing == "watch" \in rows => "held" \in rows \cup owed

(* Nothing is saved before an answer is accepted; then all of it is still  *)
(* to be submitted; then what is saved and what is not make up all of it,  *)
(* until the ledger says that nothing is missing.                          *)
Content ==
  /\ stale => kind.live /\ step # "idle"
  /\ step \in Undecided => rows = {} /\ owed = {} /\ todo = {} /\ reviewed = {}
  /\ step \in Decided => /\ rows = {} /\ owed = {} /\ reviewed = {}
                         /\ todo = HeldBack(answer)
                         /\ ~answer.shortfall
  /\ step = "submitting" => /\ ~answer.shortfall
                            /\ (rows \cap Decision) \cup todo = Accepted
                            /\ Owing
                            /\ "ledger" \notin rows /\ reviewed = {}
  /\ step = "reviewing" => "ledger" \in rows
  /\ rows # {} => ~answer.shortfall /\ rows \cap Decision \subseteq Accepted
  /\ "ledger" \in rows => /\ Accepted \subseteq rows /\ owed = {}
                          /\ "watch" \in rows => "held" \in rows
  /\ reviewed # {} => "ledger" \in rows
  /\ status = "done" => "ledger" \in rows /\ answer.reviews \subseteq reviewed /\ step = "ended"

LEMMA ContentInit == WorkerInit => Content
  BY DEF WorkerInit, Content, Undecided, Decided

LEMMA ContentStep == WorkerTypeOK /\ Content /\ [WorkerNext]_workerVars => Content'
  <1> SUFFICES ASSUME WorkerTypeOK, Content, [WorkerNext]_workerVars PROVE Content'
    OBVIOUS
  <1> USE DEF Content, Undecided, Decided, Accepted, Owing
  <1>1. CASE TimePasses
    BY <1>1 DEF TimePasses, lease, local
  <1>2. CASE Claim
    BY <1>2 DEF Claim, Now
  <1>3. CASE Snapshot
    BY <1>3 DEF Snapshot, Now, Beat, Valid, local
  <1>4. CASE SkipSnapshot
    BY <1>4 DEF SkipSnapshot, Then, lease, local
  <1>5. CASE Collected
    BY <1>5 DEF Collected, Now, lease, local, WorkerTypeOK, Submittable
  <1>6. CASE Author
    BY <1>6 DEF Author, Now, Beat, Valid, local
  <1>7. CASE Pulsed
    BY <1>7 DEF Pulsed, Now, Beat, Valid, local
  <1>8. CASE Stop
    BY <1>8 DEF Stop, Now, lease, local
  <1>9. CASE AskAgain
    BY <1>9 DEF AskAgain, Now, Beat, Valid
  <1>10. CASE Accept
    BY <1>10 DEF Accept, Now, Beat, Valid, local
  <1>11. CASE StartSubmitting
    BY <1>11 DEF StartSubmitting, Now, Beat, Valid, local, Submittable
  <1>12. ASSUME NEW d \in Decision, Submit(d) PROVE Content'
    BY <1>12 DEF Submit, Then, Valid, lease, local, Decision
  <1>13. CASE Complete
    BY <1>13 DEF Complete, Then, Valid, lease, local, WorkerTypeOK, Mark, Decision
  <1>14. CASE WriteLedger
    BY <1>14 DEF WriteLedger, Then, Valid, lease, local, AllSubmitted, Decision
  <1>15. ASSUME NEW h \in Holding, SaveReview(h) PROVE Content'
    BY <1>15 DEF SaveReview, Then, Valid, lease, local
  <1>16. CASE Finish
    BY <1>16 DEF Finish, Then, local
  <1>17. CASE Fail
    BY <1>17 DEF Fail, Then, local, Working, Step
  <1>18. CASE Kill
    BY <1>18 DEF Kill, Then, lease, local, Working, Step
  <1>19. CASE EndFromOutside
    BY <1>19 DEF EndFromOutside, local
  <1>20. CASE UNCHANGED workerVars
    BY <1>20 DEF workerVars, lease, local
  <1>21. QED
    BY <1>1, <1>2, <1>3, <1>4, <1>5, <1>6, <1>7, <1>8, <1>9, <1>10, <1>11, <1>12, <1>13,
       <1>14, <1>15, <1>16, <1>17, <1>18, <1>19, <1>20, WorkerCases

(* Money goes in only on an answer without gaps and a fresh account,       *)
(* whichever pass gave it and whenever the account became stale.           *)
THEOREM MoneyIsEarned == WorkerSpec => []BuysAreEarned
  <1>1. WorkerTypeOK /\ Content => BuysAreEarned
    <2> SUFFICES ASSUME WorkerTypeOK, Content PROVE BuysAreEarned
      OBVIOUS
    <2>1. answer.gaps \in BOOLEAN /\ stale \in BOOLEAN
      BY AnswerTyped DEF WorkerTypeOK
    <2>2. rows # {} => ~answer.shortfall
      BY DEF Content
    <2>3. rows \cap Decision \subseteq Submittable(HeldBack(answer), stale)
      BY DEF Content, Accepted
    <2>4. rows \cap {"buy", "add"} # {} => ~answer.gaps /\ ~stale
      BY <2>1, <2>3 DEF Submittable, HeldBack, Decision, Sales
    <2>5. "funding" \in rows /\ "buy" \in answer.decisions => ~answer.gaps
      BY <2>1, <2>3 DEF Submittable, HeldBack, Decision, Sales
    <2>6. QED
      BY <2>2, <2>4, <2>5 DEF BuysAreEarned
  <1>2. QED
    BY <1>1, WorkerInitTyped, WorkerStepTyped, ContentInit, ContentStep, PTL DEF WorkerSpec

(* Wherever an attempt stopped, what its ledger stands for is all there.   *)
THEOREM LedgerHolds == WorkerSpec => []LedgerIsComplete
  <1>1. Content => LedgerIsComplete
    BY DEF Content, Accepted, LedgerIsComplete
  <1>2. QED
    BY <1>1, WorkerInitTyped, WorkerStepTyped, ContentInit, ContentStep, PTL DEF WorkerSpec
=============================================================================
